-------------------------- MODULE DnsNetworkProofs --------------------------
(***************************************************************************)
(* Proofs about the DNS interceptor across network changes, for any number *)
(* of queries, lanes, controllers and revisions.                           *)
(*                                                                         *)
(* A query carries two witnesses of when it began: the token of its        *)
(* snapshot and the network epoch of its proxy.  The invariant says which  *)
(* of them betrays an exchange that a network change has overtaken.        *)
(***************************************************************************)
EXTENDS DnsNetwork, PolicyProofs

QueryStates ==
  [pc : {"idle", "epoch", "lookup", "lane", "lock", "connect", "keep", "await", "store",
         "failed", "deliver", "given"},
   proxy : Nat, token : Nat, net : Nat, quicNet : Nat, lane : Lanes \cup {NoLane},
   session : Nat, sent : Nat, answer : Nat]
Proxies == [net : Nat, cache : Nat]
Answers == [cache : Nat, net : Nat, network : Nat]
Hints == [cache : Nat, network : Nat]
Pools == [Revisions -> [Lanes -> Nat]]

DnsTypes ==
  /\ network \in Nat /\ proxies \in [Revisions -> Proxies] /\ pool \in Pools
  /\ answers \subseteq Answers /\ hints \subseteq Hints /\ query \in [Queries -> QueryStates]

(* Revisions: the published proxy is the newest, its cache was opened no   *)
(* later than it, and a revoking controller flushes an older proxy or it.  *)
ProxyInv ==
  /\ snap.revision \in Revisions /\ snap.proxy \in 1..snap.revision /\ snap.cache \in 1..snap.proxy
  /\ \A c \in Controllers : call[c].pc \in {"cancel", "flush"} => call[c].proxy \in 1..snap.proxy
  /\ proxies[snap.proxy].cache = snap.cache
  /\ \A p \in Revisions : /\ proxies[p].cache <= p /\ proxies[p].cache <= snap.cache
                          /\ p > snap.proxy => proxies[p].cache = 0
  /\ \A a \in answers : a.cache <= snap.cache
  /\ \A h \in hints : h.cache <= snap.cache

(* A network was reported, and the epoch it ends is still published.       *)
Moving == \E c \in Controllers : call[c].pc = "netswap"

Running(x) == x.pc \notin {"idle", "given"}
Current(x) == Running(x) /\ x.token = snap.epoch /\ ~Moving
Same(x) == proxies[x.proxy].net = x.net
Stale(x) == (x.pc = "await" /\ x.sent # network) \/ (x.pc = "store" /\ x.answer # network)
Opened(x) == proxies[x.proxy].cache = x.proxy

QueryOk(x) ==
  Running(x) => /\ x.proxy \in 1..snap.proxy /\ x.token \in 1..(nextEpoch - 1)
                /\ x.token = snap.epoch => ~snap.kill
                /\ x.pc # "epoch" => x.net <= proxies[x.proxy].net

(* An exchange that a network change overtook unseen belongs to a proxy    *)
(* that had been replaced before the change, so every query of the present *)
(* epoch has a newer one.                                                  *)
Overtaken ==
  \A r \in Queries : Stale(query[r]) /\ Same(query[r]) =>
    /\ query[r].proxy < snap.proxy
    /\ \A q \in Queries : Current(query[q]) => query[r].proxy < query[q].proxy

(* What the cache of a query of the present epoch holds.                   *)
CachesFresh ==
  \A q \in Queries : Current(query[q]) /\ Opened(query[q]) =>
    /\ \A a \in answers : a.cache = query[q].proxy => a.network = network
    /\ query[q].pc = "deliver" => query[q].answer = network

DnsInv ==
  /\ StoreInv /\ DnsTypes /\ ProxyInv
  /\ \A q \in Queries : QueryOk(query[q])
  /\ Overtaken /\ CachesFresh /\ OwnCacheOfThisNetwork

-----------------------------------------------------------------------------
(* A query outside any exchange.                                           *)
LEMMA AskingTypes == Asking \in QueryStates /\ Asking.pc = "idle"
BY DEF Asking, QueryStates, NoLane, Nothing

(* The resolver starts with one proxy over its own empty cache.            *)
LEMMA DnsInvInit == DnsInit => DnsInv
<1> SUFFICES ASSUME DnsInit PROVE DnsInv
  OBVIOUS
<1>1. StoreInv
  BY StoreInvInit DEF DnsInit
<1>2. snap.revision = 1 /\ snap.proxy = 1 /\ snap.cache = 1 /\ call = [c \in Controllers |-> Idle]
  BY DEF DnsInit, StoreInit, InitialSnapshot
<1>3. 1 \in Revisions /\ MaxRevision \in Nat
  BY PolicyAssumption DEF PolicyAssumption, Revisions
<1>4. DnsTypes
  <2>1. ASSUME NEW p \in Revisions PROVE [net |-> 0, cache |-> IF p = 1 THEN 1 ELSE 0] \in Proxies
    BY DEF Proxies
  <2> QED
    BY <2>1, AskingTypes DEF DnsInit, DnsTypes, Pools, Nothing
<1>5. ProxyInv
  BY <1>2, <1>3, IdleTypes DEF DnsInit, ProxyInv, Revisions
<1>6. \A q \in Queries : ~Running(query[q]) /\ ~Stale(query[q])
  BY AskingTypes DEF DnsInit, Running, Stale
<1> QED
  BY <1>1, <1>4, <1>5, <1>6 DEF DnsInv, QueryOk, Overtaken, CachesFresh, Current, OwnCacheOfThisNetwork,
                                 CacheOfThisNetwork, DnsInit

(* One query goes on while the store, the network and the proxies stay;    *)
(* what it adds to the cache is of this network wherever that matters.     *)
LEMMA QueryMoves ==
  ASSUME DnsInv, NEW q \in Queries, NEW x \in QueryStates, query' = [query EXCEPT ![q] = x],
         UNCHANGED <<storeVars, network, proxies>>, pool' \in Pools,
         answers' \subseteq Answers, hints' \subseteq Hints,
         QueryOk(x),
         Stale(x) /\ Same(x) => Stale(query[q]) /\ Same(query[q]) /\ x.proxy = query[q].proxy,
         Current(x) => x.proxy = snap.proxy \/ (Current(query[q]) /\ x.proxy = query[q].proxy),
         Current(x) /\ Opened(x) /\ x.pc = "deliver" => x.answer = network,
         \A a \in answers' \ answers :
            /\ a.cache <= snap.cache
            /\ snap.proxy = snap.cache /\ a.cache = snap.cache => a.network = network
            /\ \A r \in Queries : Current(query[r]) /\ Opened(query[r]) /\ a.cache = query[r].proxy =>
                 a.network = network,
         \A h \in hints' \ hints :
            /\ h.cache <= snap.cache
            /\ snap.proxy = snap.cache /\ h.cache = snap.cache => h.network = network
  PROVE  DnsInv'
<1>1. /\ snap' = snap /\ nextEpoch' = nextEpoch /\ call' = call /\ network' = network /\ proxies' = proxies
      /\ (Moving' <=> Moving)
  BY DEF storeVars, Moving
<1>2. StoreInv'
  BY StoreInvNext DEF DnsInv
<1>3. DnsTypes'
  BY <1>1 DEF DnsInv, DnsTypes
<1>4. ProxyInv'
  BY <1>1, Zenon DEF DnsInv, ProxyInv
<1>5. ASSUME NEW r \in Queries PROVE query'[r] = IF r = q THEN x ELSE query[r]
  BY DEF DnsInv, DnsTypes
<1>6. ASSUME NEW r \in Queries PROVE QueryOk(query[r])'
  BY <1>1, <1>5, ZenonT(40) DEF DnsInv, QueryOk, Running
<1>7. Overtaken'
  BY <1>1, <1>5 DEF DnsInv, Overtaken, Stale, Same, Current, Running
<1>8. OwnCacheOfThisNetwork'
  BY <1>1, Zenon DEF DnsInv, OwnCacheOfThisNetwork, CacheOfThisNetwork
<1>9. CachesFresh'
  <2> SUFFICES ASSUME NEW r \in Queries, Current(query[r])', Opened(query[r])'
               PROVE  /\ \A a \in answers' : a.cache = query'[r].proxy => a.network = network
                      /\ query'[r].pc = "deliver" => query'[r].answer = network
    BY <1>1, Zenon DEF CachesFresh
  <2>1. CASE r # q
    BY <1>1, <1>5, <2>1, ZenonT(40) DEF DnsInv, CachesFresh, Current, Running, Opened
  <2>2. CASE r = q
    <3>1. query'[r] = x /\ Current(x) /\ Opened(x)
      BY <1>1, <1>5, <2>2, Zenon DEF Current, Running, Opened
    <3>2. CASE x.proxy = snap.proxy
      <4>1. snap.proxy = snap.cache
        BY <3>1, <3>2, Zenon DEF Opened, DnsInv, ProxyInv
      <4> QED
        BY <1>1, <3>1, <3>2, <4>1, <1>8, Zenon DEF OwnCacheOfThisNetwork, CacheOfThisNetwork
    <3>3. CASE Current(query[q]) /\ x.proxy = query[q].proxy
      BY <3>1, <3>3, Zenon DEF DnsInv, CachesFresh, Opened
    <3> QED BY <3>1, <3>2, <3>3, Zenon
  <2> QED BY <2>1, <2>2
<1> QED
  BY <1>2, <1>3, <1>4, <1>6, <1>7, <1>8, <1>9 DEF DnsInv

-----------------------------------------------------------------------------
(* What a step of a controller that does not flush a resolver does to the  *)
(* proxies: it leaves them or publishes a newer one, over the cache that   *)
(* was published or its own; and a change of network that leaves its first *)
(* step has published a fresh epoch.                                       *)
ProxyStep ==
  /\ \/ snap'.proxy = snap.proxy /\ snap'.cache = snap.cache /\ snap'.revision \in snap.revision..(MaxRevision + 1)
     \/ /\ snap.revision + 1 \in Revisions
        /\ snap'.revision = snap.revision + 1 /\ snap'.proxy = snap.revision + 1
        /\ snap'.cache \in {snap.cache, snap.revision + 1}
  /\ Moving' => Moving
  /\ Moving /\ ~Moving' => snap'.epoch = nextEpoch
  /\ \A c \in Controllers : call'[c].pc \in {"cancel", "flush"} =>
       \/ call[c].pc \in {"cancel", "flush"} /\ call'[c].proxy = call[c].proxy
       \/ call'[c].proxy = snap.proxy

(* One controller moves between the steps that neither flush nor cover a   *)
(* change of network.                                                      *)
LEMMA CallMoves ==
  ASSUME StoreInv, ProxyInv, NEW c \in Controllers, NEW y, call' = [call EXCEPT ![c] = y],
         call[c].pc # "netswap", y.pc # "netswap",
         y.pc \in {"cancel", "flush"} => \/ call[c].pc \in {"cancel", "flush"} /\ y.proxy = call[c].proxy
                                         \/ y.proxy = snap.proxy,
         \/ snap'.proxy = snap.proxy /\ snap'.cache = snap.cache /\ snap'.revision \in snap.revision..(MaxRevision + 1)
         \/ /\ snap.revision + 1 \in Revisions
            /\ snap'.revision = snap.revision + 1 /\ snap'.proxy = snap.revision + 1
            /\ snap'.cache \in {snap.cache, snap.revision + 1}
  PROVE  ProxyStep
<1>1. ASSUME NEW d \in Controllers PROVE call'[d] = IF d = c THEN y ELSE call[d]
  BY DEF StoreInv, StoreTypes
<1>2. Moving' <=> Moving
  BY <1>1, SMTT(40) DEF Moving
<1> QED
  BY <1>1, <1>2 DEF ProxyStep

(* Every such step of the store is one.                                    *)
LEMMA StoreStepProxy ==
  ASSUME StoreInv, ProxyInv, NEW c \in Controllers, ReloadElse(c) \/ Install(c) \/ NetSwap(c) \/ NetCancel(c)
  PROVE  ProxyStep
<1>0. /\ snap \in Snapshots /\ call[c] \in Calls /\ call \in [Controllers -> Calls]
      /\ snap.revision \in Nat /\ snap.proxy \in Nat /\ snap.cache \in Nat /\ snap.kill \in BOOLEAN
      /\ snap.revision \in snap.revision..(MaxRevision + 1) /\ MaxRevision \in Nat
  BY PolicyAssumption DEF StoreInv, StoreTypes, ProxyInv, Revisions, Snapshots, PolicyAssumption
<1> DEFINE Quiet(y) == /\ call' = [call EXCEPT ![c] = y] /\ call[c].pc # "netswap"
                       /\ y.pc \notin {"cancel", "flush", "netswap"} /\ snap' = snap
<1>1. ASSUME NEW y, Quiet(y) PROVE ProxyStep
  BY <1>0, <1>1, CallMoves, Zenon
<1>2. Idle.pc = "idle"
  BY DEF Idle
<1>3. CASE ReloadCall(c)
  <2> DEFINE y == [call[c] EXCEPT !.pc = "reload", !.previous = snap.revision]
  <2>1. Quiet(y)
    BY <1>0, <1>3, Zenon DEF ReloadCall, Calls
  <2> QED BY <1>1, <2>1, Zenon
<1>4. CASE ReloadInvalid(c)
  <2> DEFINE y == [call[c] EXCEPT !.pc = "fail", !.outcome = "invalid"]
  <2>1. Quiet(y)
    BY <1>0, <1>4, Zenon DEF ReloadInvalid, Calls
  <2> QED BY <1>1, <2>1, Zenon
<1>5. CASE ReloadCancel(c)
  <2> DEFINE y == [call[c] EXCEPT !.pc = "flush", !.epoch = 0]
  <2>1. y.pc = "flush" /\ y.proxy = call[c].proxy
    BY <1>0 DEF Calls
  <2>2. call' = [call EXCEPT ![c] = y] /\ call[c].pc = "cancel" /\ snap' = snap
    BY <1>0, <1>5, Zenon DEF ReloadCancel, Calls
  <2> HIDE DEF y
  <2> QED BY <1>0, <2>1, <2>2, CallMoves, Zenon
<1>6. CASE ReloadApply(c)
  <2> DEFINE y == [call[c] EXCEPT !.pc = "publish", !.continuity = FALSE]
  <2>1. Quiet(y)
    BY <1>0, <1>6, Zenon DEF ReloadApply, Calls
  <2> QED BY <1>1, <2>1, Zenon
<1>7. CASE ReloadPublish(c) \/ ReloadFail(c) \/ InstallReport(c) \/ NetCancel(c)
  <2>1. Quiet(Idle)
    BY <1>2, <1>7 DEF ReloadPublish, ReloadFail, InstallReport, NetCancel
  <2> QED BY <1>1, <2>1, Zenon
<1>8. ASSUME NEW r \in Requests, NEW e \in 0..MaxRevision, ReloadConflict(c, r, e) \/ ReloadRefuse(c, r, e)
      PROVE  ProxyStep
  <2> PICK out \in {"conflict", "refused"} :
          call' = [call EXCEPT ![c].pc = "fail", ![c].outcome = out, ![c].kill = r.kill]
    BY <1>8 DEF ReloadConflict, ReloadRefuse
  <2> DEFINE y == [call[c] EXCEPT !.pc = "fail", !.outcome = out, !.kill = r.kill]
  <2>1. Quiet(y)
    BY <1>0, <1>8, Zenon DEF ReloadConflict, ReloadRefuse, Calls
  <2> QED BY <1>1, <2>1, Zenon
<1>9. ASSUME NEW r \in Requests, NEW e \in 0..MaxRevision, ReloadEmergency(c, r, e) PROVE ProxyStep
  <2> DEFINE y == [call[c] EXCEPT !.pc = "cancel", !.outcome = "emergency", !.kill = TRUE,
                                  !.epoch = snap.epoch, !.proxy = snap.proxy]
  <2>1. y.pc = "cancel" /\ y.proxy = snap.proxy
    BY <1>0 DEF Calls
  <2>2. call' = [call EXCEPT ![c] = y] /\ call[c].pc = "reload"
    BY <1>0, <1>9, Zenon DEF ReloadEmergency, Calls
  <2>3. snap'.proxy = snap.proxy /\ snap'.cache = snap.cache /\ snap'.revision = snap.revision + 1
    BY <1>0, <1>9 DEF ReloadEmergency, Snapshots
  <2>4. snap'.revision \in snap.revision..(MaxRevision + 1)
    BY <1>0, <1>9, <2>3 DEF ReloadEmergency
  <2> HIDE DEF y
  <2> QED BY <2>1, <2>2, <2>3, <2>4, CallMoves, Zenon
<1>10. ASSUME NEW r \in Requests, NEW e \in 0..MaxRevision, ReloadSwap(c, r, e) PROVE ProxyStep
  <2> DEFINE revoke == r.kill \/ snap.kill
             y == [call[c] EXCEPT !.pc = IF revoke THEN "cancel" ELSE "apply",
                              !.outcome = "applied", !.kill = r.kill,
                              !.continuity = r.continuity,
                              !.revision = snap.revision + 1,
                              !.epoch = IF revoke THEN snap.epoch ELSE 0,
                              !.proxy = IF revoke THEN snap.proxy ELSE 0]
  <2>2. call' = [call EXCEPT ![c] = y] /\ call[c].pc = "reload"
    BY <1>0, <1>10, ZenonT(40) DEF ReloadSwap, Calls
  <2> HIDE DEF revoke
  <2>1. y.pc \in {"cancel", "apply"} /\ (y.pc = "cancel" => y.proxy = snap.proxy)
    BY <1>0, Zenon DEF Calls
  <2>3. /\ snap'.proxy = snap.revision + 1 /\ snap'.cache = snap.revision + 1
        /\ snap'.revision = snap.revision + 1
    BY <1>10, ZenonT(40) DEF ReloadSwap
  <2>4. snap.revision + 1 \in Revisions
    BY <1>0, <1>10, SMTT(40) DEF ReloadSwap, Revisions
  <2> HIDE DEF y
  <2> QED BY <2>1, <2>2, <2>3, <2>4, CallMoves, Zenon
<1>11. CASE InstallCall(c)
  <2> DEFINE y == [call[c] EXCEPT !.pc = "install", !.previous = snap.revision]
  <2>1. Quiet(y)
    BY <1>0, <1>11, Zenon DEF InstallCall, Calls
  <2> QED BY <1>1, <2>1, Zenon
<1>12. ASSUME NEW b \in Bundles, InstallRefuse(c, b) PROVE ProxyStep
  <2>1. Quiet(Idle)
    BY <1>2, <1>12 DEF InstallRefuse
  <2> QED BY <1>1, <2>1, Zenon
<1>13. ASSUME NEW b \in Bundles, InstallSame(c, b) PROVE ProxyStep
  <2> DEFINE y == [call[c] EXCEPT !.pc = "report", !.revision = snap.revision]
  <2>1. Quiet(y)
    BY <1>0, <1>13, Zenon DEF InstallSame, Calls
  <2> QED BY <1>1, <2>1, Zenon
<1>14. ASSUME NEW b \in Bundles, InstallSwap(c, b) PROVE ProxyStep
  <2> DEFINE y == [call[c] EXCEPT !.pc = "report", !.revision = snap.revision + 1]
  <2>1. y.pc = "report"
    BY <1>0 DEF Calls
  <2>2. call' = [call EXCEPT ![c] = y] /\ call[c].pc = "install"
    BY <1>0, <1>14, Zenon DEF InstallSwap, Calls
  <2>3. /\ snap'.proxy = snap.revision + 1 /\ snap'.cache = snap.cache
        /\ snap'.revision = snap.revision + 1
    BY <1>0, <1>14 DEF InstallSwap, Snapshots
  <2>4. snap.revision + 1 \in Revisions
    BY <1>0, <1>14 DEF InstallSwap, Revisions
  <2> HIDE DEF y
  <2> QED BY <2>1, <2>2, <2>3, <2>4, CallMoves, Zenon
<1>15. CASE NetSwap(c)
  <2>1. /\ snap'.epoch = nextEpoch /\ snap'.proxy = snap.proxy /\ snap'.cache = snap.cache
        /\ snap'.revision = snap.revision
    BY <1>0, <1>15 DEF NetSwap, Snapshots
  <2>2. ASSUME NEW d \in Controllers
        PROVE  call'[d] = IF d = c THEN [call[c] EXCEPT !.pc = "netcancel", !.epoch = snap.epoch] ELSE call[d]
    BY <1>0, <1>15 DEF NetSwap
  <2>3. call'[c].pc = "netcancel"
    BY <1>0, <2>2, Zenon DEF Calls
  <2>4. Moving' => Moving
    BY <2>2, <2>3 DEF Moving
  <2> QED
    BY <1>0, <2>1, <2>2, <2>3, <2>4 DEF ProxyStep
<1> QED
  BY <1>3, <1>4, <1>5, <1>6, <1>7, <1>8, <1>9, <1>10, <1>11, <1>12, <1>13, <1>14, <1>15, Zenon DEF ReloadElse, Install

(* A resolver is told that the network changed: the queries of its proxy   *)
(* no longer have its epoch, and its cache is empty.                       *)
LEMMA FlushFacts ==
  ASSUME DnsInv, NEW p \in Revisions, FlushProxy(p)
  PROVE  /\ proxies' \in [Revisions -> Proxies] /\ pool' \in Pools
         /\ answers' \subseteq answers /\ hints' \subseteq hints
         /\ \A a \in answers' : a.cache # proxies[p].cache
         /\ \A h \in hints' : h.cache # proxies[p].cache
         /\ \A r \in Revisions : /\ proxies'[r].cache = proxies[r].cache
                                 /\ proxies'[r].net = IF r = p THEN proxies[r].net + 2 ELSE proxies[r].net
<1>1. proxies \in [Revisions -> Proxies] /\ pool \in Pools
  BY DEF DnsInv, DnsTypes
<1>2. proxies' = [proxies EXCEPT ![p] = [proxies[p] EXCEPT !.net = @ + 2]]
  BY <1>1 DEF FlushProxy
<1>3. [proxies[p] EXCEPT !.net = @ + 2] \in Proxies
  BY <1>1 DEF Proxies
<1>4. pool' \in Pools
  BY <1>1, Zenon DEF FlushProxy, ResetIdle, Pools, Nothing
<1> QED
  BY <1>1, <1>2, <1>3, <1>4 DEF FlushProxy, Proxies

(* The steps of the controllers and of the clock.                          *)
LEMMA PolicyStepKeeps ==
  ASSUME DnsInv, PolicyStep
  PROVE  DnsInv'
<1>0. /\ StoreInv /\ DnsTypes /\ ProxyInv
      /\ snap.proxy \in Revisions /\ snap.proxy \in Nat /\ snap.cache \in Nat /\ snap.epoch \in Nat
      /\ snap.revision \in Nat /\ nextEpoch \in Nat /\ MaxRevision \in Nat
      /\ proxies \in [Revisions -> Proxies] /\ \A p \in Revisions : proxies[p].net \in Nat /\ proxies[p].cache \in Nat
  BY PolicyAssumption, SMTT(40) DEF DnsInv, StoreInv, StoreTypes, Snapshots, ProxyInv, Revisions, PolicyAssumption, DnsTypes, Proxies
<1>1. StoreNext
  BY DEF PolicyStep, StoreNext, Reload, NetworkChange
<1>2. StoreInv' /\ EpochKeepsKill
  BY <1>0, <1>1, StoreInvNext, StoreStepEpoch, Zenon
<1>3. query' = query /\ \A q \in Queries : query[q] \in QueryStates
  BY <1>0, Zenon DEF PolicyStep, dnsVars, DnsTypes
<1>4. ASSUME NEW q \in Queries, Running(query[q])
      PROVE  /\ query[q].proxy \in 1..snap.proxy /\ query[q].proxy \in Revisions
             /\ query[q].token \in 1..(nextEpoch - 1)
             /\ query[q].token = snap.epoch => ~snap.kill
             /\ query[q].pc # "epoch" => query[q].net <= proxies[query[q].proxy].net
             /\ query[q].net \in Nat
  <2>1. QueryOk(query[q]) /\ query[q] \in QueryStates
    BY <1>3, Zenon DEF DnsInv
  <2>2. query[q].net \in Nat
    BY <2>1, SMTT(40) DEF QueryStates
  <2>3. 1..snap.proxy \subseteq Revisions
    BY <1>0, SMTT(40) DEF ProxyInv, Revisions
  <2> QED
    BY <1>4, <2>1, <2>2, <2>3 DEF QueryOk
<1>5. ASSUME NEW c \in Controllers, NetFlush(c), FlushProxy(snap.proxy), network' = network + 1
      PROVE  DnsInv'
  <2>1. snap' = snap /\ nextEpoch' = nextEpoch /\ call' = [call EXCEPT ![c].pc = "netswap"]
    BY <1>5 DEF NetFlush
  <2>2. call'[c].pc = "netswap" /\ \A d \in Controllers \ {c} : call'[d] = call[d]
    BY <1>0, <2>1 DEF StoreInv, StoreTypes, Calls
  <2>3. Moving'
    BY <2>2, Zenon DEF Moving
  <2>4. DnsTypes'
    BY <1>0, <1>3, <1>5, FlushFacts, SMTT(40) DEF DnsTypes
  <2>5. ProxyInv'
    <3>1. \A d \in Controllers : call'[d].pc \in {"cancel", "flush"} => call'[d].proxy \in 1..snap.proxy
      BY <1>0, <2>2, SMTT(40) DEF ProxyInv
    <3> QED
      BY <1>0, <1>5, <2>1, <3>1, FlushFacts, Zenon DEF ProxyInv
  <2>6. ASSUME NEW q \in Queries PROVE QueryOk(query[q])'
    BY <1>0, <1>3, <1>4, <1>5, <2>1, FlushFacts, SMTT(40) DEF QueryOk, Running
  <2>7. Overtaken'
    <3> SUFFICES ASSUME NEW r \in Queries, Stale(query[r])', Same(query[r])'
                 PROVE  query[r].proxy < snap.proxy
      BY <1>3, <2>1, <2>3, Zenon DEF Overtaken, Current
    <3>1. Running(query[r]) /\ query[r].pc # "epoch"
      BY <1>3, ZenonT(40) DEF Stale, Running
    <3>2. query[r].proxy # snap.proxy
      BY <1>0, <1>3, <1>4, <1>5, <3>1, FlushFacts, SMTT(40) DEF Same
    <3> QED
      BY <1>0, <1>4, <3>1, <3>2
  <2>8. CachesFresh' /\ OwnCacheOfThisNetwork'
    BY <1>0, <1>5, <2>1, <2>3, FlushFacts, SMTT(40) DEF CachesFresh, Current, OwnCacheOfThisNetwork, CacheOfThisNetwork, ProxyInv
  <2> QED
    BY <1>2, <2>4, <2>5, <2>6, <2>7, <2>8 DEF DnsInv
<1>6. ASSUME NEW c \in Controllers, ReloadFlush(c), FlushProxy(call[c].proxy), network' = network
      PROVE  DnsInv'
  <2>1. /\ snap' = snap /\ nextEpoch' = nextEpoch
        /\ \A d \in Controllers : (call'[d].pc = "netswap" <=> call[d].pc = "netswap")
                                  /\ (call'[d].pc \in {"cancel", "flush"} => call'[d] = call[d])
    <3>1. snap' = snap /\ nextEpoch' = nextEpoch /\ call[c].pc = "flush"
      BY <1>6 DEF ReloadFlush
    <3>2. call'[c].pc \in {"apply", "fail"} /\ \A d \in Controllers \ {c} : call'[d] = call[d]
      BY <1>0, <1>6 DEF ReloadFlush, StoreInv, StoreTypes, Calls
    <3> QED BY <3>1, <3>2
  <2>2. Moving' <=> Moving
    BY <2>1, Zenon DEF Moving
  <2>3. call[c].proxy \in Revisions
    BY <1>0, <1>6, SMTT(40) DEF ReloadFlush, ProxyInv, Revisions
  <2>4. DnsTypes'
    BY <1>0, <1>3, <1>6, <2>3, FlushFacts, Zenon DEF DnsTypes
  <2>5. ProxyInv'
    BY <1>0, <1>6, <2>1, <2>3, FlushFacts, ZenonT(40) DEF ProxyInv
  <2>6. ASSUME NEW q \in Queries PROVE QueryOk(query[q])'
    BY <1>0, <1>3, <1>4, <1>6, <2>1, <2>3, FlushFacts, SMTT(40) DEF QueryOk, Running
  <2>7. Overtaken'
    <3>1. ASSUME NEW r \in Queries, Stale(query[r])', Same(query[r])' PROVE Stale(query[r]) /\ Same(query[r])
      <4>1. Running(query[r]) /\ query[r].pc # "epoch" /\ Stale(query[r])
        BY <1>3, <1>6, <3>1, Zenon DEF Stale, Running
      <4> QED
        BY <1>0, <1>3, <1>4, <1>6, <2>3, <3>1, <4>1, FlushFacts, SMTT(40) DEF Same
    <3> QED
      BY <1>3, <2>1, <2>2, <3>1, ZenonT(40) DEF DnsInv, Overtaken, Current, Running
  <2>8. CachesFresh'
    <3>1. ASSUME NEW q \in Queries, Current(query[q])', Opened(query[q])' PROVE Current(query[q]) /\ Opened(query[q])
      <4>1. Current(query[q]) /\ Running(query[q])
        BY <1>3, <2>1, <2>2, <3>1, ZenonT(40) DEF Current, Running
      <4> QED
        BY <1>3, <1>4, <1>6, <2>3, <3>1, <4>1, FlushFacts, Zenon DEF Opened
    <3> QED
      BY <1>3, <1>6, <2>3, <3>1, FlushFacts, Zenon DEF DnsInv, CachesFresh
  <2>9. OwnCacheOfThisNetwork'
    BY <1>6, <2>1, <2>3, FlushFacts DEF DnsInv, OwnCacheOfThisNetwork, CacheOfThisNetwork
  <2> QED
    BY <1>2, <2>4, <2>5, <2>6, <2>7, <2>8, <2>9, Zenon DEF DnsInv
<1>7. ASSUME NEW c \in Controllers, ReloadElse(c) \/ Install(c) \/ NetSwap(c) \/ NetCancel(c), Publish,
             UNCHANGED <<network, pool, answers, hints, query>>
      PROVE  DnsInv'
  <2>1. ProxyStep
    BY <1>0, <1>7, StoreStepProxy, Zenon
  <2>2. /\ snap'.proxy \in Revisions /\ snap.proxy <= snap'.proxy /\ snap.cache <= snap'.cache
        /\ snap'.revision \in Revisions /\ snap'.proxy \in 1..snap'.revision /\ snap'.cache \in 1..snap'.proxy
        /\ snap'.proxy = snap.proxy => snap'.cache = snap.cache
    BY <1>0, <2>1, SMTT(40) DEF ProxyStep, ProxyInv, Revisions
  <2>3. /\ proxies' \in [Revisions -> Proxies]
        /\ \A p \in Revisions : proxies'[p].net = proxies[p].net
        /\ \A p \in Revisions : proxies'[p].cache = IF snap'.proxy # snap.proxy /\ p = snap'.proxy THEN snap'.cache
                                                    ELSE proxies[p].cache
    <3>1. CASE snap'.proxy = snap.proxy
      BY <1>0, <1>7, <3>1, Zenon DEF Publish
    <3>2. CASE snap'.proxy # snap.proxy
      <4>1. proxies' = [proxies EXCEPT ![snap'.proxy] = [proxies[snap'.proxy] EXCEPT !.cache = snap'.cache]]
        BY <1>0, <1>7, <2>2, <3>2, Zenon DEF Publish
      <4>2. [proxies[snap'.proxy] EXCEPT !.cache = snap'.cache] \in Proxies
        BY <1>0, <2>2 DEF Proxies
      <4> QED
        BY <1>0, <2>2, <3>2, <4>1, <4>2 DEF Proxies
    <3> QED BY <3>1, <3>2
  <2>4. DnsTypes'
    BY <1>0, <1>3, <1>7, <2>3, ZenonT(40) DEF DnsTypes
  <2>5. ProxyInv'
    <3>1. \A d \in Controllers : call'[d].pc \in {"cancel", "flush"} => call'[d].proxy \in 1..snap'.proxy
      BY <1>0, <2>1, <2>2, SMTT(40) DEF ProxyStep, ProxyInv
    <3>2. \A p \in Revisions : /\ proxies'[p].cache <= p /\ proxies'[p].cache <= snap'.cache
                               /\ p > snap'.proxy => proxies'[p].cache = 0
      <4> TAKE p \in Revisions
      <4>1. p \in Nat /\ snap'.proxy \in Nat /\ snap'.cache \in Nat
        BY <1>0, <2>2, SMTT(40) DEF Revisions
      <4>2. /\ proxies[p].cache <= p /\ proxies[p].cache <= snap.cache
            /\ p > snap.proxy => proxies[p].cache = 0
        BY <1>0, ZenonT(40) DEF ProxyInv
      <4>3. CASE snap'.proxy # snap.proxy /\ p = snap'.proxy
        BY <2>2, <2>3, <4>1, <4>3, SMTT(40)
      <4>4. CASE ~(snap'.proxy # snap.proxy /\ p = snap'.proxy)
        BY <1>0, <2>2, <2>3, <4>1, <4>2, <4>4, SMTT(40)
      <4> QED BY <4>3, <4>4
    <3>3. (\A a \in answers : a.cache <= snap'.cache) /\ (\A h \in hints : h.cache <= snap'.cache)
      BY <1>0, <2>2, SMTT(40) DEF ProxyInv, DnsTypes, Answers, Hints
    <3> QED
      BY <1>0, <1>7, <2>2, <2>3, <3>1, <3>2, <3>3, ZenonT(40) DEF ProxyInv
  <2>6. ASSUME NEW q \in Queries PROVE QueryOk(query[q])'
    <3> SUFFICES ASSUME Running(query[q])
                 PROVE  /\ query[q].proxy \in 1..snap'.proxy /\ query[q].token \in 1..(nextEpoch' - 1)
                        /\ query[q].token = snap'.epoch => ~snap'.kill
                        /\ query[q].pc # "epoch" => query[q].net <= proxies'[query[q].proxy].net
      BY <1>3 DEF QueryOk, Running
    <3>1. /\ nextEpoch' \in Nat /\ snap'.proxy \in Nat
      BY <1>2, <2>2, SMTT(40) DEF StoreInv, StoreTypes, Revisions
    <3>2. query[q].proxy \in 1..snap'.proxy /\ query[q].token \in 1..(nextEpoch' - 1)
      BY <1>0, <1>2, <1>4, <2>2, <3>1, SMTT(40) DEF EpochKeepsKill
    <3>3. query[q].token = snap'.epoch => ~snap'.kill
      BY <1>0, <1>2, <1>4, SMTT(40) DEF EpochKeepsKill
    <3> QED
      BY <1>4, <2>3, <3>2, <3>3, Zenon
  <2>7. ASSUME NEW q \in Queries, Current(query[q])' PROVE Current(query[q])
    BY <1>0, <1>2, <1>3, <1>4, <2>1, <2>7, SMTT(40) DEF Current, Running, EpochKeepsKill, ProxyStep
  <2>8. Overtaken'
    <3>1. ASSUME NEW r \in Queries, Stale(query[r])', Same(query[r])' PROVE Stale(query[r]) /\ Same(query[r])
      <4>1. Running(query[r]) /\ Stale(query[r])
        BY <1>3, <1>7, <3>1, Zenon DEF Stale, Running
      <4> QED
        BY <1>3, <1>4, <2>3, <3>1, <4>1, SMTT(40) DEF Same
    <3> QED
      BY <1>0, <1>3, <2>2, <2>7, <3>1, SMTT(40) DEF DnsInv, Overtaken, QueryStates
  <2>9. CachesFresh'
    <3>1. ASSUME NEW q \in Queries, Current(query[q])', Opened(query[q])' PROVE Current(query[q]) /\ Opened(query[q])
      <4>1. Current(query[q]) /\ Running(query[q])
        BY <2>7, <3>1 DEF Current
      <4>2. query[q].proxy \in 1..snap.proxy /\ query[q].proxy \in Revisions
        BY <1>4, <4>1, ZenonT(40)
      <4>3. proxies'[query[q].proxy].cache = proxies[query[q].proxy].cache
        BY <1>0, <2>1, <2>3, <4>2, SMTT(40) DEF ProxyStep, ProxyInv
      <4> QED
        BY <1>3, <3>1, <4>1, <4>3, ZenonT(40) DEF Opened
    <3> QED
      BY <1>3, <1>7, <3>1, Zenon DEF DnsInv, CachesFresh
  <2>10. OwnCacheOfThisNetwork'
    <3> SUFFICES ASSUME snap'.proxy = snap'.cache PROVE CacheOfThisNetwork'
      BY Zenon DEF OwnCacheOfThisNetwork
    <3>1. CASE snap'.proxy = snap.proxy
      BY <1>7, <2>2, <3>1, ZenonT(40) DEF DnsInv, OwnCacheOfThisNetwork, CacheOfThisNetwork
    <3>2. CASE snap'.proxy # snap.proxy
      <4>1. snap'.cache > snap.cache
        BY <1>0, <2>1, <3>2, SMTT(40) DEF ProxyStep, ProxyInv
      <4> QED
        BY <1>0, <1>7, <4>1, SMTT(40) DEF CacheOfThisNetwork, ProxyInv, DnsTypes, Answers, Hints
    <3> QED BY <3>1, <3>2, Zenon
  <2> QED
    BY <1>2, <2>4, <2>5, <2>6, <2>8, <2>9, <2>10, SMTT(40) DEF DnsInv
<1>8. ASSUME NEW b \in Bundles, Lapse(b), UNCHANGED dnsVars PROVE DnsInv'
  <2>1. snap' = snap /\ nextEpoch' = nextEpoch /\ call' = call /\ UNCHANGED dnsVars
    BY <1>8, Zenon DEF Lapse
  <2>2. DnsTypes' /\ ProxyInv'
    BY <1>0, <2>1, Zenon DEF dnsVars, DnsTypes, ProxyInv
  <2>3. (\A q \in Queries : QueryOk(query[q])') /\ Overtaken' /\ CachesFresh' /\ OwnCacheOfThisNetwork'
    BY <2>1, Zenon DEF DnsInv, dnsVars, QueryOk, Running, Overtaken, Stale, Same, Current, Moving, CachesFresh, Opened,
                OwnCacheOfThisNetwork, CacheOfThisNetwork
  <2> QED
    BY <1>2, <2>2, <2>3 DEF DnsInv
<1> QED
  BY <1>5, <1>6, <1>7, <1>8, ZenonT(40) DEF PolicyStep

-----------------------------------------------------------------------------
(* A query ends, with an answer or without.                                *)
LEMMA QueryEnds ==
  ASSUME DnsInv, NEW q \in Queries, NEW x \in QueryStates, query' = [query EXCEPT ![q] = x], ~Running(x),
         UNCHANGED <<storeVars, network, proxies, answers, hints>>, pool' \in Pools
  PROVE  DnsInv'
<1>1. ~Stale(x) /\ ~Current(x) /\ QueryOk(x)
  BY DEF Running, Stale, Current, QueryOk
<1>2. answers' \subseteq Answers /\ hints' \subseteq Hints
  BY DEF DnsInv, DnsTypes
<1> QED
  BY <1>1, <1>2, QueryMoves, Zenon

(* A query within an exchange goes on: what it sends leaves on the present *)
(* network, and an answer is of the network it was sent on.                *)
LEMMA QueryGoesOn ==
  ASSUME DnsInv, NEW q \in Queries, NEW x \in QueryStates, query' = [query EXCEPT ![q] = x],
         query[q].pc \notin {"idle", "given", "epoch"}, x.pc \notin {"idle", "given", "epoch", "deliver"},
         x.proxy = query[q].proxy, x.token = query[q].token, x.net = query[q].net,
         x.pc = "await" => x.sent = network,
         x.pc = "store" => query[q].pc = "await" /\ x.answer = query[q].sent,
         UNCHANGED <<storeVars, network, proxies, answers, hints>>, pool' \in Pools
  PROVE  DnsInv'
<1>1. QueryOk(x)
  BY Zenon DEF DnsInv, QueryOk, Running
<1>2. Stale(x) /\ Same(x) => Stale(query[q]) /\ Same(query[q])
  BY Zenon DEF Stale, Same
<1>3. Current(x) => Current(query[q])
  BY Zenon DEF Current, Running
<1>4. answers' \subseteq Answers /\ hints' \subseteq Hints
  BY SMTT(40) DEF DnsInv, DnsTypes
<1> QED
  BY <1>1, <1>2, <1>3, <1>4, QueryMoves, Zenon

(* What the invariant says of one query, for the steps below.              *)
LEMMA QueryFacts ==
  ASSUME DnsInv, NEW q \in Queries
  PROVE  /\ query[q] \in QueryStates /\ query \in [Queries -> QueryStates] /\ pool \in Pools /\ network \in Nat
         /\ Running(query[q]) => query[q].proxy \in Revisions /\ query[q].proxy \in 1..snap.proxy
<1>1. 1..snap.proxy \subseteq Revisions
  BY PolicyAssumption, SMTT(40) DEF DnsInv, ProxyInv, Revisions, PolicyAssumption
<1>2. QueryOk(query[q])
  BY Zenon DEF DnsInv
<1> QED
  BY <1>1, <1>2, Zenon DEF DnsInv, DnsTypes, QueryOk

(* The steps of an exchange, from the lanes to the upstream's answer.      *)
LEMMA ExchangeKeeps ==
  ASSUME DnsInv, NEW q \in Queries,
         \/ Miss(q) \/ UdpTake(q) \/ DohTake(q) \/ DohStore(q) \/ QuicEpoch(q) \/ QuicTake(q) \/ QuicCheck(q)
         \/ QuicStore(q) \/ Answer(q) \/ Fail(q)
  PROVE  DnsInv'
<1> DEFINE z == query[q]  p == query[q].proxy
<1>0. z \in QueryStates /\ query \in [Queries -> QueryStates] /\ pool \in Pools /\ network \in Nat
  BY QueryFacts, SMTT(40)
<1>1. z.pc \notin {"idle", "given", "epoch"}
  BY Zenon DEF Miss, UdpTake, TakeSession, DohTake, DohStore, QuicEpoch, QuicTake, QuicCheck, QuicStore, Answer, Fail
<1>2. p \in Revisions /\ \A l \in Lanes : pool[p][l] \in Nat
  BY <1>0, <1>1, QueryFacts, Zenon DEF Running, Pools
<1>3. UNCHANGED <<storeVars, network, proxies, answers, hints>>
  BY ZenonT(40) DEF Miss, UdpTake, TakeSession, DohTake, DohStore, QuicEpoch, QuicTake, QuicCheck, QuicStore, Answer, Fail
<1>4. /\ proxies \in [Revisions -> Proxies] /\ proxies[p].net \in Nat /\ Nothing \in Nat
  BY <1>2 DEF DnsInv, DnsTypes, Proxies, Nothing
<1>5. ASSUME NEW l \in Lanes \cup {NoLane}, NEW n \in Nat PROVE [pool EXCEPT ![p][l] = n] \in Pools
  BY <1>0, <1>2, Zenon DEF Pools
<1> DEFINE GoesOn(x) == /\ x \in QueryStates /\ query' = [query EXCEPT ![q] = x]
                        /\ x.pc \notin {"idle", "given", "epoch", "deliver"}
                        /\ x.proxy = z.proxy /\ x.token = z.token /\ x.net = z.net
                        /\ x.pc = "await" => x.sent = network
                        /\ x.pc = "store" => z.pc = "await" /\ x.answer = z.sent
<1>6. ASSUME NEW x, GoesOn(x), pool' \in Pools PROVE DnsInv'
  BY <1>1, <1>3, <1>6, QueryGoesOn, Zenon
<1>7. CASE Miss(q)
  <2> DEFINE x == [z EXCEPT !.pc = "lane"]
  <2>1. GoesOn(x)
    BY <1>0, <1>7, Zenon DEF Miss, To, QueryStates
  <2>2. pool' \in Pools
    BY <1>0, <1>7 DEF Miss
  <2> QED BY <1>6, <2>1, <2>2, Zenon
<1>8. CASE UdpTake(q)
  <2>1. CASE /\ query' = [query EXCEPT ![q].pc = "await", ![q].session = network, ![q].sent = network]
             /\ pool' = pool
    <3> DEFINE x == [z EXCEPT !.pc = "await", !.session = network, !.sent = network]
    <3>1. GoesOn(x)
      BY <1>0, <2>1, Zenon DEF QueryStates
    <3> QED BY <1>0, <1>6, <2>1, <3>1, Zenon
  <2>2. ASSUME NEW l \in Free(p),
               query' = [query EXCEPT ![q].pc = "await", ![q].lane = l,
                                      ![q].session = Session(pool[p][l]), ![q].sent = network],
               pool' = [pool EXCEPT ![p][l] = Nothing]
        PROVE  DnsInv'
    <3>1. l \in Lanes /\ Session(pool[p][l]) \in Nat
      BY <1>0, <1>2, <2>2 DEF Free, Session
    <3> DEFINE s == Session(pool[p][l])
               x == [z EXCEPT !.pc = "await", !.lane = l, !.session = s, !.sent = network]
    <3>2. query' = [query EXCEPT ![q] = x]
      BY <1>0, <2>2, Zenon
    <3> HIDE DEF s
    <3>3. GoesOn(x)
      BY <1>0, <3>1, <3>2, Zenon DEF QueryStates, s
    <3>4. pool' \in Pools
      BY <1>4, <1>5, <2>2, <3>1, Zenon
    <3> QED BY <1>6, <3>3, <3>4, Zenon
  <2> QED
    BY <1>8, <2>1, <2>2, Zenon DEF UdpTake, TakeSession
<1>9. CASE DohTake(q)
  <2>0. pool' \in Pools
    BY <1>0, <1>9, Zenon DEF DohTake
  <2>1. ASSUME NEW s \in Nat, query' = [query EXCEPT ![q].pc = "await", ![q].session = s, ![q].sent = network]
        PROVE  DnsInv'
    <3> DEFINE x == [z EXCEPT !.pc = "await", !.session = s, !.sent = network]
    <3>1. GoesOn(x)
      BY <1>0, <2>1, Zenon DEF QueryStates
    <3> QED BY <1>6, <2>0, <3>1, Zenon
  <2>2. ASSUME NEW l \in Lanes, query' = [query EXCEPT ![q].pc = "connect", ![q].lane = l, ![q].session = network]
        PROVE  DnsInv'
    <3> DEFINE x == [z EXCEPT !.pc = "connect", !.lane = l, !.session = network]
    <3>1. GoesOn(x)
      BY <1>0, <2>2, Zenon DEF QueryStates
    <3> QED BY <1>6, <2>0, <3>1, Zenon
  <2> QED
    BY <1>0, <1>2, <1>9, <2>1, <2>2, Zenon DEF DohTake, Free
<1>10. CASE DohStore(q) \/ QuicStore(q)
  <2> DEFINE x == [z EXCEPT !.pc = "await", !.lane = NoLane, !.sent = network]
  <2>1. GoesOn(x)
    BY <1>0, <1>10, Zenon DEF DohStore, QuicStore, QueryStates
  <2>2. z.lane \in Lanes \cup {NoLane} /\ z.session \in Nat
    BY <1>0, Zenon DEF QueryStates
  <2>3. pool' \in Pools
    BY <1>5, <1>10, <2>2, Zenon DEF DohStore, QuicStore
  <2> QED BY <1>6, <2>1, <2>3, Zenon
<1>11. CASE QuicEpoch(q)
  <2> DEFINE n == proxies[p].net
             x == [z EXCEPT !.pc = "lock", !.quicNet = n]
  <2>1. query' = [query EXCEPT ![q] = x] /\ pool' = pool /\ n \in Nat
    BY <1>0, <1>4, <1>11, Zenon DEF QuicEpoch, Proxy
  <2> HIDE DEF n
  <2>2. GoesOn(x)
    BY <1>0, <2>1, Zenon DEF QueryStates
  <2> QED BY <1>0, <1>6, <2>1, <2>2, Zenon
<1>12. CASE QuicTake(q)
  <2>0. pool' \in Pools
    BY <1>0, <1>12, Zenon DEF QuicTake
  <2>1. ASSUME NEW s \in Nat,
               query' = [query EXCEPT ![q].pc = "await", ![q].session = s, ![q].sent = network, ![q].quicNet = 0]
        PROVE  DnsInv'
    <3> DEFINE x == [z EXCEPT !.pc = "await", !.session = s, !.sent = network, !.quicNet = 0]
    <3>1. GoesOn(x)
      BY <1>0, <2>1, ZenonT(40) DEF QueryStates
    <3> QED BY <1>6, <2>0, <3>1, Zenon
  <2>2. ASSUME NEW l \in Lanes, query' = [query EXCEPT ![q].pc = "connect", ![q].lane = l, ![q].session = network]
        PROVE  DnsInv'
    <3> DEFINE x == [z EXCEPT !.pc = "connect", !.lane = l, !.session = network]
    <3>1. GoesOn(x)
      BY <1>0, <2>2, Zenon DEF QueryStates
    <3> QED BY <1>6, <2>0, <3>1, Zenon
  <2> QED
    BY <1>0, <1>2, <1>12, <2>1, <2>2, Zenon DEF QuicTake, Free
<1>13. CASE QuicCheck(q)
  <2>0. pool' \in Pools
    BY <1>0, <1>13 DEF QuicCheck
  <2>1. CASE query' = [query EXCEPT ![q].pc = "keep", ![q].quicNet = 0]
    <3> DEFINE x == [z EXCEPT !.pc = "keep", !.quicNet = 0]
    <3>1. GoesOn(x)
      BY <1>0, <2>1, Zenon DEF QueryStates
    <3> QED BY <1>6, <2>0, <3>1, Zenon
  <2>2. CASE query' = [query EXCEPT ![q].pc = "failed", ![q].lane = NoLane, ![q].session = Nothing,
                                   ![q].quicNet = 0]
    <3> DEFINE x == [z EXCEPT !.pc = "failed", !.lane = NoLane, !.session = Nothing, !.quicNet = 0]
    <3>1. GoesOn(x)
      BY <1>0, <1>4, <2>2, Zenon DEF QueryStates
    <3> QED BY <1>6, <2>0, <3>1, Zenon
  <2> QED
    BY <1>13, <2>1, <2>2, Zenon DEF QuicCheck
<1>14. CASE Answer(q)
  <2>1. z.lane \in Lanes \cup {NoLane} /\ z.session \in Nat /\ z.sent \in Nat
    BY <1>0 DEF QueryStates
  <2>2. pool' \in Pools
    BY <1>0, <1>5, <1>14, <2>1, Zenon DEF Answer
  <2>3. CASE Revoked(q)
    <3>1. query' = [query EXCEPT ![q] = Asking]
      BY <1>14, <2>3 DEF Answer
    <3> QED
      BY <1>3, <2>2, <3>1, AskingTypes, QueryEnds, Zenon DEF Running
  <2>4. CASE ~Revoked(q)
    <3> DEFINE x == [z EXCEPT !.pc = "store", !.lane = NoLane, !.session = Nothing,
                              !.sent = Nothing, !.answer = z.sent]
    <3>1. query' = [query EXCEPT ![q] = x] /\ z.pc = "await"
      BY <1>14, <2>4 DEF Answer
    <3>2. GoesOn(x)
      BY <1>0, <1>4, <2>1, <3>1, Zenon DEF QueryStates
    <3> QED BY <1>6, <2>2, <3>2, Zenon
  <2> QED BY <2>3, <2>4, Zenon
<1>15. CASE Fail(q)
  <2> DEFINE x == [z EXCEPT !.pc = "failed", !.lane = NoLane, !.session = Nothing, !.sent = Nothing, !.quicNet = 0]
  <2>1. GoesOn(x)
    BY <1>0, <1>4, <1>15, Zenon DEF Fail, QueryStates
  <2>2. pool' \in Pools
    <3>1. ASSUME NEW S PROVE [pool EXCEPT ![p] = [l \in Lanes |-> IF l \in S THEN Nothing ELSE @[l]]] \in Pools
      BY <1>0, <1>2, <1>4, Zenon DEF Pools
    <3> DEFINE released == Free(p) \cup {z.lane}
    <3>2. \/ pool' = pool
          \/ pool' = [pool EXCEPT ![p] = [l \in Lanes |-> IF l \in released THEN Nothing ELSE @[l]]]
      BY <1>15 DEF Fail
    <3>3. [pool EXCEPT ![p] = [l \in Lanes |-> IF l \in released THEN Nothing ELSE @[l]]] \in Pools
      BY <3>1, Zenon
    <3> HIDE DEF released
    <3> QED
      BY <1>0, <3>2, <3>3, Zenon
  <2> QED BY <1>6, <2>1, <2>2, Zenon
<1> QED
  BY <1>7, <1>8, <1>9, <1>10, <1>11, <1>12, <1>13, <1>14, <1>15, ZenonT(40)

(* A query is asked: its snapshot's proxy and token, without the kill      *)
(* switch; then it reads its proxy's epoch.                                *)
LEMMA AskKeeps ==
  ASSUME DnsInv, NEW q \in Queries, Ask(q) \/ ReadEpoch(q)
  PROVE  DnsInv'
<1> DEFINE z == query[q]
<1>0. /\ z \in QueryStates /\ query \in [Queries -> QueryStates] /\ pool \in Pools
      /\ snap.proxy \in Nat /\ snap.proxy \in 1..snap.proxy /\ snap.epoch \in Nat /\ snap.epoch \in 1..(nextEpoch - 1)
      /\ QueryOk(z)
  <2>1. z \in QueryStates /\ query \in [Queries -> QueryStates] /\ pool \in Pools /\ QueryOk(z)
    BY QueryFacts, Zenon DEF DnsInv
  <2>2. snap.proxy \in Nat /\ snap.epoch \in Nat /\ snap.epoch \in 1..(nextEpoch - 1)
    BY Zenon DEF DnsInv, StoreInv, StoreTypes, EpochInv, Snapshots
  <2>3. snap.proxy \in 1..snap.proxy
    BY <2>2, SMTT(40) DEF DnsInv, ProxyInv
  <2> QED
    BY <2>1, <2>2, <2>3, Zenon
<1>1. /\ UNCHANGED <<storeVars, network, proxies>> /\ answers' = answers /\ hints' = hints
      /\ pool' \in Pools /\ answers' \subseteq Answers /\ hints' \subseteq Hints
  BY <1>0, SMTT(40) DEF Ask, ReadEpoch, DnsInv, DnsTypes
<1>2. CASE Ask(q)
  <2> DEFINE x == [Asking EXCEPT !.pc = "epoch", !.proxy = snap.proxy, !.token = snap.epoch]
  <2>1. x \in QueryStates /\ x.pc = "epoch" /\ x.proxy = snap.proxy /\ x.token = snap.epoch
    BY <1>0, AskingTypes, Zenon DEF QueryStates
  <2>2. query' = [query EXCEPT ![q] = x] /\ ~snap.kill
    BY <1>2 DEF Ask
  <2> HIDE DEF x
  <2>3. QueryOk(x) /\ ~Stale(x)
    BY <1>0, <2>1, <2>2, ZenonT(40) DEF QueryOk, Stale
  <2> QED
    BY <1>1, <2>1, <2>2, <2>3, QueryMoves, Zenon
<1>3. CASE ReadEpoch(q)
  <2>0. z.pc = "epoch" /\ Running(z) /\ z.proxy \in Revisions /\ proxies[z.proxy].net \in Nat
    <3>1. z.pc = "epoch" /\ Running(z)
      BY <1>3 DEF ReadEpoch, Running
    <3> QED
      BY <3>1, QueryFacts DEF DnsInv, DnsTypes, Proxies
  <2> DEFINE n == proxies[z.proxy].net
             x == [z EXCEPT !.pc = "lookup", !.net = n]
  <2>1. query' = [query EXCEPT ![q] = x]
    BY <1>0, <1>3, ZenonT(40) DEF ReadEpoch, Proxy
  <2>2. x \in QueryStates /\ x.pc = "lookup" /\ x.proxy = z.proxy /\ x.token = z.token /\ x.net = n
    <3> HIDE DEF n
    <3> QED
      BY <1>0, <2>0, ZenonT(40) DEF QueryStates, n
  <2> HIDE DEF x
  <2>3. QueryOk(x) /\ ~Stale(x)
    BY <1>0, <2>0, <2>2, SMTT(40) DEF QueryOk, Stale, Running
  <2>4. Current(x) => Current(z)
    BY <2>0, <2>2, Zenon DEF Current
  <2> QED
    BY <1>1, <2>1, <2>2, <2>3, <2>4, QueryMoves, Zenon
<1> QED BY <1>2, <1>3, Zenon

(* An answer found in the cache is delivered and learnt as a route hint.   *)
LEMMA HitKeeps ==
  ASSUME DnsInv, NEW q \in Queries, NEW from \in {"lookup", "failed"}, Hit(q, from)
  PROVE  DnsInv'
<1> DEFINE z == query[q]
<1> PICK a \in Found(q) :
       /\ query' = [query EXCEPT ![q].pc = "deliver", ![q].answer = a.network]
       /\ hints' = hints \cup {[cache |-> a.cache, network |-> a.network]}
  BY Zenon DEF Hit
<1>0. /\ z \in QueryStates /\ query \in [Queries -> QueryStates] /\ pool \in Pools /\ QueryOk(z)
      /\ z.pc = from /\ Running(z) /\ z.pc # "epoch"
  BY QueryFacts DEF DnsInv, Hit, Running
<1>1. /\ UNCHANGED <<storeVars, network, proxies>> /\ answers' = answers /\ pool' = pool
      /\ answers' \subseteq Answers /\ hints \subseteq Hints
  BY DEF Hit, DnsInv, DnsTypes
<1>2. a \in answers /\ a.cache = proxies[z.proxy].cache /\ a \in Answers /\ a.cache \in Nat /\ a.network \in Nat
  BY <1>1 DEF Found, Proxy, Answers
<1> DEFINE x == [z EXCEPT !.pc = "deliver", !.answer = a.network]
<1>3. query' = [query EXCEPT ![q] = x]
  BY <1>0, Zenon
<1>4. /\ x \in QueryStates /\ x.pc = "deliver" /\ x.proxy = z.proxy /\ x.token = z.token /\ x.net = z.net
      /\ x.answer = a.network
  BY <1>0, <1>2, Zenon DEF QueryStates
<1> HIDE DEF x
<1>5. QueryOk(x) /\ ~Stale(x) /\ (Current(x) => Current(z))
  BY <1>0, <1>4 DEF QueryOk, Stale, Running, Current
<1>6. Current(x) /\ Opened(x) => x.answer = network
  BY <1>2, <1>4, <1>5, ZenonT(40) DEF DnsInv, CachesFresh, Opened
<1>7. hints' \subseteq Hints
  BY <1>1, <1>2 DEF Hints
<1>8. /\ a.cache <= snap.cache
      /\ snap.proxy = snap.cache /\ a.cache = snap.cache => a.network = network
  BY <1>2 DEF DnsInv, ProxyInv, OwnCacheOfThisNetwork, CacheOfThisNetwork
<1>9. \A h \in hints' \ hints : h.cache = a.cache /\ h.network = a.network
  OBVIOUS
<1> QED
  BY <1>0, <1>1, <1>3, <1>4, <1>5, <1>6, <1>7, <1>8, <1>9, QueryMoves, ZenonT(40)

(* The upstream's answer is stored, unless the epoch has moved.            *)
LEMMA StoreKeeps ==
  ASSUME DnsInv, NEW q \in Queries, Store(q)
  PROVE  DnsInv'
<1> DEFINE z == query[q]
<1>0. /\ z \in QueryStates /\ query \in [Queries -> QueryStates] /\ pool \in Pools /\ QueryOk(z)
      /\ z.pc = "store" /\ Running(z) /\ z.proxy \in Revisions /\ z.proxy \in 1..snap.proxy
      /\ z.net \in Nat /\ z.answer \in Nat /\ snap.proxy \in Nat /\ snap.cache \in Nat
  <2>1. z.pc = "store" /\ Running(z)
    BY Zenon DEF Store, Running
  <2> QED
    BY <2>1, QueryFacts, Zenon DEF DnsInv, QueryStates, StoreInv, StoreTypes, Snapshots
<1>1. UNCHANGED <<storeVars, network, proxies>>
  BY Zenon DEF Store
<1>2. CASE Changed(q)
  <2>0. pool' = ResetIdle(z.proxy) /\ Done(q) /\ answers' = answers /\ hints' = hints
    BY <1>2, Zenon DEF Store
  <2>1. pool' \in Pools
    BY <1>0, <2>0, SMTT(40) DEF ResetIdle, Pools, Nothing
  <2> QED
    BY <1>1, <2>0, <2>1, AskingTypes, QueryEnds, Zenon DEF Done, Running
<1>3. CASE ~Changed(q)
  <2> DEFINE k == proxies[z.proxy].cache
             a == [cache |-> k, net |-> z.net, network |-> z.answer]
             h == [cache |-> k, network |-> z.answer]
             x == [z EXCEPT !.pc = "deliver"]
  <2>1. /\ answers' = (answers \ Found(q)) \cup {a} /\ hints' = hints \cup {h} /\ pool' = pool
        /\ query' = [query EXCEPT ![q] = x] /\ Same(z)
    BY <1>0, <1>3 DEF Store, To, Changed, Proxy, Same
  <2>2. /\ x \in QueryStates /\ x.pc = "deliver" /\ x.proxy = z.proxy /\ x.token = z.token /\ x.net = z.net
        /\ x.answer = z.answer
    BY <1>0, Zenon DEF QueryStates
  <2>3. k \in Nat /\ k <= z.proxy /\ k <= snap.cache
    BY <1>0, Zenon DEF DnsInv, DnsTypes, Proxies, ProxyInv
  <2>4. /\ a \in Answers /\ h \in Hints /\ a.cache = k /\ h.cache = k /\ a.network = z.answer /\ h.network = z.answer
    <3> HIDE DEF k
    <3> QED
      BY <1>0, <2>3, Zenon DEF Answers, Hints
  <2> HIDE DEF x, a, h, k
  <2>5. QueryOk(x) /\ ~Stale(x) /\ (Current(x) => Current(z))
    BY <1>0, <2>2, Zenon DEF QueryOk, Stale, Running, Current
  <2>6. z.answer # network => /\ z.proxy < snap.proxy
                              /\ \A r \in Queries : Current(query[r]) => z.proxy < query[r].proxy
    BY <1>0, <2>1, Zenon DEF DnsInv, Overtaken, Stale
  <2>7. Current(x) => x.answer = network
    BY <1>0, <2>2, <2>5, <2>6, SMTT(40)
  <2>8. /\ snap.proxy = snap.cache /\ k = snap.cache => z.answer = network
        /\ \A r \in Queries : Current(query[r]) /\ k = query[r].proxy => z.answer = network
    <3>1. snap.proxy = snap.cache /\ k = snap.cache => z.answer = network
      BY <1>0, <2>3, <2>6, SMTT(40)
    <3>2. ASSUME NEW r \in Queries, Current(query[r]), k = query[r].proxy PROVE z.answer = network
      BY <1>0, <2>3, <2>6, <3>2, SMTT(40)
    <3> QED BY <3>1, <3>2, Zenon
  <2>9. answers' \subseteq Answers /\ hints' \subseteq Hints /\ pool' \in Pools
    BY <1>0, <2>1, <2>4, Zenon DEF DnsInv, DnsTypes
  <2>10. (\A b \in answers' \ answers : b = a) /\ (\A g \in hints' \ hints : g = h)
    BY <2>1
  <2> QED
    BY <1>1, <2>1, <2>2, <2>3, <2>4, <2>5, <2>7, <2>8, <2>9, <2>10, QueryMoves, ZenonT(40)
<1> QED BY <1>2, <1>3, Zenon

(* The invariant is inductive.                                             *)
LEMMA DnsInvNext == DnsInv /\ [DnsNext]_vars => DnsInv'
<1> SUFFICES ASSUME DnsInv, [DnsNext]_vars PROVE DnsInv'
  OBVIOUS
<1>1. CASE PolicyStep
  BY <1>1, PolicyStepKeeps, ZenonT(40)
<1>2. ASSUME NEW q \in Queries, QueryStep(q) PROVE DnsInv'
  <2>1. CASE Deliver(q)
    <3> DEFINE x == [Asking EXCEPT !.pc = "given"]
    <3>1. x \in QueryStates /\ ~Running(x)
      BY AskingTypes DEF QueryStates, Running
    <3>2. query' = [query EXCEPT ![q] = x]
      BY <2>1, Zenon DEF Deliver, Give
    <3> HIDE DEF x
    <3> QED
      BY <2>1, <3>1, <3>2, QueryFacts, QueryEnds, Zenon DEF Deliver, Give
  <2>2. CASE RefuseQuery(q) \/ Drop(q)
    BY <2>2, AskingTypes, QueryFacts, QueryEnds DEF RefuseQuery, Drop, Done, Running
  <2> QED
    BY <1>2, <2>1, <2>2, AskKeeps, HitKeeps, StoreKeeps, ExchangeKeeps DEF QueryStep, ExchangeUpstream
<1>3. CASE UNCHANGED vars
  <2>1. snap' = snap /\ nextEpoch' = nextEpoch /\ call' = call /\ UNCHANGED dnsVars /\ UNCHANGED storeVars
    BY <1>3 DEF vars, storeVars
  <2>2. StoreInv'
    BY <2>1, StoreInvNext, ZenonT(40) DEF DnsInv
  <2>3. DnsTypes' /\ ProxyInv'
    BY <2>1, ZenonT(40) DEF DnsInv, dnsVars, DnsTypes, ProxyInv
  <2>4. (\A q \in Queries : QueryOk(query[q])') /\ Overtaken' /\ CachesFresh' /\ OwnCacheOfThisNetwork'
    BY <2>1 DEF DnsInv, dnsVars, QueryOk, Running, Overtaken, Stale, Same, Current, Moving, CachesFresh, Opened,
                OwnCacheOfThisNetwork, CacheOfThisNetwork
  <2> QED
    BY <2>2, <2>3, <2>4, Zenon DEF DnsInv
<1> QED
  BY <1>1, <1>2, <1>3 DEF DnsNext

(* While the proxy that opened the cache is the published one, nothing in  *)
(* it was resolved on an earlier network, for any number of queries,       *)
(* reloads and network changes: the epoch check of cache_response and the  *)
(* new cache of every reload keep late answers out.                        *)
THEOREM OwnCacheFresh == DnsSpec => []OwnCacheOfThisNetwork
<1>1. DnsInv => OwnCacheOfThisNetwork
  BY Zenon DEF DnsInv
<1> QED
  BY <1>1, DnsInvInit, DnsInvNext, PTL DEF DnsSpec

(* Once no controller is inside a revocation, no application is given an   *)
(* answer under the kill switch, nor one of an earlier network by a proxy  *)
(* that opened its cache, wherever its query was when the controller       *)
(* called: the lease that the delivery checks is of an epoch that was      *)
(* published after the last change.                                        *)
THEOREM AnswersFollow == DnsSpec => AnswersFollowPolicy
<1> DEFINE Given(q) == query[q].pc = "deliver" /\ query'[q].pc = "given" /\ mutex = NoOne =>
                         ~snap.kill /\ (OpenedItsCache(q) => query[q].answer = network)
<1>1. ASSUME DnsInv, [DnsNext]_vars, NEW q \in Queries, query[q].pc = "deliver", query'[q].pc = "given",
             mutex = NoOne
      PROVE  ~snap.kill /\ (OpenedItsCache(q) => query[q].answer = network)
  <2>1. ~Revoked(q)
    <3>1. query' # query
      BY <1>1, ZenonT(40)
    <3>2. query \in [Queries -> QueryStates] /\ ~PolicyStep
      BY <1>1, <3>1, QueryFacts DEF PolicyStep, dnsVars
    <3>3. PICK r \in Queries : QueryStep(r)
      BY <1>1, <3>1, <3>2, ZenonT(40) DEF DnsNext, vars, dnsVars
    <3>4. r = q
      BY <1>1, <3>2, <3>3, Zenon DEF QueryStep, ExchangeUpstream, Ask, ReadEpoch, Hit, Miss, UdpTake, TakeSession, DohTake, DohStore, QuicEpoch,
            QuicTake, QuicCheck, QuicStore, Answer, Fail, Store, Deliver, Give, RefuseQuery, Drop, To, Done
    <3>5. Deliver(q) \/ Drop(q)
      BY <1>1, <3>3, <3>4, Zenon DEF QueryStep, ExchangeUpstream, Ask, ReadEpoch, Hit, Miss, UdpTake, TakeSession, DohTake, DohStore, QuicEpoch,
            QuicTake, QuicCheck, QuicStore, Answer, Fail, Store, RefuseQuery
    <3>6. ~Drop(q)
      BY <1>1, <3>2, AskingTypes, Zenon DEF Drop, Done
    <3> QED
      BY <3>5, <3>6 DEF Deliver
  <2>2. Running(query[q]) /\ QueryOk(query[q])
    BY <1>1, Zenon DEF DnsInv, Running
  <2>3. query[q].token = snap.epoch
    BY <1>1, <2>1, <2>2, Zenon DEF Revoked, QueryOk, DnsInv, StoreInv, StoreConsistent, EveryEpochAccounted
  <2>4. ~Moving
    BY <1>1, IdleTypes, Zenon DEF DnsInv, StoreInv, EpochInv, Moving, Holding
  <2>5. Current(query[q])
    BY <2>2, <2>3, <2>4, Zenon DEF Current
  <2>6. OpenedItsCache(q) => query[q].answer = network
    BY <1>1, <2>5, ZenonT(40) DEF DnsInv, CachesFresh, Opened, OpenedItsCache, Proxy
  <2> QED
    BY <2>2, <2>3, <2>6, Zenon DEF QueryOk
<1>2. DnsInv /\ [DnsNext]_vars => [\A q \in Queries : Given(q)]_vars
  BY <1>1
<1> QED
  BY <1>2, DnsInvInit, DnsInvNext, PTL DEF DnsSpec, AnswersFollowPolicy
=============================================================================
