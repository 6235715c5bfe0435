----------------------------- MODULE DnsNetwork ------------------------------
(***************************************************************************)
(* The DNS interceptor across network changes: DnsProxy in foxcore-tun/src *)
(* /dns/proxy.rs, its pool of upstream lanes (dns/upstream.rs), the query  *)
(* lease (dns/lease.rs) and the answers and route hints of the cache       *)
(* (foxcore-dns/src/lib.rs), under the policy of PolicyStore.  Queries run *)
(* concurrently with each other and with the controllers.                  *)
(*                                                                         *)
(* One question of one identity is modelled: an answer is the network it   *)
(* was resolved on.  A network change is the moment network_changed        *)
(* flushes, the first step of the call that reports it.                    *)
(***************************************************************************)
EXTENDS PolicyStore, FiniteSets

CONSTANTS
  Queries,   \* DNS flows, each asking one query at a time
  Lanes      \* lanes of the upstream pool: one if the upstream multiplexes

VARIABLES
  upstream,  \* the configured one: "udp" (also TCP and DoT), "doh" or "quic"
  network,   \* the network the device is on
  proxies,   \* the DnsProxy of each revision: its network_epoch and its cache
  pool,      \* UpstreamPool of each proxy: the network each pooled session is on
  answers,   \* responses: cache, epoch of the scope, network
  hints,     \* route_hints: cache, network
  query      \* where each query is

dnsVars == <<network, proxies, pool, answers, hints, query>>
vars == <<storeVars, dnsVars, upstream>>

Nothing == 0
NoLane == "none"
Asking == [pc |-> "idle", proxy |-> 0, token |-> 0, net |-> 0, quicNet |-> 0, lane |-> NoLane,
           session |-> Nothing, sent |-> Nothing, answer |-> Nothing]

Proxy(q) == proxies[query[q].proxy]
Revoked(q) == query[q].token \in cancelled

(* The lanes of a proxy some query holds the mutex of.                     *)
Held(p) == {query[q].lane : q \in {r \in Queries : query[r].proxy = p}} \ {NoLane}

Free(p) == Lanes \ Held(p)

(* reset_idle empties the lanes nobody holds.                              *)
ResetIdle(p) == [pool EXCEPT ![p] = [l \in Lanes |-> IF l \in Free(p) THEN Nothing ELSE @[l]]]

To(q, pc) == query' = [query EXCEPT ![q].pc = pc]
Done(q) == query' = [query EXCEPT ![q] = Asking]

DnsInit ==
  /\ StoreInit
  /\ upstream \in {"udp", "doh", "quic"}
  /\ network = 1
  /\ proxies = [p \in Revisions |-> [net |-> 0, cache |-> IF p = 1 THEN 1 ELSE 0]]
  /\ pool = [p \in Revisions |-> [l \in Lanes |-> Nothing]]
  /\ answers = {} /\ hints = {}
  /\ query = [q \in Queries |-> Asking]

-----------------------------------------------------------------------------
(* DnsProxy::network_changed, inside its barrier.                          *)
FlushProxy(p) ==
  /\ proxies' = [proxies EXCEPT ![p].net = @ + 2]
  /\ answers' = {a \in answers : a.cache # proxies[p].cache}
  /\ hints' = {h \in hints : h.cache # proxies[p].cache}
  /\ pool' = ResetIdle(p)

(* A published snapshot with a new proxy: epoch zero, an empty pool and    *)
(* the cache of the snapshot.                                              *)
Publish ==
  proxies' = IF snap'.proxy = snap.proxy THEN proxies
             ELSE [proxies EXCEPT ![snap'.proxy].cache = snap'.cache]

PolicyStep ==
  \/ \E c \in Controllers :
       \/ /\ NetFlush(c) /\ FlushProxy(snap.proxy)
          /\ network' = network + 1
          /\ UNCHANGED query
       \/ /\ ReloadFlush(c) /\ FlushProxy(call[c].proxy)
          /\ UNCHANGED <<network, query>>
       \/ /\ ReloadElse(c) \/ Install(c) \/ NetSwap(c) \/ NetCancel(c)
          /\ Publish
          /\ UNCHANGED <<network, pool, answers, hints, query>>
  \/ (\E b \in Bundles : Lapse(b)) /\ UNCHANGED dnsVars

-----------------------------------------------------------------------------
(* serve_dns_udp and serve_dns_tcp load the snapshot a query is resolved   *)
(* under; the kill switch ends the flow.                                   *)
Ask(q) ==
  /\ query[q].pc \in {"idle", "given"}
  /\ ~snap.kill
  /\ query' = [query EXCEPT ![q] = [Asking EXCEPT !.pc = "epoch", !.proxy = snap.proxy,
                                                  !.token = snap.epoch]]
  /\ UNCHANGED <<storeVars, network, proxies, pool, answers, hints>>

(* current_network_epoch.                                                  *)
ReadEpoch(q) ==
  /\ query[q].pc = "epoch" /\ ~Revoked(q)
  /\ query' = [query EXCEPT ![q].pc = "lookup", ![q].net = Proxy(q).net]
  /\ UNCHANGED <<storeVars, network, proxies, pool, answers, hints>>

Changed(q) == Proxy(q).net # query[q].net

(* cached_response, under the barrier: an answer of this scope, which is   *)
(* also learnt as a route hint, or none.  With `stale' it is the last      *)
(* resort after the upstream failed.                                       *)
Found(q) == {a \in answers : a.cache = Proxy(q).cache /\ a.net = query[q].net}

Hit(q, from) ==
  /\ query[q].pc = from /\ ~Changed(q)
  /\ \E a \in Found(q) :
       /\ query' = [query EXCEPT ![q].pc = "deliver", ![q].answer = a.network]
       /\ hints' = hints \cup {[cache |-> a.cache, network |-> a.network]}
  /\ UNCHANGED <<storeVars, network, proxies, pool, answers>>

Miss(q) ==
  /\ query[q].pc = "lookup" /\ ~Changed(q)
  /\ To(q, "lane")
  /\ UNCHANGED <<storeVars, network, proxies, pool, answers, hints>>

(* exchange_udp and exchange_stream: the session is taken out of the first *)
(* free lane and the lane stays locked; with no free lane, or nothing in   *)
(* it, a session is opened on the present network.                         *)
Session(pooled) == IF pooled = Nothing THEN network ELSE pooled

TakeSession(q) ==
  LET p == query[q].proxy
  IN  /\ query[q].pc = "lane" /\ ~Revoked(q)
      /\ \/ /\ Free(p) = {}
            /\ query' = [query EXCEPT ![q].pc = "await", ![q].session = network, ![q].sent = network]
            /\ pool' = pool
         \/ \E l \in Free(p) :
              /\ query' = [query EXCEPT ![q].pc = "await", ![q].lane = l,
                                        ![q].session = Session(pool[p][l]), ![q].sent = network]
              /\ pool' = [pool EXCEPT ![p][l] = Nothing]
      /\ UNCHANGED <<storeVars, network, proxies, answers, hints>>

UdpTake(q) == upstream = "udp" /\ TakeSession(q)

(* exchange_doh: a pooled sender is cloned; otherwise the lane is held     *)
(* while one is connected and stored.  A busy lane means a connection of   *)
(* its own.                                                                *)
DohTake(q) ==
  LET p == query[q].proxy
  IN  /\ upstream = "doh" /\ query[q].pc = "lane" /\ ~Revoked(q)
      /\ \/ /\ Free(p) = {}
            /\ query' = [query EXCEPT ![q].pc = "await", ![q].session = network, ![q].sent = network]
         \/ \E l \in Free(p) :
              IF pool[p][l] # Nothing
                THEN query' = [query EXCEPT ![q].pc = "await", ![q].session = pool[p][l],
                                            ![q].sent = network]
                ELSE query' = [query EXCEPT ![q].pc = "connect", ![q].lane = l,
                                            ![q].session = network]
      /\ UNCHANGED <<storeVars, network, proxies, pool, answers, hints>>

DohStore(q) ==
  /\ upstream = "doh" /\ query[q].pc = "connect"
  /\ pool' = [pool EXCEPT ![query[q].proxy][query[q].lane] = query[q].session]
  /\ query' = [query EXCEPT ![q].pc = "await", ![q].lane = NoLane, ![q].sent = network]
  /\ UNCHANGED <<storeVars, network, proxies, answers, hints>>

(* exchange_quic reads the epoch, waits for the lane, and stores a new     *)
(* connection only if the epoch has not moved.                             *)
QuicEpoch(q) ==
  /\ upstream = "quic" /\ query[q].pc = "lane" /\ ~Revoked(q)
  /\ query' = [query EXCEPT ![q].pc = "lock", ![q].quicNet = Proxy(q).net]
  /\ UNCHANGED <<storeVars, network, proxies, pool, answers, hints>>

QuicTake(q) ==
  LET p == query[q].proxy
  IN  /\ upstream = "quic" /\ query[q].pc = "lock"
      /\ \E l \in Free(p) :
           query' = IF pool[p][l] # Nothing
                      THEN [query EXCEPT ![q].pc = "await", ![q].session = pool[p][l],
                                         ![q].sent = network, ![q].quicNet = 0]
                      ELSE [query EXCEPT ![q].pc = "connect", ![q].lane = l, ![q].session = network]
      /\ UNCHANGED <<storeVars, network, proxies, pool, answers, hints>>

QuicCheck(q) ==
  /\ upstream = "quic" /\ query[q].pc = "connect"
  /\ IF Proxy(q).net = query[q].quicNet
       THEN query' = [query EXCEPT ![q].pc = "keep", ![q].quicNet = 0]
       ELSE query' = [query EXCEPT ![q].pc = "failed", ![q].lane = NoLane, ![q].session = Nothing,
                                   ![q].quicNet = 0]
  /\ UNCHANGED <<storeVars, network, proxies, pool, answers, hints>>

QuicStore(q) ==
  /\ query[q].pc = "keep"
  /\ pool' = [pool EXCEPT ![query[q].proxy][query[q].lane] = query[q].session]
  /\ query' = [query EXCEPT ![q].pc = "await", ![q].lane = NoLane, ![q].sent = network]
  /\ UNCHANGED <<storeVars, network, proxies, answers, hints>>

(* The upstream answers a query that left on a session of the network it   *)
(* was sent on; a UDP session goes back to its lane.  The lease is checked *)
(* before the answer is used.                                              *)
Answer(q) ==
  /\ query[q].pc = "await"
  /\ query[q].session = query[q].sent
  /\ query' = [query EXCEPT ![q] =
                 IF Revoked(q) THEN Asking
                 ELSE [@ EXCEPT !.pc = "store", !.lane = NoLane, !.session = Nothing,
                                !.sent = Nothing, !.answer = query[q].sent]]
  /\ pool' = IF query[q].lane = NoLane THEN pool
             ELSE [pool EXCEPT ![query[q].proxy][query[q].lane] = query[q].session]
  /\ UNCHANGED <<storeVars, network, proxies, answers, hints>>

(* The exchange fails or times out, or the response is refused: the query  *)
(* releases its lane, and the idle lanes are reset (unless the exchange    *)
(* itself failed on UDP).                                                  *)
Fail(q) ==
  LET p == query[q].proxy
      released == Free(p) \cup {query[q].lane}
  IN  /\ query[q].pc \in {"await", "connect"}
      /\ pool' \in {pool, [pool EXCEPT ![p] = [l \in Lanes |-> IF l \in released THEN Nothing ELSE @[l]]]}
      /\ query' = [query EXCEPT ![q].pc = "failed", ![q].lane = NoLane, ![q].session = Nothing,
                                ![q].sent = Nothing, ![q].quicNet = 0]
      /\ UNCHANGED <<storeVars, network, proxies, answers, hints>>

(* Mutant: the answer is stored under the proxy's present epoch.           *)
StoreUnchecked(q) ==
  /\ query[q].pc = "store"
  /\ answers' = {a \in answers : ~(a.cache = Proxy(q).cache /\ a.net = Proxy(q).net)}
                \cup {[cache |-> Proxy(q).cache, net |-> Proxy(q).net, network |-> query[q].answer]}
  /\ hints' = hints \cup {[cache |-> Proxy(q).cache, network |-> query[q].answer]}
  /\ To(q, "deliver")
  /\ UNCHANGED <<storeVars, network, proxies, pool>>

(* cache_response, under the barrier: stored under the query's epoch and   *)
(* learnt, unless the epoch has moved.                                     *)
Store(q) ==
  /\ query[q].pc = "store"
  /\ IF Changed(q)
       THEN /\ Done(q)
            /\ pool' = ResetIdle(query[q].proxy)
            /\ UNCHANGED <<answers, hints>>
       ELSE /\ answers' = (answers \ Found(q))
                 \cup {[cache |-> Proxy(q).cache, net |-> query[q].net, network |-> query[q].answer]}
            /\ hints' = hints \cup {[cache |-> Proxy(q).cache, network |-> query[q].answer]}
            /\ To(q, "deliver")
            /\ pool' = pool
  /\ UNCHANGED <<storeVars, network, proxies>>

Give(q) ==
  /\ query[q].pc = "deliver"
  /\ query' = [query EXCEPT ![q] = [Asking EXCEPT !.pc = "given"]]
  /\ UNCHANGED <<storeVars, network, proxies, pool, answers, hints>>

(* Mutant: the answer is not checked against the lease once more.          *)
DeliverUnchecked(q) == Give(q)

(* exchange_for_identity_leased checks the lease once more, and the answer *)
(* is written to the application.                                          *)
Deliver(q) == ~Revoked(q) /\ Give(q)

(* exchange_dns_leased: the routes block the question, it may not be       *)
(* attributed, or an overlay gate or the blocklist refuses the name.       *)
RefuseQuery(q) ==
  /\ query[q].pc = "epoch"
  /\ Done(q)
  /\ UNCHANGED <<storeVars, network, proxies, pool, answers, hints>>

(* The query ends without an answer: its lease is cancelled (by the policy,*)
(* by revoke_flows or by shutdown) at an await, a check refuses it, or the *)
(* upstreams and the stale cache are exhausted.  A lane it held is         *)
(* released as it is.                                                      *)
Drop(q) ==
  /\ query[q].pc \notin {"idle", "epoch", "given"}
  /\ Done(q)
  /\ UNCHANGED <<storeVars, network, proxies, pool, answers, hints>>

(* exchange_upstream: how the configured upstream is reached.              *)
ExchangeUpstream(q) == UdpTake(q) \/ DohTake(q) \/ QuicEpoch(q)

QueryStep(q) ==
  \/ Ask(q) \/ ReadEpoch(q) \/ Hit(q, "lookup") \/ Hit(q, "failed") \/ Miss(q)
  \/ ExchangeUpstream(q) \/ DohStore(q)
  \/ QuicTake(q) \/ QuicCheck(q) \/ QuicStore(q)
  \/ Answer(q) \/ Fail(q) \/ Store(q) \/ Deliver(q) \/ RefuseQuery(q) \/ Drop(q)

DnsNext == (PolicyStep \/ \E q \in Queries : QueryStep(q)) /\ UNCHANGED upstream

DnsSpec == DnsInit /\ [][DnsNext]_vars

-----------------------------------------------------------------------------
Networks == 1..(MaxEpoch + 1)

(* Every variable stays in its range, and no two queries hold one lane.    *)
DnsTypeOK ==
  /\ network \in Networks
  /\ \A a \in answers : a.cache \in Revisions /\ a.network \in Networks
  /\ \A h \in hints : h.cache \in Revisions /\ h.network \in Networks
  /\ pool \in [Revisions -> [Lanes -> Networks \cup {Nothing}]]
  /\ \A q, r \in Queries : q # r /\ query[q].lane # NoLane /\ query[q].lane = query[r].lane =>
       query[q].proxy # query[r].proxy

(* network_changed, proxy.rs: "their old-network answers are discarded by  *)
(* the epoch check and cannot refill the cache".  Nothing the current      *)
(* cache serves or routes by was resolved on an earlier network.           *)
CacheOfThisNetwork ==
  /\ \A a \in answers : a.cache = snap.cache => a.network = network
  /\ \A h \in hints : h.cache = snap.cache => h.network = network

(* The same as long as the proxy that opened the cache is the published    *)
(* one: install_dns_rule_set puts a second proxy, with an epoch of its     *)
(* own, over the same cache.                                               *)
OwnCacheOfThisNetwork == snap.proxy = snap.cache => CacheOfThisNetwork

(* The query's proxy opened the cache it looks into; the proxy that a rule *)
(* set's installation publishes shares one, and both count their networks  *)
(* from zero.                                                              *)
OpenedItsCache(q) == Proxy(q).cache = query[q].proxy

(* An application is given an answer only while no revocation that covers  *)
(* its query has finished: once the controller has returned, an answer     *)
(* delivered is not under the kill switch, and comes from the network the  *)
(* device is on if the query's proxy opened its cache, wherever the query  *)
(* was when the controller called.                                         *)
AnswersFollowPolicy ==
  [][\A q \in Queries : query[q].pc = "deliver" /\ query'[q].pc = "given" /\ mutex = NoOne =>
       ~snap.kill /\ (OpenedItsCache(q) => query[q].answer = network)]_vars
=============================================================================
