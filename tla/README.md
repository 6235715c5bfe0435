# Verification of the Foxhole core

Foxhole's core is the native half of an Android VPN client: it owns the TUN
descriptor, decides where every flow goes, resolves names, speaks a dozen proxy
and tunnel protocols, and runs the worker thread on which all of it happens.
This directory holds TLA+ models of it, written from the Rust sources under
`src/crates`, with the TLC configurations that check them on small instances and
proofs, checked by TLAPS, of the results that matter most for every size.

* `PROJECT.json` says for each definition which lines it models (`map`), lists
  the runs with what each shows, the hazards of the code with the properties
  that watch them, the theorems, and for each property some changes to the code
  that would break it (`mutants`).
* A definition keeps the name of what it models where TLA+ allows:
  `PaddingScheme_parse` is `PaddingScheme::parse`. A definition named `MC...` is
  a bound of the checked instance, not code.
* Control is kept and data abstracted: every guard, early return, error path
  and order of effects is there; names, keys and payloads are model values or
  small classes, and cryptography is symbolic.

## The system and its modules

    application ── foxcore-android ── foxcore-runtime ── worker thread
       (JNI)         NativeEngine      RuntimeWorker     │
                     Components        ContinuityGate    ├─ foxcore-tun: TcpStack, FlowRelay, FlowAdmission,
                     Shares            NetworkSwitch     │    PolicyStore, DnsNetwork, WireguardTunnel
       configuration                                     ├─ foxcore-dns, foxcore-route: DnsCache, FakeIp,
       EngineConfig, Subscription                        │    RouteDecision, RuleSets
                                                         └─ foxcore-outbound and the protocols: Outbounds,
                                                              Dialing, MuxPools, Dialogues, Framing, ...

**Lifecycle.** `NativeEngine` models the handle tables of foxcore-android:
starts, stops with a reaper behind them, force kills, the DNS state a successor
inherits, and listeners installed while an engine stops. `RuntimeWorker` opens
one worker up to the grain of its atomic operations: `stop`, `abandon`,
`quarantine` and `Drop`, from any number of threads, against the thread itself
and the holder of the DNS continuation. `WorkerPromise` is the abstract
specification of what those calls promise (one owner of the thread at a time,
one report, a continuation that becomes ready only by a clean join), and
`RuntimeWorker` implements it. `EngineConfig` is every validator of a
configuration and the checks a reload repeats; `Subscription` is every importer
of share links, WireGuard files and subscriptions.

**Continuity.** `ContinuityGate` holds lanes when the policy says to ask before
the core repairs itself; `NetworkSwitch` composes it with network callbacks and
confirmations. Here and in `RuntimeWorker` one step is one critical section or
one access outside it.

**Policy.** `PolicyStore` is the atomically published policy with its epochs:
reload, its emergency block, rule-set installation, network change.
`FlowAdmission` composes it with flows, LAN sessions, revocation and the cached
decisions of the packet path. `RouteDecision` is the route table, `RuleSets` the
parsing of names and responses and the signed rule sets.

**DNS.** `DnsNetwork` composes the interceptor, its upstream lanes and its cache
with `PolicyStore`; `DnsCache` and `FakeIp` are the tables over time.

**Outbounds.** `Outbounds` is the selector and the registry of deferred lanes.
`Dialing` is the dialer, the bootstrap resolver and DNS over QUIC; `MuxPools`
the shared connections of Hysteria2, TUIC, AnyTLS and NaiveProxy; `Dialogues`
what each outbound says and must hear before a stream is handed out;
`VisionRelay`, `Framing` and `Datagrams` what then carries the bytes;
`RealityLayer` and `TunnelMessages` the REALITY and WireGuard messages;
`ReplayWindow` and `WireguardTunnel` the WireGuard session, its timers and the
packet tunnel's relay.

**Tunnel.** `TcpStack` is the actor around smoltcp with the streams it hands
out, the device and a datagram session; `FlowRelay` the copy loop of one flow
and the traffic ledger.

**Components.** `Components` is the component manager with the LAN and loopback
proxies, `Shares` the encrypted vault and its server.

smoltcp, rustls, quinn, h2, Arti and the operating system are external: the
modules keep what the code relies on, and mark it.

## The runs

Each run is `tlc -config X.cfg MCX`. A run checks several parts of its subsystem
that do not touch each other: a variable `part` (or `cast`) chosen initially says
which one a behaviour is about, and the rest stays still. Runs take one to four
minutes on two cores.

| run | checks | instance |
|---|---|---|
| `lifecycle` | `NoStopReportWhileWorking`, `KeepsPromise`, `CallsReturn`, `RunningCouldStart`, `ImportsKeepMeaning` | three calling threads, two calls each; documents with every policy reloaded onto them; every link scheme with two options changed; bodies of up to four lines |
| `continuity` | `OpenLanesOnLatestNetwork`, `OnlyItsAnswerReleases`, `HoldsEnd` | a network thread, a reporter, two answering threads, two tokens, three networks |
| `policy` | `StoreConsistent`, `KillSwitchHolds`, `RuleSetsNeverRollBack`, `DecisionsSound`, `FlowsAndNamesEnd` | two controllers, three epochs, one flow and a revoker, or three 5-tuples over a table of two; all tables of a few rules; all packets of four cells |
| `dns` | `OwnCacheOfThisNetwork`, `AnswersFollowPolicy`, `LeasesInverse`, `PromisesKept`, `TablesAtCapacity`, `ServedWithinTtl` | two queries on one lane under a controller; two domains and both record types in pools of three; three keys in a cache of two |
| `outbounds` | `ReservedHasOwner`, `SelectionSticks`, `OkOnSelection`, `LanesSound`, `WindowExact`, `PacketTunnelSound` | three members, two connects and the probe; two entries and two passes; a ring of three two-bit blocks over fifteen counters; three tagged packets, two networks |
| `streams` | `StreamsWhole`, `DatagramsSound`, `MCHeaderReaches` | three bytes each way through every framing; three datagrams over two packet ids, three sessions, fragments repeated and in any order |
| `sessions` | `ConnectionsAccounted`, `SessionsOfThisNetwork`, `WaitsAnswered` | three addresses and more, two callers on two sessions with two stream ids each, two network changes, two transactions |
| `handshakes` | `TrustBeforeUse`, `WireSound`, `TalksEnd` | every profile with every answer the code tells apart; two sender indices; every REALITY script |
| `engine` | `EngineSound`, `HandoversSound`, `EngineLetsGo` | one share of two files in two chunks and two downloaders, crashes anywhere; two engines, two threads; two listeners, one session |
| `tun` | `StackSound`, `TrafficSound`, `MCRelayEnds` | two flows to one destination, one packet and one command per tick, buffers of two, a backlog of up to four bytes under a ceiling of two; a ledger of two flows, one of them tunnelled |
| `dns_refill` | `CacheOfThisNetwork`, violated | the `dns` instance after a rule-set install |
| `streams_uncut` | `UplinkIntact`, violated | the `streams` instance where the sniffer gives up on a split write |

What the properties say, where the name does not:

* `KeepsPromise` is the refinement: `Promise!Spec` with the worker's fields
  mapped to the abstract owner and handover.
* `RunningCouldStart`: whatever was reloaded, the engine runs a document that a
  start would accept, and validation lets nothing through that the builders
  refuse for its shape.
* `ImportsKeepMeaning`: no option of a link is passed over in silence, every
  line of a body is an outbound or an error, a Clash node means what its link
  means, and reading the shape of a link agrees with importing it.
* `StoreConsistent`: the published epoch is live, every other one is cancelled
  or about to be, and the resolver filters by the installed bundles.
  `KillSwitchHolds`: once the controller has left the mutex no flow is open on a
  live token and no cached decision predates the switch.
* `DecisionsSound`: the most specific rule wins (stated without the index),
  names learned from DNS only tighten a route, the aliases that teach hints are
  those the blocklist saw, and rule sets are installed only as published.
* `AnswersFollowPolicy`: an answer delivered after the controller returned is
  neither under the kill switch nor from an earlier network. `PromisesKept`: a
  fake address keeps its name while its lease runs, whichever resolver works on
  it, and a lease is cut short only by a reply of a resolver whose `fake_ttl_s`
  is lower than another's. `ServedWithinTtl`: a TTL handed out ends no later than
  its record's own, and an expired answer goes only to a caller that takes one.
  `TablesAtCapacity`: a lease is refused only at capacity, and a usable hint is
  complete.
* `LanesSound`: one build of an entry at a time, and no traffic on the stand-in
  for a packet tunnel. `PacketTunnelSound`: tick and deadline agree, packets
  leave in order, the socket follows the named network.
* `StreamsWhole`: bytes in order and once over the cuts of the carrier, except
  where a cut inside the header of a Vision frame is misread (see below); a
  stream cut inside a record does not end cleanly where the framing can tell, no
  nonce repeats. `DatagramsSound`: a datagram is delivered whole and unmixed, but
  for one whose packet id has come round to a datagram still under way.
* `ConnectionsAccounted`: the dialer gives up only after trying everything its
  budget allows and leaks no connection, no wake-up is lost, stream slots
  balance, the padding loses no byte, bootstrap answers are of the network
  asked on, and DNS over QUIC ends both halves of its streams.
* `TrustBeforeUse`: a stream is handed over only after every yes, secrets leave
  only inside the configured layers, ShadowTLS and REALITY switch only on their
  proofs, and WireGuard's ends derive the same keys. `WireSound`: what is
  written is read back, and Hysteria2 keeps to the agreed rate.
* `EngineSound`: what a caller was told about a share survives the death of the
  process, unless that cut an import or a removal of the share short (then its
  files may be gone and the vault is refused); a download is authentic, a server
  is told to stop only when the onion service in front of it no longer runs,
  leases follow routes, one worker per process. The disk is taken to keep what
  was renamed: a loss of power is not modelled. `EngineLetsGo`: nothing of a
  withdrawn share goes on, decrypt slots return, and sessions and engines that
  were stopped end.
  `HandoversSound`: no late authentication, and a successor only after a joined
  predecessor.
* `StackSound`: permits and memory balance, FIN after the last byte, no lost
  wake-up. `TrafficSound`: the relay loses and doubles no byte and its backlog
  stays under the ceiling and one buffer; the ledger's total of an application is
  what its flows moved, except in three windows of `close` that the property
  names; and a revoked descriptor is never used.

### Bounds

The configurations name every bound. They are chosen so that the boundary is
crossed: pools with fewer addresses than names, a cache that evicts, rings that
wrap more than once, nonces, identifiers and revisions that run out, budgets
shorter than the number of addresses, more packets than a queue takes. Two of a
kind suffice where the code has no counting beyond one, because the properties
speak of pairs (two controllers, two connects, two retry passes); the proofs
below remove the bound for the protocols where that argument is delicate.
Symmetry is used in `dns` and `outbounds` only, on sets without an order, and in
no run with a liveness property. Deadlock is not checked where the system may
rest (all calls returned, counters at their bound), which is every run: what must not
stop is stated as liveness or as a lost wake-up instead.

### Fairness

Liveness is claimed only from what the code's own scheduling gives:

* a thread inside `stop`, `abandon` or `Drop` keeps running, and its waits have
  ceilings (`CallsReturn`); the worker may be wedged for ever;
* reporters, answering threads and the deadline watch run on, and the watch's
  timer fires (`HoldsEnd`); nobody is assumed to answer a question;
* the attribution and the dial of a flow have deadlines and the executor polls
  a task whose token was cancelled (`FlowsAndNamesEnd`);
* a task that waits on a carrier is polled when there is room
  (`MCHeaderReaches`), the supervisor's turns come and the tasks of a closed
  connection are polled (`WaitsAnswered`);
* a dialogue's timer fires (`TalksEnd`, which leaves out the fresh VLESS
  encryption handshake because nothing times it); a blocking task whose receiver
  is gone, the tasks of a withdrawn share, a session that was cancelled or whose
  handshake ended and the reaper are run (`EngineLetsGo`); the relay is
  polled when woken and its timers fire (`MCRelayEnds`).

All are weak fairness; of a splice and of a session it is fairness of the whole
task. Nothing is assumed of a peer, a server or the
application.

## The proofs

`tlapm M.tla` checks each proof module from nothing; all obligations are
discharged by Z3, Zenon and LS4. The theorems hold for every value of the
constants that satisfies the named `ASSUME`s next to their declarations: that
bounds are natural numbers, that a default is one of the entries, that a
document's fields have their types. The bounds a run puts on counters are
constants too, so a theorem covers every bound.

**RuntimeWorkerProofs** (any threads, any number of calls).
`NoStopReportWhileWorking` is not inductive: that a call may say `Stopped`
depends on who holds the `JoinHandle`. `IInv` says where the handle is
(`Ownership`: with exactly one of the slot, a caller past its take, the
quarantine list, or joined) and what that implies of the worker, the stop lock
and the DNS fence (`Progress`). From it: `OneStopped`, `NoEarlyReport`,
`ReadyAfterJoin`, `NoOrphan`, `RevocationStays`, and `Refinement`, which maps
every step to a step of `WorkerPromise` or to a stutter.

**NetworkSwitchProofs** (any reporters, policies and holds). The gate's `IInv`
relates the lanes held to the open question (`QuestionInv`), the claims to the
token they were made on (`ClaimInv`) and the expiries to the tokens reported
(`ExpiryInv`); that the lanes of the interruptions form a chain is a lemma.
`SwitchInv` adds, per position of the network thread and of each confirmation,
which of the dialer's handle and the remembered one is the last one reported.
From them `AnswerReleases`, `HeldMatches`, `OneClaimHolds`, `ExpiresOnceHolds`,
`Rebound`, `LatestNetwork`, `NetHeldMatches`. `LatestNetwork` excepts what the
code excepts: a callback or a reload that cuts into a confirmation (`clash`).

**PolicyProofs** (any controllers, flows, 5-tuples, documents, bundles).
`StoreInv` adds to `StoreConsistent` that the mutex is held exactly between a
swap and the end of its revocation, and that the only epoch a controller
remembers is one it replaced (`EpochInv`). `StoreConsistentHolds` and
`NoRollBack` follow. `KillSwitch` rests on one fact about steps,
`EpochKeepsKill`: an epoch that stays published keeps its kill switch. Hence
whatever a flow or a packet loaded, if its epoch is still published, the switch
is where it was when it was loaded (`Loaded`), which is what `AdmissionInv`
says of each flow, cached decision and packet in progress.

**DnsNetworkProofs** (any queries, lanes, controllers, revisions).
`OwnCacheOfThisNetwork` and `AnswersFollowPolicy` need to know which queries a
network change has overtaken. A query carries two witnesses of its beginning,
the token of its snapshot and the epoch of its proxy. `DnsInv` says that an
exchange overtaken without either noticing belongs to a proxy that had been
replaced before the change (`Overtaken`), that revisions order proxies and
caches (`ProxyInv`), and that what a query of the present epoch can look up is
of the present network (`CachesFresh`). Both theorems carry the hypothesis that
the proxy opened its cache; without it the first is false, and `dns_refill`
shows it.

**OutboundsProofs** (any members, flows, entries, passes). `SelectorInv`: a
reservation was made one after an even revision, no two have one number, the
newest is of the current selection, and an odd revision belongs to one. From it
`ReservedOnce` (a statement about a cardinality), `PickStays` and
`StreamOnSelection`. `LanesInv` says that passes run only once the registry
does, that the claim of an entry is held by the one pass that builds it, and
that what is up was built; `LanesHold` follows.

**FakeIpProofs** (any names, capacities, pools, TTLs). The invariant is stated
over any pair of maps, because each operation first purges both: the purge keeps
it (`PurgeInverse`) and then one entry is written (`WriteInverse`).
`LeasesInverseHolds`, `PromisesKeptHolds` (for any set of resolvers, each with
its own capacity and TTL), `FakeTypes`. The response cache has
its own invariant, `CacheInv`: every entry expires no later than the shortest
TTL among its records allows, counted from when it was stored. That the code's
minimum over the records exists and bounds each of them is `LeastNumber`, from
the well-foundedness of the naturals. `ServedWithinTtlHolds` follows, for any
number of keys and records and any lapse of time.

**ReplayWindowProofs** (any block width, ring length and limit). `WindowExact`
says nothing of the bits an advance will uncover, so `RingInv` says that the
bits of every block the ring holds are the accepted counters of that block.
`ReplayFilterExact` follows with lemmas on quotients and remainders.

### Only model-checked

* Liveness (`CallsReturn`, `HoldsEnd`, `FlowsAndNamesEnd`, `MCHeaderReaches`,
  `WaitsAnswered`, `TalksEnd`, `EngineLetsGo`, `MCRelayEnds`): the prover has no
  rule for fairness and `ENABLED` here.
* Whatever a fold or a recursive function computes over a sequence
  (`RouteDecision`, `RuleSets`, `Framing`, `Datagrams`, `EngineConfig`,
  `Subscription`, `RealityLayer`, the route hints of `DnsCache`, the padding
  scheme): that needs induction over data, which the installed provers cannot
  instantiate.
* `RefusedOnlyAtCapacity`: that bounded probing finds a free address is a
  counting argument over the pool; the run covers both families from every
  sequence number.
* The machines of `TcpStack`, `MuxPools`, `Dialing`, `Shares`, `Components`,
  `NativeEngine`, `WireguardTunnel` and `FlowRelay` have no proofs yet.

## What is not modelled

The octets of messages, text formats and JSON; the cryptographic primitives,
certificates and fingerprint hashes; counters, snapshots and diagnostics that
only report; port hopping and Hysteria2's congestion window; buffer pools; the
command line and the test kit. `PROJECT.json` lists each with its sources.
Timers count steps, so nothing here speaks of milliseconds. Steps on shared memory
interleave as under sequential consistency; weaker orderings of the atomics are
not explored.

## Where the code does not do what it says

Two runs exhibit such a disagreement. `dns_refill`: `install_dns_rule_set`
(`foxcore-tun/src/flow/policy.rs:333`) puts a second proxy with an epoch of its
own over the same cache, so a query in flight in the replaced proxy stores an
old-network answer after the flush, which `dns/proxy.rs:1034` excludes.
`streams_uncut`: `VisionSession::uplink` (`proto-vless/src/vision.rs:458`) leaves
its loop at the first piece of a split buffer when the sniffer has given up, and
the second piece is gone.

Other statements are kept in the modules as formulas that TLC refutes when they
are added to a configuration:

| formula | add to | statement and what happens |
|---|---|---|
| `RejectedReloadChangesNothing` | Policy | README.md:208 "A rejected reload changes nothing."; one refused for its rule sets that asks for the kill switch still arms it (`flow/policy.rs:217`) |
| `MixedDecisionBlocks` | Policy | 01-protocols.md:295 "an Android shared UID resolving to a mixed decision fails closed to Block"; packages routed apart by rules alone are not (`foxcore-route/src/lib.rs:399`) |
| `DisabledStaysDown` | Outbounds | `registry.rs:281` "network changes cannot rebuild a disabled overlay"; `may_build` consults the gates only for an entry recorded as disabled (`registry.rs:42`) |
| `ClosedTunnelRetried` | Outbounds, `RoamSpec` | `relay/engine.rs:150` "every tick retries"; packets that come more often than the sleep keep the timer from firing (`relay/engine.rs:184`) |
| `ClashNodesImport` | Lifecycle | 06-vpn-client.md:112 lists VMess nodes; one over TCP is written with a path that `import_vmess` refuses (`clash.rs:435`) |
| `NoLineIgnored` | Lifecycle | `foxcore-link/src/lib.rs:2048` "a tunnel that silently ignored one would be a different tunnel"; a known key in the other section, or a repeated one, is accepted without effect |
| `RequestSent` | Streams, `ServerFirstSpec` | `splice.rs:233` "honouring the codec's one-shot prelude deadline"; a read dropped by the select takes the deadline with it (`splice.rs:237`) |
| `CredentialsApart` | Engine, `Names = {1, 2}` | `foxcore-runtime/src/state.rs:239` "neither half may repeat"; two concurrent installs both pass the check (`control.rs:340`) |
| `FailedChangeKeepsRoute` | Engine | `ecosystem.rs:466` "a failure leaves the old route active"; a lease dropped meanwhile fails the call after the new route is written (`foxcore-component/src/lib.rs:543`) |
| `BoundToItsTuple` | Tun | `netstack/stream/mod.rs:40` "the source address of the connection"; a listening socket can be given the SYN of another source to the same destination (`netstack/actor.rs:702`) |
| `TotalsStay` | Tun | `foxcore-trafficmap/src/events.rs:47` "its bytes stay in the per-app and per-lane totals"; a snapshot between the two locks of `close` shows less (`map.rs:660`) |
| `LateOwnerCounted` | Tun | `foxcore-trafficmap/src/map.rs:121` "Nothing is lost by the delay"; an owner that becomes known after `close` has paid is paid nothing (`map.rs:674`) |
| `NoFalseOversize` | Handshakes, `RealitySpec` | `proto-reality/src/lib.rs:60` "the relay frames records itself"; a record cut by the last handshake read is then framed from its middle (`lib.rs:191`) |

Met while modelling, without a formula of their own:

* After a rule-set install both proxies count networks from zero over one cache
  (`dns/proxy.rs:160`), so equal epochs need not be one network.
* `learn_route_hints` passes over a name when the table is full without marking
  the address, so a later name may be the only hint (excluded in
  `HintsComplete`).
* A reply of a resolver with a lower `fake_ttl_s` shortens a lease that another
  reply announced for longer (excepted in `PromisesKept`).
* A read that ends between the command byte and the length of a Vision frame
  with END or DIRECT, or inside the header of the opening frame, is taken for the
  end of the padding, and the rest of the header reaches the application
  (`vision.rs:481`, excepted in `DownlinkIntact`).
* A 16-bit packet id that comes round to a datagram still under way joins
  fragments of both (excepted in `DatagramsWhole`).
* A tunnelled packet that was looked up before `close` read a flow's counters and
  is added after is in its lane's total and in no application's (`map.rs:665`,
  excepted in `LedgerExact`).
* A deferred outbound that is being built while `network_changed` runs is not
  told of the change.
* A stream cut between or inside frames reads as a clean end in VMess,
  NaiveProxy, ShadowTLS, WebSocket and plain TLS (excluded in `EndsHonestly`).
* `poll_flush` of a stack stream can miss a wake-up that `poll_shutdown` cannot;
  a reaped flow reports its end before bytes that were not read yet.
* A named WireGuard profile passes `EngineConfig::validate` and is refused by
  `Outbound::from_config` (`Builds` says so); `import_vless` accepts Vision with
  encryption, which the outbound then refuses; `SelectorConfig::validate` accepts
  a Direct member, against `selector.rs:27`.
* The bootstrap resolver's DoH asks for response id 0, the interceptor's does
  not.
* `confirm_lan_network` does not validate the binding it stores; only a start
  does.
* A ClientHello table without an x25519 share can be installed and can never
  authenticate; the driver reports a handshake that completes in its last
  permitted iteration as over the limit.
