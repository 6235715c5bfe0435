----------------------------- MODULE MCSessions -----------------------------
(***************************************************************************)
(* Opening and keeping connections, for TLC: the dialer with the bootstrap *)
(* resolver and its QUIC exchanges, or one of the sessions and pools of    *)
(* MuxPools.  `part` says which moves; the others rest.                    *)
(***************************************************************************)
EXTENDS Dialing, MuxPools

VARIABLES part, padding
MCVars == <<part, padding, dialVars, bootVars, wireVars, quicVars, muxVars>>

(* The lists a resolver may answer with: families mixed and repeated.      *)
MCAnswers == {Resolved(<<2, 4, 1, 2>>), Resolved(<<1, 3>>), Resolved(<<2>>), Resolved(<<>>), Unresolved("TimedOut")}
MCScoped == {[takes |-> FALSE, answer |-> Unresolved("none")], [takes |-> TRUE, answer |-> Resolved(<<2, 1, 4>>)]}
MCServers ==
  <<[literal |-> FALSE, address |-> 0, pinned |-> 0], [literal |-> TRUE, address |-> 1, pinned |-> 0], [literal |-> FALSE, address |-> 0, pinned |-> 2]>>
MCHosts == {SocketCallbacks_none, with_resolver(SocketCallbacks_new), with_host_resolver(protect_only)}
MCDials ==
  {NewDial(callbacks, 7, [protects |-> TRUE, binds |-> TRUE], MCServers[1], 13) : callbacks \in {SocketCallbacks_none}}
  \cup {NewDial(callbacks, handle, [protects |-> protects, binds |-> FALSE], server, 4) :
          callbacks \in MCHosts, handle \in {0, 7}, protects \in BOOLEAN, server \in ToSet(MCServers)}
DialRests == dial = [NewDial(SocketCallbacks_none, 0, [protects |-> TRUE, binds |-> TRUE], [literal |-> TRUE, address |-> 1, pinned |-> 0], 4) EXCEPT !.pc = "done"]

(* Two callers share a QUIC upstream, or one asks an upstream over UDP and *)
(* then the QUIC one.                                                      *)
MCBoot ==
  \/ boot = Boot(<<"doq">>, 2, 2) /\ asks = [c \in Askers |-> Ask0]
  \/ boot = Boot(<<"udp", "doq">>, 8, 2) /\ asks = [c \in Askers |-> IF c = 1 THEN Ask0 ELSE Answered(Ask0, "error")]
BootRests == boot = <<>> /\ asks = <<>>
MCReplies ==
  {[error |-> FALSE, found |-> found] : found \in IF Len(boot.kinds) = 1 THEN {<<1>>} ELSE {<<1>>, <<2, 1, 3>>, <<0>>, <<>>}} \cup {NoReply}
MCWire == \E proto \in {"doq", "doh3"} : wire = NewWire(proto) /\ tx = [t \in Transactions |-> NewTx]
WireRests == wire = NewWire("rests") /\ tx = <<>>

QuicRests == QuicStart("rests", FALSE, FALSE)
PoolRests == PoolInit /\ h2 = NewH2
(* Two calls at a pool that has one session, or one call at an empty pool. *)
MCWarm ==
  /\ net = [epoch |-> 0, resolved |-> 0, addresses |-> 0] /\ pool = {1} /\ call = [c \in Callers |-> NewCall] /\ h2 = NewH2
  /\ ses = [s \in SessionIds |->
              IF s = 1 THEN [NewSession EXCEPT !.made = TRUE, !.up = TRUE, !.healthy = TRUE, !.v2 = TRUE, !.idle_since = "old", !.pushed = 1]
              ELSE [NewSession EXCEPT !.made = TRUE, !.epoch = -1]]
MCCold ==
  /\ net = [epoch |-> 0, resolved |-> 0, addresses |-> 0] /\ pool = {} /\ ses = [s \in SessionIds |-> NewSession] /\ h2 = NewH2
  /\ call = [c \in Callers |-> IF c = 1 THEN NewCall ELSE [NewCall EXCEPT !.pc = "gone"]]

MCLine(key, value) == [key |-> key, value |-> value]
MCRanges == {<<1, 3>>, <<2, 2>>, <<3, 4>>, <<5, 6>>}
MCSchemes ==
  {s \in {PaddingScheme_parse(<<MCLine(STOP, stop), MCLine(0, <<first>>), MCLine(index, steps)>>) :
            stop \in {0, 1, 2, 64, 65}, first \in {<<1, 3>>, <<0, 3>>, <<4, 3>>, <<1, MAX_TLS_PLAINTEXT + 1>>, CHECK}, index \in {0, 1},
            steps \in UNION {[1 .. n -> {CHECK, <<2, 2>>, <<3, 4>>, <<5, 6>>}] : n \in 0 .. 3}} : s.ok}
MCPadding == {[scheme |-> s, payload |-> n, index |-> i, low |-> low] : s \in MCSchemes, n \in 0 .. 7, i \in 1 .. 2, low \in BOOLEAN}
PaddingRests == padding = [scheme |-> [ok |-> TRUE, stop |-> 1, packets |-> {}], payload |-> 0, index |-> 1, low |-> TRUE]

MCInit ==
  /\ part \in {"dial", "quic", "anytls", "naive", "padding", "bootstrap", "exchange", "datagrams"}
  /\ IF part = "dial" THEN dial \in MCDials ELSE DialRests
  /\ IF part = "bootstrap" THEN MCBoot ELSE BootRests
  /\ IF part \in {"exchange", "datagrams"} THEN MCWire ELSE WireRests
  /\ IF part = "quic" THEN QuicStart("hysteria2", FALSE, TRUE) \/ QuicStart("tuic", TRUE, FALSE) ELSE QuicRests
  /\ IF part = "anytls" THEN MCWarm \/ MCCold ELSE PoolRests
  /\ IF part = "padding" THEN padding \in MCPadding ELSE PaddingRests

DialNext ==
  \/ \E scoped \in MCScoped, found \in MCAnswers : ResolveCandidates(scoped, found)
  \/ ResolveTimesOut \/ NextLaunch \/ DeadlineFires \/ Tick
  \/ \E a \in 1 .. 4 : Joined(a) \/ \E outcome \in {"ok", "ConnectionRefused", "NotConnected", "PermissionDenied", candidate_timeout} : AttemptEnds(a, outcome)

BootNext ==
  \/ \E handle \in 1 .. 2 : handle # boot.handle /\ set_network_handle(handle)
  \/ network_revision_added \/ BootTick
  \/ \E k \in 1 .. 4 : ClientCloses(k)
  \/ \E c \in Askers :
       \/ AskBegins(c) \/ install(c) \/ exchange(c) \/ SocketOpens(c) \/ Truncated(c) \/ ExchangeTimesOut(c)
       \/ QuicLock(c) \/ QuicBound(c) \/ QuicConnected(c) \/ QuicRefused(c)
       \/ \E reply \in MCReplies : Replied(c, reply) \/ QuicReplied(c, reply)

(* Transactions over an idle socket, or the socket's traffic alone.        *)
WireNext ==
  \/ ConnectionCloses \/ DropConnection \/ closed_task \/ TasksStop \/ poll_writable
  \/ /\ part = "exchange"
     /\ \E t \in Transactions :
          \/ acquire(t) \/ open_bi(t) \/ TxDropped(t)
          \/ \E ok \in BOOLEAN : write_all(t, ok)
          \/ \E reply \in {"whole", "misframed", "over", "lost"} : doq_exchange(t, reply) \/ doh3_exchange(t, reply)
  \/ /\ part = "datagrams"
     /\ \/ try_send \/ poll_recv
        \/ \E ok \in BOOLEAN : send_task(ok)
        \/ \E packet \in {"accepted", "error"} : receive_task(packet)

(* Two calls are followed until they find no session; one is followed to  *)
(* the end.  Only the first call sends data or is abandoned; only its      *)
(* session loses its connection.                                           *)
Followed(c) == ses[2].epoch = -1 => ~ (At(c, "reserve") /\ call[c].candidates = {})
MCAnyTlsNext ==
  \/ \E c \in Callers : OpenStream(c) \/ (Followed(c) /\ CallStep(c)) \/ BridgeStep(c) \/ (c = 1 /\ (Abandon(c) \/ BridgeSends(c)))
  \/ \E locked \in BOOLEAN : network_changed(locked)
  \/ spawn_maintenance
  \/ \E s \in SessionIds :
       \/ IdleAges(s) \/ TaskStep(s) \/ (~ ses[s].v2 /\ ServerSettings(s, 2))
       \/ \E sid \in 1 .. STREAM_IDS - 1 : (\E accepted \in BOOLEAN : SynAck(s, sid, accepted)) \/ PushOverflows(s, sid) \/ Fin(s, sid)
       \/ s = call[1].ses /\ (TakeCommand(s, FALSE) \/ SessionFails(s, "UnexpectedEof"))

MCNaiveNext ==
  \/ \E c \in Callers : NaiveStep(c) \/ \E limit \in 1 .. 2 : Dial(c, limit)
  \/ \E s \in SessionIds : establish_closed(s) \/ \E limit \in 1 .. 2 : establish_limit(s, limit)

MCNext ==
  /\ UNCHANGED <<part, padding>>
  /\ \/ part = "dial" /\ DialNext /\ UNCHANGED <<quicVars, muxVars, bootVars, wireVars>>
     \/ part = "quic" /\ QuicNext /\ UNCHANGED <<dialVars, muxVars, bootVars, wireVars>>
     \/ part = "anytls" /\ MCAnyTlsNext /\ UNCHANGED <<dialVars, quicVars, h2, bootVars, wireVars>>
     \/ part = "naive" /\ MCNaiveNext /\ UNCHANGED <<dialVars, quicVars, anytlsVars, bootVars, wireVars>>
     \/ part = "bootstrap" /\ BootNext /\ UNCHANGED <<dialVars, quicVars, muxVars, wireVars>>
     \/ part \in {"exchange", "datagrams"} /\ WireNext /\ UNCHANGED <<dialVars, quicVars, muxVars, bootVars>>

MCSpec == MCInit /\ [][MCNext]_MCVars /\ QuicFairness /\ WireFairness

(* Every packet of a session whose scheme parsed is carried whole by its   *)
(* chunks, and the padding of its authentication fits the two bytes that   *)
(* announce it.                                                            *)
PaddingKeepsPayload ==
  part = "padding" =>
    LET size == [r \in MCRanges |-> IF padding.low THEN r[1] ELSE r[2]]
    IN  /\ ChunksCarry(packet_chunks(padding.scheme, padding.index, padding.payload, size, 2), padding.payload, 2)
        /\ auth_padding_length(padding.scheme, size) \in 1 .. 65535

(* What opening a connection takes is given back: a dial gives up only     *)
(* after its budget and leaves one connection, a flow that waits for one   *)
(* is woken by the one that comes, a pool's stream slots balance over      *)
(* every open that is cancelled, refused or late, the padding scheme loses *)
(* no byte, the bootstrap resolver answers from the network it was asked   *)
(* on and shares its deadline fairly, and a DNS transaction over QUIC ends *)
(* both halves of its stream.                                              *)
ConnectionsAccounted ==
  /\ GivesUpHonestly /\ OneConnectionSurvives /\ WaitersWoken
  /\ SlotsBalance /\ PaddingKeepsPayload
  /\ part = "bootstrap" => AddressesOfItsNetwork /\ FairShares /\ LocksHeld
  /\ part \in {"exchange", "datagrams"} => TransactionsSettled /\ FailureReported

(* What waits for a connection is answered: a network change by a new QUIC *)
(* session, and a closed DNS connection by the end of its tasks.           *)
WaitsAnswered == []<>(QuicServed /\ WireQuiet)
=============================================================================
