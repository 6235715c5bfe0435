-------------------------- MODULE WireguardTunnel ---------------------------
(***************************************************************************)
(* One WireGuard peer (proto-wireguard/src/tunnel.rs): the methods of      *)
(* PeerTunnel as operators on its state, a record t.  The machine that     *)
(* calls them, the relay of a packet tunnel, follows them.                 *)
(*                                                                         *)
(* Stamps are kept as the time elapsed since them, up to the limit they    *)
(* are compared with, and the retry as the time left; Age lets time pass.  *)
(* A datagram that arrives is the message its decoder makes of it: bytes,  *)
(* headers, junk and keys are not modelled.  Sender indices are random and *)
(* taken to be distinct, so a message names its session or none.  Which    *)
(* counters a session opens is ReplayWindow's.                             *)
(*                                                                         *)
(* t.luck is how many of the call's uses of the entropy source succeed     *)
(* before one fails, t.burn whether the failing seal had already taken its *)
(* counter, t.jitter the draw of a retry; t.err is the ? of a failed step: *)
(* the steps after it do nothing.                                          *)
(***************************************************************************)
EXTENDS Integers, Sequences, FiniteSetsExt

CONSTANTS
  None,                    \* Option::None
  REKEY_TIMEOUT, REKEY_TIMEOUT_JITTER_MAX, REKEY_AFTER_TIME, REJECT_AFTER_TIME,
  KEEPALIVE_TIMEOUT, COOKIE_LIFETIME,
  PERSISTENT_KEEPALIVE,    \* 0: none
  MAX_HANDSHAKE_ATTEMPTS, MAX_PENDING_PACKETS,
  REKEY_AFTER_MESSAGES, REJECT_AFTER_SENT,
  Packets,                 \* payloads the tun hands in
  Luck                     \* bounds: how many draws of a call may succeed

ASSUME TunnelAssumption ==
  /\ {REKEY_TIMEOUT, MAX_HANDSHAKE_ATTEMPTS, MAX_PENDING_PACKETS} \subseteq Nat \ {0}
  /\ {REKEY_TIMEOUT_JITTER_MAX, REKEY_AFTER_TIME, REJECT_AFTER_TIME, KEEPALIVE_TIMEOUT,
      COOKIE_LIFETIME, PERSISTENT_KEEPALIVE, REKEY_AFTER_MESSAGES,
      REJECT_AFTER_SENT} \cup Luck \subseteq Nat

Keepalive == "keepalive"     \* an empty packet
Initiation == "initiation"   \* a datagram without payload, with its I and J packets

Plenty == MAX_PENDING_PACKETS + 4   \* more draws than any call makes
SentLimit == IF PERSISTENT_KEEPALIVE = 0 THEN 1 ELSE PERSISTENT_KEEPALIVE

AtMost(n, limit) == IF n > limit THEN limit ELSE n
Lower(n) == IF n = 0 THEN 0 ELSE n - 1

Sessions == [age : 0..REJECT_AFTER_TIME, counter : 0..REJECT_AFTER_SENT]
InFlight == [retry : 0..(REKEY_TIMEOUT + REKEY_TIMEOUT_JITTER_MAX), answered : BOOLEAN]

(* sent is measured from last_sent_ms.  received is data_received_ms, owed *)
(* whether last_sent_ms is before it.  cookie reaches COOKIE_LIFETIME when *)
(* there is none to use.  attempts stops at its limit, which is all it is  *)
(* compared with.  Nothing is sealed under previous, so it has no counter. *)
Tunnels ==
  [live : Sessions \cup {None}, previous : [age : 0..REJECT_AFTER_TIME] \cup {None},
   handshake : InFlight \cup {None}, cookie : 0..COOKIE_LIFETIME,
   sent : 0..SentLimit, received : (0..KEEPALIVE_TIMEOUT) \cup {None},
   owed : BOOLEAN, attempts : 0..MAX_HANDSHAKE_ATTEMPTS,
   pending : Seq(Packets \cup {Keepalive}),
   transmit : Seq(Packets \cup {Keepalive, Initiation}),
   luck : {0}, burn : {FALSE}, jitter : {0}, err : BOOLEAN]

NewTunnel ==
  [live |-> None, previous |-> None, handshake |-> None, cookie |-> COOKIE_LIFETIME,
   sent |-> 0, received |-> None, owed |-> FALSE, attempts |-> 0,
   pending |-> <<>>, transmit |-> <<>>,
   luck |-> 0, burn |-> FALSE, jitter |-> 0, err |-> FALSE]

(* What the entropy source yields to one call.                             *)
Draws ==
  [luck : {Plenty}, burn : {FALSE}, jitter : 0..REKEY_TIMEOUT_JITTER_MAX]
  \cup [luck : Luck, burn : BOOLEAN, jitter : {0}]

Called(t, draw) ==
  [t EXCEPT !.luck = draw.luck, !.burn = draw.burn, !.jitter = draw.jitter, !.err = FALSE]
Returned(t) == [t EXCEPT !.luck = 0, !.burn = FALSE, !.jitter = 0]

-----------------------------------------------------------------------------
IsExpired(s) == s # None /\ s.age >= REJECT_AFTER_TIME
CanSend(s) == s # None /\ ~IsExpired(s) /\ s.counter < REJECT_AFTER_SENT
NeedsRekey(s) == s.counter >= REKEY_AFTER_MESSAGES
CanSeal(t) == CanSend(t.live)

ExpireSessions(t) ==
  [t EXCEPT !.live = IF IsExpired(@) THEN None ELSE @,
            !.previous = IF IsExpired(@) THEN None ELSE @]

(* One initiation goes out, with the I and J packets ahead of it; the      *)
(* cookie, if it still holds, keys its mac2.                               *)
StartHandshake(t) ==
  IF t.err \/ t.luck = 0
  THEN [t EXCEPT !.err = TRUE]
  ELSE [t EXCEPT !.luck = @ - 1,
                 !.transmit = Append(@, Initiation),
                 !.handshake = [retry |-> REKEY_TIMEOUT + t.jitter, answered |-> FALSE],
                 !.attempts = AtMost(@ + 1, MAX_HANDSHAKE_ATTEMPTS)]

(* flush_pending and its seal_now: packets are sealed in order until the   *)
(* queue is empty, the key is spent, or a draw fails, which loses the      *)
(* packet it was for.                                                      *)
FlushPending(t) ==
  LET room == IF CanSeal(t) THEN REJECT_AFTER_SENT - t.live.counter ELSE 0
      wanted == AtMost(Len(t.pending), room)
      sealed == AtMost(wanted, t.luck)
      fails == sealed < wanted
      taken == IF fails THEN sealed + 1 ELSE sealed
      counted == IF fails /\ t.burn THEN sealed + 1 ELSE sealed
  IN IF t.err \/ wanted = 0 THEN t ELSE
     [t EXCEPT !.transmit = @ \o SubSeq(t.pending, 1, sealed),
               !.pending = SubSeq(@, taken + 1, Len(@)),
               !.live.counter = @ + counted,
               !.luck = @ - sealed,
               !.sent = IF sealed > 0 THEN 0 ELSE @,
               !.owed = IF sealed > 0 THEN FALSE ELSE @,
               !.err = fails]

(* A full queue loses its oldest packet.                                   *)
Held(t, packet) ==
  [t EXCEPT !.pending =
     Append(IF Len(@) = MAX_PENDING_PACKETS THEN Tail(@) ELSE @, packet)]

(* send_packet.  The fast path that seals past an empty queue is the same  *)
(* as queueing the packet and flushing.                                    *)
(* Mutant: the fast path does not look at the queue.                       *)
SendPacketOvertaking(t0, packet) ==
  LET t == ExpireSessions(t0)
  IN IF CanSeal(t)
     THEN [FlushPending([t EXCEPT !.pending = <<packet>>]) EXCEPT !.pending = t.pending]
     ELSE IF t.handshake = None THEN StartHandshake(Held(t, packet)) ELSE Held(t, packet)
SendPacket(t0, packet) ==
  LET t == Held(ExpireSessions(t0), packet)
  IN IF ~CanSeal(t) /\ t.handshake = None THEN StartHandshake(t) ELSE FlushPending(t)

(* announce_endpoint, after a rebind.                                      *)
AnnounceEndpoint(t0) ==
  LET t == ExpireSessions(t0)
  IN IF ~CanSeal(t) THEN StartHandshake(t)
     ELSE FlushPending([t EXCEPT !.pending = Append(@, Keepalive)])

-----------------------------------------------------------------------------
(* receive_datagram, by what the datagram turns out to be.                 *)
Refuse(t0) == [ExpireSessions(t0) EXCEPT !.err = TRUE]

(* accept_response, for the initiation in flight.                          *)
AcceptResponse(t0) ==
  LET t == ExpireSessions(t0)
  IN IF t.handshake = None THEN Refuse(t)
     ELSE FlushPending(
            [t EXCEPT !.handshake = None, !.attempts = 0,
                      !.previous = IF t.live = None THEN None ELSE [age |-> t.live.age],
                      !.live = [age |-> 0, counter |-> 0]])

(* accept_cookie_reply, for the initiation in flight.                      *)
AcceptCookieReply(t0) ==
  LET t == ExpireSessions(t0)
  IN IF t.handshake = None THEN Refuse(t)
     ELSE [t EXCEPT !.cookie = 0, !.handshake.answered = TRUE]

(* accept_transport under one of the sessions; fresh is the replay         *)
(* filter's verdict and data whether an IP packet was inside.              *)
AcceptTransport(t0, onLive, fresh, data) ==
  LET t == ExpireSessions(t0)
      session == IF onLive THEN t.live ELSE t.previous
  IN IF session = None \/ ~fresh THEN Refuse(t)
     ELSE IF data THEN [t EXCEPT !.received = 0, !.owed = t.sent # 0] ELSE t

-----------------------------------------------------------------------------
(* The timers of tick.                                                     *)
RetryHandshakeIfDue(t) ==
  IF t.handshake = None \/ t.handshake.retry > 0 THEN t
  ELSE IF t.attempts >= MAX_HANDSHAKE_ATTEMPTS
       THEN [t EXCEPT !.handshake = None, !.pending = <<>>]
       ELSE StartHandshake(t)

(* Mutant: a spent counter does not ask for a rekey.                       *)
RekeyIfDueByAge(t) ==
  IF t.err \/ t.handshake # None \/ t.live = None THEN t
  ELSE IF t.live.age < REKEY_AFTER_TIME THEN t ELSE StartHandshake(t)
RekeyIfDue(t) ==
  IF t.err \/ t.handshake # None \/ t.live = None THEN t
  ELSE IF t.live.age < REKEY_AFTER_TIME /\ ~NeedsRekey(t.live) THEN t
       ELSE StartHandshake(t)

SendPassiveKeepaliveIfDue(t) ==
  IF t.err \/ t.received = None THEN t
  ELSE IF ~t.owed THEN [t EXCEPT !.received = None]
  ELSE IF t.received < KEEPALIVE_TIMEOUT \/ ~CanSeal(t) THEN t
  ELSE FlushPending([t EXCEPT !.received = None, !.owed = FALSE,
                              !.pending = Append(@, Keepalive)])

SendKeepaliveIfDue(t) ==
  IF t.err \/ PERSISTENT_KEEPALIVE = 0 \/ ~CanSeal(t) \/ t.sent < PERSISTENT_KEEPALIVE
  THEN t
  ELSE FlushPending([t EXCEPT !.pending = Append(@, Keepalive)])

Tick(t) ==
  SendKeepaliveIfDue(SendPassiveKeepaliveIfDue(RekeyIfDue(
    RetryHandshakeIfDue(ExpireSessions(t)))))

(* unanswered_retry_due, and retry_on_new_endpoint, which drops the cookie *)
(* of the endpoint it leaves.                                              *)
UnansweredRetryDue(t) ==
  /\ ~CanSend(t.live)
  /\ t.handshake # None
  /\ ~t.handshake.answered /\ t.handshake.retry = 0
  /\ t.attempts < MAX_HANDSHAKE_ATTEMPTS

RetryOnNewEndpoint(t) ==
  IF ~UnansweredRetryDue(t) THEN [t EXCEPT !.err = TRUE]
  ELSE StartHandshake([ExpireSessions(t) EXCEPT !.cookie = COOKIE_LIFETIME])

(* next_deadline_ms, as the time left until it; the empty set is None.     *)
Until(stamp, limit) == IF stamp >= limit THEN 0 ELSE limit - stamp
Deadlines(t) ==
  (IF t.handshake = None THEN {} ELSE {t.handshake.retry})
  \cup (IF t.live = None THEN {} ELSE
        {Until(t.live.age, REJECT_AFTER_TIME)}
        \cup (IF t.handshake # None THEN {}
              ELSE {IF NeedsRekey(t.live) THEN 0 ELSE Until(t.live.age, REKEY_AFTER_TIME)})
        \cup (IF ~CanSend(t.live) THEN {} ELSE
              (IF PERSISTENT_KEEPALIVE = 0 THEN {} ELSE {Until(t.sent, PERSISTENT_KEEPALIVE)})
              \cup (IF t.received = None \/ ~t.owed THEN {}
                    ELSE {Until(t.received, KEEPALIVE_TIMEOUT)})))
  \cup (IF t.previous = None THEN {} ELSE {Until(t.previous.age, REJECT_AFTER_TIME)})

(* One unit of time passes.                                                *)
OlderSession(s) == IF s = None THEN None ELSE [s EXCEPT !.age = AtMost(@ + 1, REJECT_AFTER_TIME)]
Age(t) ==
  [t EXCEPT !.live = OlderSession(@), !.previous = OlderSession(@),
            !.handshake = IF @ = None THEN None ELSE [@ EXCEPT !.retry = Lower(@)],
            !.cookie = AtMost(@ + 1, COOKIE_LIFETIME),
            !.sent = AtMost(@ + 1, SentLimit),
            !.received = IF @ = None THEN None ELSE AtMost(@ + 1, KEEPALIVE_TIMEOUT)]

-----------------------------------------------------------------------------
(***************************************************************************)
(* The relay of a packet tunnel (foxcore-tun/src/relay): one task that     *)
(* selects between the network signal, packets of the tun, datagrams of    *)
(* the peer socket and a timer, and drives the PeerTunnel with them.       *)
(*                                                                         *)
(* A select arm is one step, except where it awaits a new socket: then it  *)
(* is cut at the awaits of PeerEndpoint (resolve, connect_udp), because    *)
(* the runtime may name another network meanwhile.  The runtime first      *)
(* gives the dialer the new handle, then raises the signal.  Every arm     *)
(* ends at the loop's head, where the timer is set anew.                   *)
(***************************************************************************)

CONSTANTS
  Networks,             \* handles the runtime may name
  TICK, MAX_IDLE_TICK, REBIND_BACKOFF_MIN, REBIND_BACKOFF_MAX,
  PEER_SILENCE, MAX_RECEIVE_ERRORS,
  Spare,                \* whether the peer has a second address to try
  Tagged                \* packets whose order is followed, as a sequence

VARIABLES
  tunnel,     \* the peer's state
  net,        \* the handle the dialer holds
  moved,      \* the runtime has yet to raise the signal for net
  signal,     \* network.changed() is ready
  socket,     \* network the socket is bound to, or None
  resolved,   \* resolved_network
  task,       \* where the relay's task is
  timer,      \* time left of its sleep
  relay,      \* its other locals
  traffic     \* for the properties: tagged packets that came and that left

relayVars == <<tunnel, net, moved, signal, socket, resolved, task, timer, relay, traffic>>

(* arm is why a socket is wanted: the network moved, the timer found none, *)
(* or an unanswered retry tries the next address.  seen is the handle      *)
(* resolve read, bound the network connect_udp bound to.                   *)
Tasks ==
  [at : {"select", "stopped"}, arm : {"none"}, seen : {None}, bound : {None}]
  \cup [at : {"resolve", "connect", "check"}, arm : {"signal", "timer", "retry"},
        seen : Networks \cup {None}, bound : Networks \cup {None}]

TaskAt(at, arm, seen, bound) == [at |-> at, arm |-> arm, seen |-> seen, bound |-> bound]
Selecting == TaskAt("select", "none", None, None)

Locals ==
  [errors : 0..(MAX_RECEIVE_ERRORS - 1), backoff : REBIND_BACKOFF_MIN..REBIND_BACKOFF_MAX,
   heard : 0..PEER_SILENCE, sentSince : BOOLEAN, silence : BOOLEAN, offline : BOOLEAN]

RelayTypeOK ==
  /\ tunnel \in Tunnels /\ Len(tunnel.pending) <= MAX_PENDING_PACKETS
  /\ Len(tunnel.transmit) <= Plenty
  /\ net \in Networks /\ moved \in BOOLEAN /\ signal \in BOOLEAN
  /\ socket \in Networks \cup {None} /\ resolved \in Networks \cup {None}
  /\ task \in Tasks /\ timer \in 0..MAX_IDLE_TICK /\ relay \in Locals
  /\ traffic.came \in 0..Len(Tagged)

-----------------------------------------------------------------------------
(* The head of run's loop: how long to sleep.                              *)
Wake(t, s, r) ==
  Min({MAX_IDLE_TICK} \cup Deadlines(t)
      \cup (IF s = None THEN {r.backoff} ELSE {})
      \cup (IF r.silence \/ r.heard >= PEER_SILENCE THEN {} ELSE {PEER_SILENCE - r.heard}))
Sleep(t, s, r) == IF Wake(t, s, r) < TICK THEN TICK ELSE Wake(t, s, r)

ToSelect(t, s, r) ==
  /\ tunnel' = Returned(t) /\ socket' = s /\ relay' = r
  /\ task' = Selecting /\ timer' = Sleep(t, s, r)

(* flush: every datagram goes to the socket; good are the ones it takes.   *)
(* Nothing stays queued, socket or not.                                    *)
Goods(t, s) == IF s = None THEN {{}} ELSE SUBSET DOMAIN t.transmit
Flushed(t) == [t EXCEPT !.transmit = <<>>]
Left(t, good) ==
  SelectSeq([i \in DOMAIN t.transmit |-> IF i \in good THEN t.transmit[i] ELSE Keepalive],
            LAMBDA p : \E i \in DOMAIN Tagged : Tagged[i] = p)
Gone(t, good, came) == [came |-> came, left |-> traffic.left \o Left(t, good)]

NewLocals ==
  [errors |-> 0, backoff |-> REBIND_BACKOFF_MIN, heard |-> 0, sentSince |-> FALSE,
   silence |-> FALSE, offline |-> FALSE]

(* connect has opened the first socket before run begins.                  *)
RelayInit ==
  /\ tunnel = NewTunnel /\ net \in Networks /\ socket = net /\ resolved = net
  /\ moved = FALSE /\ signal = FALSE /\ task = Selecting /\ relay = NewLocals
  /\ timer = Sleep(tunnel, socket, relay)
  /\ traffic = [came |-> 0, left |-> <<>>]

-----------------------------------------------------------------------------
(* The tun hands a packet in; tagged is whether it is the next one         *)
(* followed.  A packet of the relay's own or one that cannot be translated *)
(* is refused, and without a socket it is dropped.                         *)
Arriving(tagged) == IF tagged THEN Tagged[traffic.came + 1] ELSE "other"

TunPacketRefused ==
  /\ task = Selecting
  /\ ToSelect(tunnel, socket, relay)
  /\ UNCHANGED <<net, moved, signal, resolved, traffic>>

TunPacketOffline ==
  /\ task = Selecting /\ socket = None
  /\ ToSelect(tunnel, socket, [relay EXCEPT !.offline = TRUE])
  /\ UNCHANGED <<net, moved, signal, resolved, traffic>>

(* A packet that cannot be sealed is counted and nothing is flushed.       *)
TunPacket(tagged, draw) ==
  /\ task = Selecting /\ socket # None
  /\ tagged => traffic.came < Len(Tagged)
  /\ LET t == SendPacket(Called(tunnel, draw), Arriving(tagged))
         came == IF tagged THEN traffic.came + 1 ELSE traffic.came
     IN IF t.err
        THEN ToSelect(t, socket, relay) /\ traffic' = [traffic EXCEPT !.came = came]
        ELSE \E good \in Goods(t, socket) :
               /\ ToSelect(Flushed(t), socket, [relay EXCEPT !.sentSince = @ \/ good # {}])
               /\ traffic' = Gone(t, good, came)
  /\ UNCHANGED <<net, moved, signal, resolved>>

(* The socket reports an error; a run of them closes it.                   *)
ReceiveError ==
  /\ task = Selecting /\ socket # None
  /\ IF relay.errors + 1 >= MAX_RECEIVE_ERRORS
     THEN ToSelect(tunnel, None, [relay EXCEPT !.errors = 0, !.offline = TRUE])
     ELSE ToSelect(tunnel, socket, [relay EXCEPT !.errors = @ + 1])
  /\ UNCHANGED <<net, moved, signal, resolved, traffic>>

(* What the peer, or anyone, may send; the peer is external.               *)
Datagrams(t) ==
  {Refuse(t), AcceptResponse(t), AcceptCookieReply(t)}
  \cup {AcceptTransport(t, onLive, fresh, data) :
          onLive \in BOOLEAN, fresh \in BOOLEAN, data \in BOOLEAN}

(* A refused datagram is no sign of life; any other restarts the clock of  *)
(* the peer's silence.                                                     *)
ReceiveDatagram(draw) ==
  /\ task = Selecting /\ socket # None
  /\ \E t \in Datagrams(Called(tunnel, draw)) : \E good \in Goods(t, socket) :
       LET r == [relay EXCEPT !.errors = 0]
       IN /\ ToSelect(Flushed(t), socket,
               IF t.err THEN [r EXCEPT !.sentSince = @ \/ good # {}]
               ELSE [r EXCEPT !.heard = 0, !.silence = FALSE, !.sentSince = good # {}])
          /\ traffic' = Gone(t, good, traffic.came)
  /\ UNCHANGED <<net, moved, signal, resolved>>

-----------------------------------------------------------------------------
(* The network arm: the old socket goes first, then the peer is resolved   *)
(* again (refresh).                                                        *)
NetworkChanged ==
  /\ task = Selecting /\ signal
  /\ signal' = FALSE /\ socket' = None
  /\ relay' = [relay EXCEPT !.backoff = REBIND_BACKOFF_MIN]
  /\ task' = TaskAt("resolve", "signal", net, None) /\ resolved' = None
  /\ UNCHANGED <<tunnel, net, moved, timer, traffic>>

(* PeerEndpoint::open: resolved anew unless it was for this network.       *)
Opening(arm) ==
  IF resolved = net
  THEN task' = TaskAt("connect", arm, None, None) /\ UNCHANGED resolved
  ELSE task' = TaskAt("resolve", arm, net, None) /\ resolved' = None

(* The rest of the timer arm: tick, flush, and the report of a silent      *)
(* peer.                                                                   *)
TimerTail(t0, s, r0) ==
  LET t == Tick([t0 EXCEPT !.err = FALSE]) IN
  \E good \in Goods(t, s) :
    LET r == [r0 EXCEPT !.sentSince = @ \/ good # {}]
    IN /\ ToSelect(Flushed([t EXCEPT !.err = FALSE]), s,
            [r EXCEPT !.silence = @ \/ (r.sentSince /\ r.heard >= PEER_SILENCE)])
       /\ traffic' = Gone(t, good, traffic.came)

(* The timer arm up to its first await.                                    *)
TimerFires(draw) ==
  /\ task = Selecting /\ timer = 0
  /\ IF socket = None
     THEN Opening("timer") /\ UNCHANGED <<tunnel, socket, timer, relay, traffic>>
     ELSE IF UnansweredRetryDue(tunnel) /\ Spare
     THEN Opening("retry") /\ UNCHANGED <<tunnel, socket, timer, relay, traffic>>
     ELSE TimerTail(Called(tunnel, draw), socket, relay) /\ UNCHANGED resolved
  /\ UNCHANGED <<net, moved, signal>>

(* resolve returns: refused if the network moved under it.                 *)
Resolved ==
  /\ task.at = "resolve" /\ task.seen = net
  /\ resolved' = net /\ task' = [task EXCEPT !.at = "connect", !.seen = None]
  /\ UNCHANGED <<tunnel, net, moved, signal, socket, timer, relay, traffic>>

(* connect_udp binds to the network the dialer names at that moment.       *)
Bound ==
  /\ task.at = "connect"
  /\ task' = [task EXCEPT !.at = "check", !.bound = net]
  /\ UNCHANGED <<tunnel, net, moved, signal, socket, resolved, timer, relay, traffic>>

(* The socket is there and the network is still the one it was resolved    *)
(* for: each arm takes it and tells the peer.                              *)
(* Mutant: a signal that came during the rebind counts as handled by it.   *)
OpenedSeen(draw) ==
  /\ task.at = "check" /\ resolved = net
  /\ TimerTail(AnnounceEndpoint(Called(tunnel, draw)), task.bound, relay)
  /\ signal' = FALSE /\ UNCHANGED <<net, moved, resolved>>
Opened(draw) ==
  /\ task.at = "check" /\ resolved = net
  /\ LET announced == AnnounceEndpoint(Called(tunnel, draw))
         retried == RetryOnNewEndpoint(Called(tunnel, draw))
         r == [relay EXCEPT !.offline = FALSE]
     IN \/ /\ task.arm = "signal"
           /\ \E good \in Goods(announced, task.bound) :
                /\ ToSelect(Flushed([announced EXCEPT !.err = FALSE]), task.bound,
                     [r EXCEPT !.errors = 0, !.sentSince = @ \/ good # {}])
                /\ traffic' = Gone(announced, good, traffic.came)
        \/ /\ task.arm = "timer"
           /\ TimerTail(announced, task.bound, [r EXCEPT !.backoff = REBIND_BACKOFF_MIN])
        \/ /\ task.arm = "retry"
           /\ IF retried.err THEN TimerTail(retried, socket, relay)
              ELSE TimerTail(retried, task.bound, [relay EXCEPT !.errors = 0])
  /\ UNCHANGED <<net, moved, signal, resolved>>

(* No socket: a lookup or every connect_udp failed, or the network moved   *)
(* meanwhile.  A check that failed also forgets the addresses.             *)
NotOpened(draw) ==
  /\ task.at \in {"resolve", "connect"} \/ (task.at = "check" /\ resolved # net)
  /\ resolved' = IF task.at = "check" THEN None ELSE resolved
  /\ \/ /\ task.arm = "signal"
        /\ ToSelect(tunnel, None, [relay EXCEPT !.offline = TRUE])
        /\ UNCHANGED traffic
     \/ /\ task.arm = "timer"
        /\ TimerTail(Called(tunnel, draw), None,
             [relay EXCEPT !.backoff = AtMost(@ * 2, REBIND_BACKOFF_MAX)])
     \/ /\ task.arm = "retry"
        /\ TimerTail(Called(tunnel, draw), socket, relay)
  /\ UNCHANGED <<net, moved, signal>>

(* cancel is polled at select and during every rebind.                     *)
Cancelled ==
  /\ task.at # "stopped" /\ task' = TaskAt("stopped", "none", None, None)
  /\ UNCHANGED <<tunnel, net, moved, signal, socket, resolved, timer, relay, traffic>>

-----------------------------------------------------------------------------
(* The runtime: set_network_handle, then network_epoch.                    *)
SetNetworkHandle(n) ==
  /\ ~moved /\ net' = n /\ moved' = TRUE
  /\ UNCHANGED <<tunnel, signal, socket, resolved, task, timer, relay, traffic>>

RaiseSignal ==
  /\ moved /\ moved' = FALSE /\ signal' = TRUE
  /\ UNCHANGED <<tunnel, net, socket, resolved, task, timer, relay, traffic>>

TimePasses ==
  /\ tunnel' = Age(tunnel) /\ timer' = Lower(timer)
  /\ relay' = [relay EXCEPT !.heard = AtMost(@ + 1, PEER_SILENCE)]
  /\ UNCHANGED <<net, moved, signal, socket, resolved, task, traffic>>

RelayStep ==
  \/ TunPacketRefused \/ TunPacketOffline \/ ReceiveError \/ NetworkChanged
  \/ Resolved \/ Bound \/ Cancelled
  \/ \E draw \in Draws :
       \/ \E tagged \in BOOLEAN : TunPacket(tagged, draw)
       \/ ReceiveDatagram(draw) \/ TimerFires(draw) \/ Opened(draw) \/ NotOpened(draw)

RuntimeStep == RaiseSignal \/ \E n \in Networks : SetNetworkHandle(n)

RelayNext == RelayStep \/ RuntimeStep \/ TimePasses

RelaySpec == RelayInit /\ [][RelayNext]_relayVars

-----------------------------------------------------------------------------
(* A socket is bound to the network the dialer names, or the move is on    *)
(* its way to the relay: no tunnel stays on a network that went away, even *)
(* when the handle moves and moves back under one rebind, which the check  *)
(* after connect_udp does not notice.                                      *)
SocketOnNamedNetwork == socket \notin {None, net} => moved \/ signal

(* Packets leave in the order they came and none twice, whatever is held,  *)
(* displaced, lost with a failed seal or thrown away with an abandoned     *)
(* handshake (send_packet's fast path only past an empty queue).           *)
PacketsLeaveInOrder ==
  \E S \in SUBSET DOMAIN Tagged :
    traffic.left = SelectSeq(Tagged, LAMBDA p : \E i \in S : Tagged[i] = p)

(* next_deadline_ms and tick agree: when no deadline has come a tick finds *)
(* nothing to do, and after a tick none is due, unless the tick's own      *)
(* keepalive spent the counter, so the relay neither sleeps through a      *)
(* rekey, a retry or a keepalive nor wakes for nothing.                    *)
TimersAgree ==
  LET ticked == Returned(Tick(Called(tunnel, [luck |-> Plenty, burn |-> FALSE, jitter |-> 0])))
      forgetting(t) == [t EXCEPT !.received = None, !.owed = FALSE, !.err = FALSE]
  IN /\ 0 \notin Deadlines(tunnel) => forgetting(ticked) = forgetting(tunnel)
     /\ 0 \in Deadlines(ticked) => NeedsRekey(ticked.live) /\ ~NeedsRekey(tunnel.live)

(* While there is no socket the rebind is retried (run: packets are        *)
(* dropped and counted while it holds, and every tick retries).            *)
ClosedTunnelRetried ==
  (task = Selecting /\ socket = None) ~> (task # Selecting \/ socket # None)
=============================================================================
