------------------------------- MODULE Dialing -------------------------------
(***************************************************************************)
(* The protected dialer: resolving a server, preparing a socket through    *)
(* the host's callbacks, and the race of one connection attempt per        *)
(* address inside one budget; and the bootstrap resolver that finds a      *)
(* server's address before there is an outbound, with its exchanges over   *)
(* QUIC.  Time is counted in steps of the stagger's fraction; a timer      *)
(* fires when it is due, so time passes only while no timer is due.        *)
(***************************************************************************)
EXTENDS Integers, Sequences, FiniteSets, SequencesExt

CONSTANTS
  CANDIDATE_STAGGER,           \* time between two launches
  MAX_CONCURRENT_CANDIDATES,   \* attempts running at once
  Askers,                      \* callers of the bootstrap resolver
  BootCapacity,                \* resolutions running at once
  MaxMoves,                    \* bound on the network changes of one behaviour
  Transactions,                \* requests on one DNS connection over QUIC
  MAX_CONCURRENT_REQUESTS,     \* of them, in flight at once
  DATAGRAM_QUEUE_CAPACITY      \* of each direction, in datagrams

VARIABLES dial, boot, asks, wire, tx
dialVars == <<dial>>
bootVars == <<boot, asks>>
wireVars == <<wire, tx>>

NoResult == "none"
candidate_timeout == "TimedOut"
Lesser(a, b) == IF a < b THEN a ELSE b
div_ceil(a, b) == (a + b - 1) \div b

-----------------------------------------------------------------------------
(* SocketCallbacks: what the host installed.                               *)
Hosts ==
  [protect : BOOLEAN, bind : BOOLEAN, resolve : {"none", "platform", "host"}]
SocketCallbacks_none == [protect |-> FALSE, bind |-> FALSE, resolve |-> "none"]
SocketCallbacks_new == [SocketCallbacks_none EXCEPT !.protect = TRUE, !.bind = TRUE]
protect_only == [SocketCallbacks_none EXCEPT !.protect = TRUE]
with_resolver(callbacks) == [callbacks EXCEPT !.resolve = "platform"]
with_host_resolver(callbacks) == [callbacks EXCEPT !.resolve = "host"]
resolver_requires_network(callbacks) == callbacks.resolve = "platform"

(* What the host and the network do in one call: whether the descriptor is *)
(* protected and bound, the answer of the resolver, and the answer of the  *)
(* resolver scoped to this network, when one is installed and takes the    *)
(* name.                                                                   *)
IsV6(address) == address % 2 = 1

prepare(callbacks, handle, protects, binds) ==
  CASE callbacks.protect /\ ~ protects -> "PermissionDenied"
    [] callbacks.bind /\ handle = 0 -> "NotConnected"
    [] callbacks.bind /\ ~ binds -> "PermissionDenied"
    [] OTHER -> "ok"

(* An answer is a sequence of addresses, or <<>> with the error beside it. *)
Resolved(addresses) == [error |-> "none", addresses |-> addresses]
Unresolved(error) == [error |-> error, addresses |-> <<>>]

resolve(callbacks, handle, server, scoped, found) ==
  CASE server.literal -> Resolved(<<server.address>>)
    [] ~ server.literal /\ handle = 0 /\ resolver_requires_network(callbacks) -> Unresolved("NotConnected")
    [] ~ server.literal /\ ~ (handle = 0 /\ resolver_requires_network(callbacks)) ->
         CASE scoped.takes -> scoped.answer
           [] ~ scoped.takes /\ found.error # "none" -> found
           [] ~ scoped.takes /\ found.error = "none" /\ found.addresses = <<>> -> Unresolved("NotFound")
           [] OTHER -> found

resolve_server_addresses(callbacks, handle, server, scoped, found) ==
  IF server.pinned # 0 THEN Resolved(<<server.pinned>>) ELSE resolve(callbacks, handle, server, scoped, found)

(* Duplicates go; the families alternate, the first address's family first.*)
Distinct(addresses) ==
  SelectSeq([i \in DOMAIN addresses |-> IF \E j \in 1 .. i - 1 : addresses[j] = addresses[i] THEN 0 ELSE addresses[i]],
            LAMBDA a : a # 0)

interleaved_candidates(addresses) ==
  LET first == SelectSeq(Distinct(addresses), LAMBDA a : IsV6(a) = IsV6(addresses[1]))
      second == SelectSeq(Distinct(addresses), LAMBDA a : IsV6(a) # IsV6(addresses[1]))
  IN  FlattenSeq([i \in 1 .. Len(addresses) |-> SubSeq(first, i, Lesser(i, Len(first))) \o SubSeq(second, i, Lesser(i, Len(second)))])

-----------------------------------------------------------------------------
(* connect_server_candidates_with_budget.  running holds the deadline of   *)
(* each attempt, finished what an attempt whose task ended left for        *)
(* join_next, and tried every address launched.                            *)
NewDial(callbacks, handle, host, server, budget) ==
  [callbacks |-> callbacks, handle |-> handle, host |-> host, server |-> server, pc |-> "resolve", now |-> 0, began |-> 0, deadline |-> budget,
   stagger |-> Lesser(CANDIDATE_STAGGER, budget \div 2), queue |-> <<>>, running |-> <<>>, finished |-> <<>>, next |-> 0,
   tried |-> {}, failed |-> {}, last |-> NoResult, result |-> NoResult, winner |-> 0, open |-> {}]

InFlight(d) == DOMAIN d.running \cup DOMAIN d.finished
Without(f, a) == [b \in DOMAIN f \ {a} |-> f[b]]
With(f, a, v) == [b \in DOMAIN f \cup {a} |-> IF b = a THEN v ELSE f[b]]

(* Mutant: the losers are forgotten, not closed.                           *)
shutdown_leaks(d) == [d EXCEPT !.running = <<>>, !.finished = <<>>]

(* JoinSet::shutdown drops every attempt, and with it its connection.      *)
shutdown(d) == [d EXCEPT !.running = <<>>, !.finished = <<>>, !.open = d.open \ InFlight(d)]
Return(d, error) == [shutdown(d) EXCEPT !.pc = "done", !.result = error]

(* Mutant: the whole remaining budget goes to every attempt.               *)
attempt_budget_whole(d, waiting) == d.deadline - d.now
attempt_budget(d, waiting) ==
  (d.deadline - d.now) \div div_ceil(waiting + Cardinality(InFlight(d)) + 1, MAX_CONCURRENT_CANDIDATES)

CanLaunch(d) ==
  /\ d.queue # <<>>
  /\ Cardinality(InFlight(d)) < MAX_CONCURRENT_CANDIDATES
  /\ InFlight(d) = {} \/ d.now >= d.next

launch(d) ==
  [d EXCEPT !.queue = Tail(@), !.tried = @ \cup {Head(d.queue)}, !.next = d.now + d.stagger,
            !.running = With(d.running, Head(d.queue), d.now + attempt_budget(d, Len(d.queue) - 1))]

(* The head of the loop: deadline, at most one launch, nothing left.       *)
LoopHead(d) ==
  IF d.now >= d.deadline THEN Return(d, candidate_timeout)
  ELSE IF CanLaunch(d) THEN launch(d)
  ELSE IF InFlight(d) = {} THEN Return(d, IF d.last = NoResult THEN "NotFound" ELSE d.last)
  ELSE d

ResolveCandidates(scoped, found) ==
  /\ dial.pc = "resolve" /\ dial.now < dial.deadline
  /\ LET answer == resolve_server_addresses(dial.callbacks, dial.handle, dial.server, scoped, found)
     IN  dial' = IF answer.error # "none" THEN Return(dial, answer.error)
                 ELSE LoopHead([dial EXCEPT !.pc = "race", !.began = dial.now, !.queue = interleaved_candidates(answer.addresses), !.next = dial.now])

ResolveTimesOut == dial.pc = "resolve" /\ dial.now >= dial.deadline /\ dial' = Return(dial, candidate_timeout)

(* connect_tcp inside timeout_at: the task ends, with the connection open, *)
(* refused by the host or the network, or at its deadline.                 *)
connect_tcp(d, outcome) ==
  LET prepared == prepare(d.callbacks, d.handle, d.host.protects, d.host.binds)
  IN  IF prepared = "ok" THEN outcome ELSE prepared

AttemptEnds(a, outcome) ==
  /\ a \in DOMAIN dial.running
  /\ outcome = candidate_timeout => dial.now >= dial.running[a]
  /\ outcome = connect_tcp(dial, outcome)
  /\ dial' = [dial EXCEPT !.running = Without(@, a), !.finished = With(@, a, outcome),
                          !.open = IF outcome = "ok" THEN @ \cup {a} ELSE @]

Joined(a) ==
  /\ a \in DOMAIN dial.finished
  /\ LET d == [dial EXCEPT !.finished = Without(@, a)]
     IN  dial' = IF dial.finished[a] = "ok" THEN [shutdown(d) EXCEPT !.pc = "done", !.result = "ok", !.winner = a]
                 ELSE LoopHead([d EXCEPT !.last = dial.finished[a], !.failed = @ \cup {a}])

NextLaunch ==
  /\ dial.pc = "race" /\ dial.queue # <<>> /\ Cardinality(InFlight(dial)) < MAX_CONCURRENT_CANDIDATES /\ dial.now >= dial.next
  /\ dial' = LoopHead(dial)

DeadlineFires == dial.pc = "race" /\ dial.now >= dial.deadline /\ dial' = Return(dial, candidate_timeout)

TimerDue ==
  \/ dial.now >= dial.deadline
  \/ \E a \in DOMAIN dial.running : dial.now >= dial.running[a]
  \/ DOMAIN dial.finished # {}
  \/ dial.pc = "race" /\ dial.queue # <<>> /\ Cardinality(InFlight(dial)) < MAX_CONCURRENT_CANDIDATES /\ dial.now >= dial.next
Tick == dial.pc # "done" /\ ~ TimerDue /\ dial' = [dial EXCEPT !.now = @ + 1]

-----------------------------------------------------------------------------
(* The bootstrap resolver of foxcore-runtime: what set_network_handle      *)
(* stores in two steps, one pool per QUIC upstream with its lock, and the  *)
(* clients that a pool or a call still holds.                              *)
NoClient == [network |-> 0, revision |-> 0, net |-> 0, open |-> FALSE]
Boot(kinds, budget, candidates) ==
  [kinds |-> kinds, timeout |-> budget, max_candidates |-> candidates, handle |-> 1, revision |-> 0, moving |-> FALSE,
   pool |-> [i \in DOMAIN kinds |-> 0], lock |-> [i \in DOMAIN kinds |-> 0],
   clients |-> [k \in 1 .. Len(kinds) + Cardinality(Askers) |-> NoClient]]
Ask0 == [pc |-> "idle", network |-> 0, revision |-> 0, index |-> 1, family |-> 1, left |-> 0, due |-> 0, got |-> <<>>,
         sock |-> 0, client |-> 0, result |-> NoResult]

set_network_handle(handle) ==
  /\ ~boot.moving /\ boot.revision < MaxMoves
  /\ boot' = [boot EXCEPT !.handle = handle, !.moving = TRUE]
  /\ asks' = asks
network_revision_added ==
  /\ boot.moving
  /\ boot' = [boot EXCEPT !.revision = @ + 1, !.moving = FALSE]
  /\ asks' = asks

ensure_network(a) == boot.handle = a.network /\ boot.revision = a.revision
UpstreamKind(a) == boot.kinds[a.index]
Quic(a) == UpstreamKind(a) \in {"doq", "doh3"}
Resolving == {c \in Askers : asks[c].pc \notin {"idle", "enter", "done"}}

(* The dialer reads the handle; the resolver takes a permit, the revision  *)
(* and a deadline.                                                         *)
AskBegins(c) ==
  /\ asks[c].pc = "idle"
  /\ asks' = [asks EXCEPT ![c].pc = "enter", ![c].network = boot.handle]
  /\ boot' = boot

Answered(a, result) == [Ask0 EXCEPT !.pc = "done", !.network = a.network, !.got = IF result = "ok" THEN a.got ELSE <<>>, !.result = result]

install(c) ==
  LET a == [asks[c] EXCEPT !.revision = boot.revision, !.left = boot.timeout, !.pc = "start"]
  IN  /\ asks[c].pc = "enter"
      /\ asks' = [asks EXCEPT ![c] = IF Cardinality(Resolving) >= BootCapacity THEN Answered(a, "error")
                                     ELSE IF ensure_network(a) THEN a ELSE Answered(a, "error")]
      /\ boot' = boot

(* The budget of an exchange is its share of what is left of the deadline. *)
Exchanges(a) == (Len(boot.kinds) - a.index) * 2 + 3 - a.family

(* Mutant: an exchange may use all that is left.                           *)
exchange_greedy(c) ==
  LET a == asks[c]
  IN  /\ a.pc = "start"
      /\ asks' = [asks EXCEPT ![c] = IF a.left = 0 THEN Answered(a, "error")
                                     ELSE [a EXCEPT !.due = a.left, !.pc = IF Quic(a) THEN "lock" ELSE "open"]]
      /\ boot' = boot

exchange(c) ==
  LET a == asks[c]
  IN  /\ a.pc = "start"
      /\ asks' = [asks EXCEPT ![c] =
           IF a.left = 0 THEN (IF a.got # <<>> THEN Answered(a, "ok") ELSE Answered(a, "error"))
           ELSE [a EXCEPT !.due = a.left \div Exchanges(a), !.pc = IF Quic(a) THEN "lock" ELSE "open"]]
      /\ boot' = boot

(* A protected socket is bound to the network of the moment.  A truncated  *)
(* UDP answer is asked for again over TCP.                                 *)
SocketOpens(c) ==
  /\ asks[c].pc = "open"
  /\ asks' = [asks EXCEPT ![c].pc = "wait", ![c].sock = boot.handle]
  /\ boot' = boot
Truncated(c) ==
  /\ asks[c].pc = "wait" /\ UpstreamKind(asks[c]) = "udp"
  /\ asks' = [asks EXCEPT ![c].pc = "tcp", ![c].sock = boot.handle]
  /\ boot' = boot

(* The rest of an exchange's turn: the network is checked again, addresses *)
(* join the list, and the next family or upstream is asked.                *)
Add(got, found, net, most) ==
  FoldLeft(LAMBDA list, x : IF Len(list) < most /\ \A i \in DOMAIN list : list[i].address # x
                              THEN Append(list, [address |-> x, net |-> net]) ELSE list, got, found)

Turn(a) ==
  IF a.family = 1 THEN [a EXCEPT !.pc = "start", !.family = 2]
  ELSE IF a.got # <<>> THEN Answered(a, "ok")
  ELSE IF a.index = Len(boot.kinds) THEN Answered(a, "error")
  ELSE [a EXCEPT !.pc = "start", !.index = @ + 1, !.family = 1]

(* Mutant: the network is not checked after the exchange.                  *)
resolve_unchecked(asked, outcome) ==
  LET a == [asked EXCEPT !.due = 0, !.sock = 0, !.client = 0]
  IN  CASE ~outcome.error /\ 0 \in ToSet(outcome.found) -> Answered(a, "error")
        [] ~outcome.error /\ 0 \notin ToSet(outcome.found) ->
             Turn([a EXCEPT !.got = Add(@, outcome.found, asked.sock, boot.max_candidates)])
        [] outcome.error -> Turn(a)

resolve_turn(asked, outcome) ==
  LET a == [asked EXCEPT !.due = 0, !.sock = 0, !.client = 0]
  IN  CASE ~ensure_network(a) -> Answered(a, "error")
        [] ensure_network(a) /\ ~outcome.error /\ 0 \in ToSet(outcome.found) -> Answered(a, "error")
        [] ensure_network(a) /\ ~outcome.error /\ 0 \notin ToSet(outcome.found) ->
             Turn([a EXCEPT !.got = Add(@, outcome.found, asked.sock, boot.max_candidates)])
        [] ensure_network(a) /\ outcome.error -> Turn(a)

Held(next, calls) == ToSet(next.pool) \cup {calls[c].client : c \in Askers}
Drop(next, calls) ==
  [next EXCEPT !.clients = [k \in DOMAIN next.clients |-> IF k \in Held(next, calls) THEN next.clients[k] ELSE NoClient]]
Unlocked(c) == [i \in DOMAIN boot.lock |-> IF boot.lock[i] = c THEN 0 ELSE boot.lock[i]]
Concludes(c, outcome) == asks' = [asks EXCEPT ![c] = resolve_turn(asks[c], outcome)]
NoReply == [error |-> TRUE, found |-> <<>>]

Replied(c, outcome) ==
  /\ asks[c].pc \in {"wait", "tcp"}
  /\ Concludes(c, outcome)
  /\ boot' = boot

(* tokio::time::timeout drops the exchange wherever it is, and the lock it *)
(* holds; a connection it was making is gone with it.                      *)
ExchangeTimesOut(c) ==
  /\ asks[c].pc \in {"lock", "bound", "connect", "request", "open", "wait", "tcp"} /\ asks[c].due = 0
  /\ Concludes(c, NoReply)
  /\ boot' = Drop([boot EXCEPT !.lock = Unlocked(c)], asks')

(* Mutant: a pooled client is shared as long as it is open.                *)
UsableClientOpen(a, k) == k # 0 /\ boot.clients[k].open

(* quic_exchange.                                                          *)
UsableClient(a, k) == k # 0 /\ boot.clients[k].network = a.network /\ boot.clients[k].revision = a.revision /\ boot.clients[k].open

QuicLock(c) ==
  LET a == asks[c]  k == boot.pool[a.index]
  IN  /\ a.pc = "lock" /\ boot.lock[a.index] = 0
      /\ IF UsableClient(a, k)
           THEN /\ asks' = [asks EXCEPT ![c].pc = "request", ![c].client = k, ![c].sock = boot.clients[k].net]
                /\ boot' = boot
           ELSE /\ asks' = [asks EXCEPT ![c].pc = "bound", ![c].sock = boot.handle]
                /\ boot' = Drop([boot EXCEPT !.pool[a.index] = 0, !.lock[a.index] = c], asks)

QuicBound(c) ==
  /\ asks[c].pc = "bound"
  /\ IF ensure_network(asks[c])
       THEN asks' = [asks EXCEPT ![c].pc = "connect"] /\ boot' = boot
       ELSE Concludes(c, NoReply) /\ boot' = [boot EXCEPT !.lock = Unlocked(c)]

QuicConnected(c) ==
  LET a == asks[c]  k == Min(DOMAIN boot.clients \ Held(boot, asks))
  IN  /\ a.pc = "connect"
      /\ IF ensure_network(a)
           THEN /\ asks' = [asks EXCEPT ![c].pc = "request", ![c].client = k]
                /\ boot' = [boot EXCEPT !.lock = Unlocked(c), !.pool[a.index] = k,
                     !.clients[k] = [network |-> a.network, revision |-> a.revision, net |-> a.sock, open |-> TRUE]]
           ELSE Concludes(c, NoReply) /\ boot' = [boot EXCEPT !.lock = Unlocked(c)]

QuicRefused(c) ==
  /\ asks[c].pc = "connect"
  /\ Concludes(c, NoReply)
  /\ boot' = [boot EXCEPT !.lock = Unlocked(c)]

(* A client found closed leaves the pool, if the lock is free and it is    *)
(* still the pooled one.                                                   *)
QuicReplied(c, outcome) ==
  LET a == asks[c]  gone == ~boot.clients[a.client].open /\ boot.lock[a.index] = 0 /\ boot.pool[a.index] = a.client
  IN  /\ a.pc = "request" /\ (boot.clients[a.client].open \/ outcome.error)
      /\ Concludes(c, outcome)
      /\ boot' = Drop(IF gone THEN [boot EXCEPT !.pool[a.index] = 0] ELSE boot, asks')

ClientCloses(k) ==
  /\ k \in DOMAIN boot.clients /\ boot.clients[k].open
  /\ boot' = [boot EXCEPT !.clients[k].open = FALSE]
  /\ asks' = asks

Timed(c) == asks[c].due > 0
BootTick ==
  /\ \A c \in Resolving : Timed(c) /\ asks[c].pc \notin {"open", "bound"}
  /\ Resolving # {}
  /\ asks' = [c \in Askers |-> IF c \in Resolving THEN [asks[c] EXCEPT !.left = @ - 1, !.due = @ - 1] ELSE asks[c]]
  /\ boot' = boot

-----------------------------------------------------------------------------
(* One DNS connection over QUIC (dns_quic): its transactions, each on a    *)
(* stream of its own, and the two tasks that carry its datagrams over the  *)
(* selected outbound.                                                      *)
NewWire(proto) ==
  [proto |-> proto, alive |-> TRUE, open |-> TRUE, code |-> "none", requests |-> MAX_CONCURRENT_REQUESTS,
   closed |-> "waits", cancel |-> FALSE, failure |-> "none", send |-> "idle", receive |-> "idle",
   outbound |-> 0, inbound |-> 0, writable |-> "ready"]
NewTx == [pc |-> "idle", send |-> "none", recv |-> "none", result |-> "none"]

TxAt(t, pc) == tx[t].pc = pc
TxInFlight == {t \in Transactions : tx[t].pc \in {"open", "write", "read"}}

acquire(t) ==
  /\ TxAt(t, "idle") /\ wire.alive /\ wire.requests > 0
  /\ tx' = [tx EXCEPT ![t].pc = "open"]
  /\ wire' = [wire EXCEPT !.requests = @ - 1]

(* Mutant: only the receiving half is stopped.                             *)
SettledHalf(r, result) ==
  [r EXCEPT !.pc = "done", !.result = result, !.recv = IF @ # "open" THEN @ ELSE IF result = "whole" THEN "fin" ELSE "stopped"]

(* The Drop of the two halves and of their transaction: a half that did    *)
(* not end is reset or stopped.                                            *)
SendHalf(half) == IF half = "open" THEN "reset" ELSE half
RecvHalf(half, whole) == IF half # "open" THEN half ELSE IF whole THEN "fin" ELSE "stopped"
Settled(r, result) ==
  [r EXCEPT !.pc = "done", !.result = result, !.send = SendHalf(@), !.recv = RecvHalf(@, result = "whole")]

TxEnds(t, result, close) ==
  /\ tx' = [tx EXCEPT ![t] = Settled(@, result)]
  /\ wire' = [wire EXCEPT !.requests = @ + 1,
                          !.open = @ /\ ~close,
                          !.code = IF wire.open /\ close THEN "PROTOCOL_ERROR" ELSE @]

open_bi(t) ==
  /\ TxAt(t, "open")
  /\ IF wire.open
       THEN tx' = [tx EXCEPT ![t].pc = "write", ![t].send = "open", ![t].recv = "open"] /\ wire' = wire
       ELSE TxEnds(t, "error", FALSE)
write_all(t, ok) ==
  /\ TxAt(t, "write") /\ (ok => wire.open)
  /\ IF ok
       THEN tx' = [tx EXCEPT ![t].pc = "read", ![t].send = "fin"] /\ wire' = wire
       ELSE TxEnds(t, "error", FALSE)

(* Mutant: a reply over the caller's limit is taken for a framing error.   *)
doq_exchange_strict(t, reply) ==
  /\ wire.proto = "doq" /\ TxAt(t, "read")
  /\ TxEnds(t, reply, reply \in {"misframed", "over"})

(* What a reply may be: whole; over the caller's limit; reset or lost;     *)
(* not framed as the protocol says (a length that is short, early, late or *)
(* not the body's, or another identifier).  DoQ closes on the last; HTTP/3 *)
(* refuses the reply alone.                                                *)
doq_exchange(t, reply) ==
  /\ wire.proto = "doq" /\ TxAt(t, "read")
  /\ TxEnds(t, reply, reply = "misframed")
doh3_exchange(t, reply) ==
  /\ wire.proto = "doh3" /\ TxAt(t, "read")
  /\ TxEnds(t, reply, FALSE)

(* The future is dropped: the caller timed out.                            *)
TxDropped(t) ==
  /\ t \in TxInFlight
  /\ TxEnds(t, "cancelled", FALSE)

ConnectionCloses ==
  /\ wire.open
  /\ wire' = [wire EXCEPT !.open = FALSE, !.code = "lost"]
  /\ tx' = tx

(* The last holder lets go: ConnectionLease, DatagramGuard and the task    *)
(* that watched for the close.                                             *)
DropConnection ==
  /\ wire.alive /\ TxInFlight = {}
  /\ wire' = [wire EXCEPT !.alive = FALSE, !.open = FALSE, !.code = IF wire.open THEN "DNS context ended" ELSE @,
                          !.closed = "ended", !.cancel = TRUE, !.send = "ended", !.receive = "ended"]
  /\ tx' = tx

(* The task that watches for the close.                                    *)
closed_task ==
  /\ wire.closed = "waits" /\ ~wire.open
  /\ wire' = [wire EXCEPT !.closed = "ended", !.cancel = TRUE]
  /\ tx' = tx

(* The datagram socket under quinn, and its tasks.  fail records the kind  *)
(* before it cancels.                                                      *)
check == ~wire.cancel
WireStep(next) == wire' = next /\ tx' = tx
try_send == check /\ wire.alive /\ wire.outbound < DATAGRAM_QUEUE_CAPACITY /\ WireStep([wire EXCEPT !.outbound = @ + 1])
poll_recv == check /\ wire.alive /\ wire.inbound > 0 /\ WireStep([wire EXCEPT !.inbound = @ - 1])
poll_writable ==
  \/ check /\ wire.alive /\ wire.writable = "ready" /\ wire.outbound = DATAGRAM_QUEUE_CAPACITY /\ WireStep([wire EXCEPT !.writable = "waits"])
  \/ wire.writable = "waits" /\ (wire.cancel \/ wire.outbound < DATAGRAM_QUEUE_CAPACITY) /\ WireStep([wire EXCEPT !.writable = "ready"])

send_task(ok) ==
  \/ wire.send = "idle" /\ wire.outbound > 0 /\ ok /\ WireStep([wire EXCEPT !.send = "sending", !.outbound = @ - 1])
  \/ wire.send = "sending" /\ WireStep([wire EXCEPT !.send = IF ok THEN "idle" ELSE "failing", !.failure = IF ok THEN @ ELSE "send"])
receive_task(packet) ==
  \/ wire.receive = "idle" /\ packet = "accepted" /\ WireStep([wire EXCEPT !.receive = "holding"])
  \/ wire.receive = "idle" /\ packet = "error" /\ WireStep([wire EXCEPT !.receive = "failing", !.failure = "receive"])
  \/ /\ wire.receive = "holding" /\ packet = "accepted" /\ wire.inbound < DATAGRAM_QUEUE_CAPACITY
     /\ WireStep([wire EXCEPT !.receive = "idle", !.inbound = @ + 1])

(* Mutant: a task that is handing its packet over does not watch for the   *)
(* cancellation.                                                           *)
TasksStopIdle ==
  \/ wire.send = "failing" /\ WireStep([wire EXCEPT !.send = "ended", !.cancel = TRUE])
  \/ wire.receive = "failing" /\ WireStep([wire EXCEPT !.receive = "ended", !.cancel = TRUE])
  \/ wire.cancel /\ wire.send = "idle" /\ WireStep([wire EXCEPT !.send = "ended"])
  \/ wire.cancel /\ wire.receive = "idle" /\ WireStep([wire EXCEPT !.receive = "ended"])

TasksStop ==
  \/ wire.send = "failing" /\ WireStep([wire EXCEPT !.send = "ended", !.cancel = TRUE])
  \/ wire.receive = "failing" /\ WireStep([wire EXCEPT !.receive = "ended", !.cancel = TRUE])
  \/ wire.cancel /\ wire.send \in {"idle", "sending"} /\ WireStep([wire EXCEPT !.send = "ended"])
  \/ wire.cancel /\ wire.receive \in {"idle", "holding"} /\ WireStep([wire EXCEPT !.receive = "ended"])

-----------------------------------------------------------------------------
(* No race gives up early: an error of an attempt is the answer only when  *)
(* every address was tried and failed, and at the deadline every address   *)
(* had been launched, when the budget leaves room for one stagger per      *)
(* address once the name is resolved.                                      *)
GivesUpHonestly ==
  dial.pc = "done" /\ dial.result # "ok" /\ dial.tried # {} =>
    /\ dial.now < dial.deadline => dial.queue = <<>> /\ dial.failed = dial.tried
    /\ dial.deadline - dial.began > dial.stagger * (Cardinality(dial.tried) + Len(dial.queue)) => dial.queue = <<>>

(* The race leaves one connection behind at most, the one it returns: a    *)
(* loser that was already established is closed with the set it ran in.    *)
OneConnectionSurvives ==
  dial.pc = "done" => dial.open = (IF dial.result = "ok" THEN {dial.winner} ELSE {})

(* A server's addresses come from resolvers reached on the network the     *)
(* call was made on, whatever the device does meanwhile: the handle alone  *)
(* would not tell a device that left a network and came back.              *)
AddressesOfItsNetwork ==
  \A c \in Askers : asks[c].result = "ok" =>
    /\ asks[c].got # <<>> /\ Len(asks[c].got) <= boot.max_candidates
    /\ \A i \in DOMAIN asks[c].got : asks[c].got[i].net = asks[c].network

(* Every exchange has its fair share of the deadline, so that an upstream  *)
(* that does not answer leaves the later ones their turn.                  *)
FairShares ==
  \A c \in Askers : asks[c].pc = "start" =>
    asks[c].left >= Exchanges(asks[c]) * (boot.timeout \div (2 * Len(boot.kinds)))

(* A pool is locked only by the call that connects for it.                 *)
LocksHeld ==
  \A i \in DOMAIN boot.lock, c \in Askers :
    boot.lock[i] = c <=> asks[c].pc \in {"bound", "connect"} /\ asks[c].index = i

(* However a transaction over QUIC ends, both halves of its stream end and *)
(* its permit goes back.  A reply that breaks DoQ's framing closes the     *)
(* connection; a reply the caller will not take, a reset or a cancellation *)
(* does not close it for the others.                                       *)
TransactionsSettled ==
  /\ wire.requests + Cardinality(TxInFlight) = MAX_CONCURRENT_REQUESTS
  /\ \A t \in Transactions : TxAt(t, "done") =>
       /\ tx[t].send \in {"none", "fin", "reset"} /\ tx[t].recv \in {"none", "fin", "stopped"}
       /\ tx[t].result = "whole" => tx[t].send = "fin" /\ tx[t].recv = "fin"
       /\ wire.proto = "doq" /\ tx[t].result = "misframed" => ~wire.open
  /\ wire.code = "PROTOCOL_ERROR" => \E t \in Transactions : tx[t].result = "misframed"

(* An open connection's socket reports the outbound's own error: only a    *)
(* failed task cancels it, and it leaves its reason first.                 *)
FailureReported == wire.cancel /\ wire.open => wire.failure # "none"

(* The runtime polls the tasks that can run; nothing is asked of the peer  *)
(* or of the outbound.                                                     *)
WireFairness == WF_wireVars(closed_task \/ TasksStop \/ (wire.cancel /\ poll_writable))

(* The tasks of a connection that closed end, even with a full queue or an *)
(* outbound that never takes or gives a datagram; a closed connection does *)
(* not open again.                                                         *)
WireQuiet == wire.open \/ (wire.send = "ended" /\ wire.receive = "ended" /\ wire.writable = "ready")
=============================================================================
