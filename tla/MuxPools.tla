------------------------------ MODULE MuxPools ------------------------------
(***************************************************************************)
(* Connections shared by many flows: the QUIC sessions of Hysteria2 and    *)
(* TUIC, the pools of AnyTLS and NaiveProxy, and the AnyTLS padding        *)
(* scheme.                                                                 *)
(*                                                                         *)
(* A QUIC session is one connection kept up by a supervisor task, replaced *)
(* when it closes or when the network changes, and shared by the flows     *)
(* that wait for it.  Both crates have the same supervisor.                *)
(* Notify::notify_waiters wakes the futures created before it, so a future *)
(* is the count of notifications at its creation.                          *)
(***************************************************************************)
EXTENDS Integers, FiniteSets, Sequences, Functions

CONSTANTS
  Flows,          \* flows that ask for the connection
  MaxNudges,      \* network changes followed
  MaxConns,       \* connections followed
  MaxFails        \* dials that fail

ASSUME QuicAssumption == MaxNudges \in Nat /\ MaxConns \in Nat \ {0} /\ MaxFails \in Nat

VARIABLES
  quicSlot,   \* the Slot, the epoch and the two Notify counters
  supervisor, \* the supervisor's locals
  conns,      \* every connection ever made
  flows       \* the flows inside wait_ready
quicVars == <<quicSlot, supervisor, conns, flows>>

NoConn == 0
NewSlot == [epoch |-> 0, conn |-> NoConn, reconnect_epoch |-> 0, nudges |-> 0, changes |-> 0, reconnects |-> 0, cancel |-> FALSE, hook |-> FALSE]
NewFlow == [pc |-> "away", base |-> 0, conn |-> NoConn, result |-> "none"]
Down == [pc |-> "top", base |-> 0, epoch |-> 0, conn |-> NoConn, fails |-> 0]

(* start: the first connection is made before the task is spawned.         *)
QuicStart(kind, udp, hook) ==
  /\ quicSlot = [NewSlot EXCEPT !.conn = 1, !.hook = hook]
  /\ supervisor = Down
  /\ conns = [c \in 1 .. MaxConns |-> [state |-> IF c = 1 THEN "open" ELSE "unmade", dialed |-> 0, kind |-> kind, udp |-> udp]]
  /\ flows = [f \in Flows |-> NewFlow]

current(slot) == IF slot.epoch = slot.reconnect_epoch THEN slot.conn ELSE NoConn

Closed(c) == IF c = NoConn THEN conns ELSE [conns EXCEPT ![c].state = "closed"]

-----------------------------------------------------------------------------
(* nudge: the epoch, then the notification.                                *)
NudgeEpoch ==
  /\ quicSlot.reconnect_epoch < MaxNudges /\ quicSlot.nudges = quicSlot.reconnect_epoch
  /\ quicSlot' = [quicSlot EXCEPT !.reconnect_epoch = @ + 1]
  /\ UNCHANGED <<supervisor, conns, flows>>

NudgeNotify ==
  /\ quicSlot.nudges < quicSlot.reconnect_epoch
  /\ quicSlot' = [quicSlot EXCEPT !.nudges = @ + 1]
  /\ UNCHANGED <<supervisor, conns, flows>>

Cancel == ~ quicSlot.cancel /\ quicSlot' = [quicSlot EXCEPT !.cancel = TRUE] /\ UNCHANGED <<supervisor, conns, flows>>

(* The peer or the path closes a connection.                               *)
ConnectionLost(c) ==
  /\ conns[c].state = "open"
  /\ conns' = [conns EXCEPT ![c].state = "lost"]
  /\ UNCHANGED <<quicSlot, supervisor, flows>>

-----------------------------------------------------------------------------
(* supervise.  Each await is the end of a step.                            *)
Goes(pc) == supervisor' = [supervisor EXCEPT !.pc = pc]

mark_down ==
  /\ conns' = Closed(quicSlot.conn)
  /\ quicSlot' = [quicSlot EXCEPT !.conn = NoConn]

SuperviseTop ==
  /\ supervisor.pc = "top"
  /\ supervisor' = [supervisor EXCEPT !.pc = "current", !.base = quicSlot.nudges]
  /\ UNCHANGED <<quicSlot, conns, flows>>

SuperviseCurrent ==
  /\ supervisor.pc = "current"
  /\ supervisor' = [supervisor EXCEPT !.conn = current(quicSlot),
                                      !.pc = IF current(quicSlot) = NoConn THEN "down" ELSE "watch"]
  /\ UNCHANGED <<quicSlot, conns, flows>>

SuperviseDown == supervisor.pc = "down" /\ mark_down /\ Goes("ask") /\ UNCHANGED flows

WatchEnds ==
  \/ conns[supervisor.conn].state # "open"
  \/ quicSlot.nudges > supervisor.base
(* Mutant: the notification is awaited only from the select on.            *)
SuperviseWatch_unarmed ==
  /\ supervisor.pc = "watch"
  /\ IF supervisor.base < 100
     THEN supervisor' = [supervisor EXCEPT !.base = 100 + quicSlot.nudges] /\ UNCHANGED <<quicSlot, conns>>
     ELSE /\ conns[supervisor.conn].state # "open" \/ quicSlot.nudges > supervisor.base - 100
          /\ mark_down /\ supervisor' = [supervisor EXCEPT !.pc = "top", !.conn = NoConn]
  /\ UNCHANGED flows

SuperviseWatch ==
  /\ supervisor.pc = "watch"
  /\ WatchEnds \/ quicSlot.cancel
  /\ mark_down
  /\ \/ WatchEnds /\ supervisor' = [supervisor EXCEPT !.pc = "top", !.conn = NoConn]
     \/ quicSlot.cancel /\ supervisor' = [supervisor EXCEPT !.pc = "stopped", !.conn = NoConn]
  /\ UNCHANGED flows

-----------------------------------------------------------------------------
(* reconnect.                                                              *)
Stops == quicSlot.cancel /\ supervisor' = [supervisor EXCEPT !.pc = "stopped", !.conn = NoConn]

(* The continuity hook: waited for until it permits, or the session ends.  *)
AskPermission(permitted) ==
  /\ supervisor.pc = "ask"
  /\ \/ (~ quicSlot.hook \/ permitted) /\ supervisor' = [supervisor EXCEPT !.pc = "try", !.epoch = quicSlot.reconnect_epoch]
     \/ quicSlot.hook /\ ~ permitted /\ UNCHANGED supervisor
     \/ quicSlot.hook /\ Stops
  /\ UNCHANGED <<quicSlot, conns, flows>>

EpochMoved == quicSlot.reconnect_epoch # supervisor.epoch
Nudged == quicSlot.nudges > supervisor.base

TryConnect ==
  /\ supervisor.pc = "try"
  /\ \/ Stops
     \/ ~ quicSlot.cancel /\ EpochMoved /\ Goes("ask")
     \/ ~ quicSlot.cancel /\ ~ EpochMoved /\ supervisor' = [supervisor EXCEPT !.pc = "dialing", !.base = quicSlot.nudges]
  /\ UNCHANGED <<quicSlot, conns, flows>>

(* connect_server, with the connection made on the network of its dial.    *)
Fresh == CHOOSE c \in DOMAIN conns : conns[c].state = "unmade"
MayDial == \E c \in DOMAIN conns : conns[c].state = "unmade"
ConnectServer ==
  /\ supervisor.pc = "dialing"
  /\ \/ Stops /\ UNCHANGED conns
     \/ Nudged /\ Goes("ask") /\ UNCHANGED conns
     \/ /\ supervisor.fails < MaxFails
        /\ supervisor' = [supervisor EXCEPT !.pc = "failed", !.fails = @ + 1] /\ UNCHANGED conns
     \/ /\ MayDial
        /\ conns' = [conns EXCEPT ![Fresh].state = "open", ![Fresh].dialed = supervisor.epoch]
        /\ supervisor' = [supervisor EXCEPT !.pc = "store", !.conn = Fresh]
  /\ UNCHANGED <<quicSlot, flows>>

(* Mutant: the slot takes the epoch of now.                                *)
StoreConnection_now ==
  /\ supervisor.pc = "store"
  /\ quicSlot' = [quicSlot EXCEPT !.epoch = quicSlot.reconnect_epoch, !.conn = supervisor.conn]
  /\ supervisor' = [supervisor EXCEPT !.pc = "stored"] /\ UNCHANGED <<conns, flows>>

(* Under the lock: a connection whose epoch has passed is dropped, and the *)
(* last reference to it closes it.                                         *)
StoreConnection ==
  /\ supervisor.pc = "store"
  /\ \/ EpochMoved /\ conns' = Closed(supervisor.conn) /\ UNCHANGED quicSlot
        /\ supervisor' = [supervisor EXCEPT !.pc = "ask", !.conn = NoConn]
     \/ ~ EpochMoved /\ quicSlot' = [quicSlot EXCEPT !.epoch = supervisor.epoch, !.conn = supervisor.conn]
        /\ supervisor' = [supervisor EXCEPT !.pc = "stored"] /\ UNCHANGED conns
  /\ UNCHANGED flows

Publish ==
  /\ supervisor.pc = "stored"
  /\ \/ EpochMoved /\ mark_down /\ supervisor' = [supervisor EXCEPT !.pc = "ask", !.conn = NoConn]
     \/ ~ EpochMoved /\ UNCHANGED conns /\ supervisor' = [supervisor EXCEPT !.pc = "top", !.conn = NoConn]
        /\ quicSlot' = [quicSlot EXCEPT !.changes = @ + 1, !.reconnects = @ + 1]
  /\ UNCHANGED flows

ConnectFailed ==
  /\ supervisor.pc = "failed"
  /\ IF EpochMoved THEN Goes("ask") ELSE supervisor' = [supervisor EXCEPT !.pc = "backoff", !.base = quicSlot.nudges]
  /\ UNCHANGED <<quicSlot, conns, flows>>

Backoff ==
  /\ supervisor.pc = "backoff"
  /\ Stops \/ (Nudged /\ Goes("ask")) \/ Goes("try")
  /\ UNCHANGED <<quicSlot, conns, flows>>

Kind(kind) == conns[1].kind = kind
supervise == SuperviseTop \/ SuperviseCurrent \/ SuperviseDown \/ SuperviseWatch
reconnect ==
  \/ \E permitted \in BOOLEAN : AskPermission(permitted)
  \/ TryConnect \/ ConnectServer \/ StoreConnection \/ Publish \/ ConnectFailed \/ Backoff

(* The two crates' tasks: TUIC also closes the connection it was watching, *)
(* which is the one mark_down closes.                                      *)
hysteria2_session == Kind("hysteria2") /\ (supervise \/ reconnect)
tuic_supervise == Kind("tuic") /\ supervise
tuic_reconnect == Kind("tuic") /\ reconnect
Supervise == hysteria2_session \/ tuic_supervise \/ tuic_reconnect

-----------------------------------------------------------------------------
(* wait_ready, and what the outbound does with the connection.             *)
Flow(f, new) == flows' = [flows EXCEPT ![f] = new] /\ UNCHANGED <<quicSlot, supervisor, conns>>

WaitReady(f) ==
  /\ flows[f].pc = "away"
  /\ Flow(f, [flows[f] EXCEPT !.conn = current(quicSlot), !.pc = IF current(quicSlot) = NoConn THEN "arm" ELSE "ready"])

WaitArm(f) ==
  /\ flows[f].pc = "arm"
  /\ Flow(f, [flows[f] EXCEPT !.pc = "check", !.base = quicSlot.changes])

(* Mutant: the flow listens only once it has seen the slot empty.          *)
WaitCheck_late(f) ==
  \/ flows[f].pc = "check"
     /\ Flow(f, [flows[f] EXCEPT !.conn = current(quicSlot), !.pc = IF current(quicSlot) = NoConn THEN "late" ELSE "ready"])
  \/ flows[f].pc = "late" /\ Flow(f, [flows[f] EXCEPT !.pc = "wait", !.base = quicSlot.changes])

WaitCheck(f) ==
  /\ flows[f].pc = "check"
  /\ Flow(f, [flows[f] EXCEPT !.conn = current(quicSlot), !.pc = IF current(quicSlot) = NoConn THEN "wait" ELSE "ready"])

WaitNotified(f) == flows[f].pc = "wait" /\ quicSlot.changes > flows[f].base /\ Flow(f, [flows[f] EXCEPT !.pc = "arm"])
WaitTimesOut(f) == flows[f].pc = "wait" /\ Flow(f, [flows[f] EXCEPT !.pc = "done", !.result = "TimedOut"])

(* connect_stream: open_tcp on the connection, which may have closed.      *)
connect_stream(f) ==
  /\ flows[f].pc = "ready"
  /\ Flow(f, [flows[f] EXCEPT !.pc = "done", !.result = IF conns[flows[f].conn].state = "open" THEN "stream" ELSE "Closed"])

(* connect_datagram: a Hysteria2 server may have refused UDP, which its    *)
(* connection knows; a TUIC profile refuses it before it waits.            *)
connect_datagram(f) ==
  /\ flows[f].pc = "ready" /\ Kind("hysteria2")
  /\ Flow(f, [flows[f] EXCEPT !.pc = "done", !.result = IF conns[flows[f].conn].udp THEN "datagram" ELSE "Unsupported"])
tuic_connect_datagram(f) ==
  /\ Kind("tuic")
  /\ flows[f].pc = IF conns[1].udp THEN "ready" ELSE "away"
  /\ Flow(f, [flows[f] EXCEPT !.pc = "done", !.result = IF conns[1].udp THEN "datagram" ELSE "Unsupported"])

WaitReadyStep(f) == WaitReady(f) \/ WaitArm(f) \/ WaitCheck(f) \/ WaitNotified(f) \/ WaitTimesOut(f)
tuic_wait_ready(f) == Kind("tuic") /\ WaitReadyStep(f)
hysteria2_wait_ready(f) == Kind("hysteria2") /\ WaitReadyStep(f)

QuicInit == \E kind \in {"hysteria2", "tuic"}, udp, hook \in BOOLEAN : QuicStart(kind, udp, hook)
QuicNext ==
  \/ NudgeEpoch \/ NudgeNotify \/ Cancel \/ Supervise
  \/ \E c \in 1 .. MaxConns : ConnectionLost(c)
  \/ \E f \in Flows : hysteria2_wait_ready(f) \/ tuic_wait_ready(f) \/ connect_stream(f) \/ connect_datagram(f) \/ tuic_connect_datagram(f)

-----------------------------------------------------------------------------
(* No wake-up is lost: a flow that still waits while a connection of this  *)
(* network is in the slot has been notified, or the supervisor is about to *)
(* notify it.  wait_ready creates its future before it reads the slot.     *)
WaitersWoken ==
  \A f \in Flows :
    flows[f].pc = "wait" /\ current(quicSlot) # NoConn => (quicSlot.changes > flows[f].base \/ supervisor.pc = "stored")

(* What a flow is handed was dialled after the last network change the     *)
(* session had been told of when it looked, however the change fell among  *)
(* the supervisor's steps.                                                 *)
HandedThisNetwork ==
  \A f \in Flows : flows[f].conn = NoConn /\ flows'[f].conn # NoConn =>
     conns[flows'[f].conn].dialed = quicSlot.reconnect_epoch

(* The supervisor's turns come, and a nudge is not left half done.         *)
QuicFairness == WF_quicVars(NudgeNotify) /\ WF_quicVars(Supervise)

(* A network change is answered: the session comes to hold a connection of *)
(* the newest network, unless it is stopped.                               *)
QuicServed == quicSlot.cancel \/ ~ MayDial \/ current(quicSlot) # NoConn

-----------------------------------------------------------------------------
(***************************************************************************)
(* The two pools of multiplexed sessions: AnyTLS, whose session task       *)
(* serves streams over one TLS connection, and NaiveProxy, which leases    *)
(* streams of HTTP/2 connections.                                          *)
(***************************************************************************)

CONSTANTS
  Callers,                    \* concurrent open_stream calls
  MaxSessions,                \* sessions followed
  MAX_STREAMS_PER_SESSION,
  min_idle_session,
  MaxEpoch,                   \* network changes followed
  STREAM_IDS,                 \* stream ids before the counter is back at zero
  COMMAND_QUEUE,              \* commands of one session in the queue at once
  MAX_CONNECT_ATTEMPTS        \* the naive retries

ASSUME PoolAssumption ==
  /\ IsFiniteSet(Callers) /\ Callers \subseteq Nat \ {0}
  /\ {MaxSessions, MAX_STREAMS_PER_SESSION, min_idle_session, MaxEpoch, COMMAND_QUEUE, MAX_CONNECT_ATTEMPTS} \subseteq Nat
  /\ STREAM_IDS \in Nat \ {0, 1, 2}

VARIABLES
  net,       \* network_epoch, resolved_epoch, and the network the addresses are of
  pool,      \* AnyTLS: the sessions of the list
  ses,       \* AnyTLS: the sessions
  call,      \* AnyTLS: the calls
  h2         \* NaiveProxy: the pool, its connections and its calls
anytlsVars == <<net, pool, ses, call>>
muxVars == <<net, pool, ses, call, h2>>

NoSession == 0
SessionIds == 1 .. MaxSessions
Least(S) == CHOOSE s \in S : \A x \in S : s <= x

(* A session and its task's maps.  idle_since is "none", "fresh" or "old"; *)
(* closing holds the streams whose Close a spawned task is still sending.  *)
(* pushed numbers the sessions in the order they were put into the list,   *)
(* which is the order of the list.                                         *)
NewSession ==
  [made |-> FALSE, up |-> FALSE, healthy |-> FALSE, active |-> 0, idle_since |-> "none", epoch |-> 0, addresses |-> 0, pushed |-> 0,
   next_stream_id |-> 2, v2 |-> FALSE, commands |-> <<>>, streams |-> {}, pending |-> {}, remote_fin |-> {}, closing |-> {}]
NewCall ==
  [pc |-> "away", epoch |-> 0, candidates |-> {}, ses |-> NoSession, sid |-> 0, first |-> FALSE, ack |-> "none",
   tries |-> 0, addresses |-> -1, result |-> "none", data |-> FALSE, bridge |-> FALSE, releasing |-> FALSE]

PoolInit ==
  /\ net = [epoch |-> 0, resolved |-> 0, addresses |-> 0]
  /\ pool = {}
  /\ ses = [s \in SessionIds |-> NewSession]
  /\ call = [c \in Callers |-> NewCall]

(* A call that has returned keeps its result, and its stream while it has  *)
(* one.                                                                    *)
Done(c, result) ==
  [NewCall EXCEPT !.pc = "done", !.result = result, !.ses = IF call[c].bridge \/ call[c].releasing THEN call[c].ses ELSE NoSession,
                  !.sid = IF call[c].bridge \/ call[c].releasing THEN call[c].sid ELSE 0, !.bridge = call[c].bridge, !.data = call[c].data,
                  !.releasing = call[c].releasing]
CallIs(c, new) == call' = [call EXCEPT ![c] = new]
SesIs(s, new) == ses' = [ses EXCEPT ![s] = new]
At(c, pc) == call[c].pc = pc

-----------------------------------------------------------------------------
(* Session::shutdown; the command is lost when the queue is full.          *)
shutdown_of(session) ==
  [session EXCEPT !.healthy = FALSE,
     !.commands = IF session.up /\ Len(@) < COMMAND_QUEUE THEN Append(@, [k |-> "Shutdown", sid |-> 0]) ELSE @]

(* A command waits while the queue is full, and fails once the task ended. *)
CanSend(s) == ~ ses[s].up \/ Len(ses[s].commands) < COMMAND_QUEUE
Sent(session, k, sid) == IF session.up THEN [session EXCEPT !.commands = Append(@, [k |-> k, sid |-> sid])] ELSE session

network_changed(locked) ==
  /\ net.epoch < MaxEpoch
  /\ net' = [net EXCEPT !.epoch = @ + 1]
  /\ ses' = IF locked THEN ses ELSE [s \in SessionIds |-> IF s \in pool THEN shutdown_of(ses[s]) ELSE ses[s]]
  /\ UNCHANGED <<pool, call>>

(* The maintenance pass: idle sessions beyond the minimum are closed.      *)
idle_count == Cardinality({s \in pool : ses[s].healthy /\ ses[s].active = 0})
Ageing(s) == s \in pool /\ ses[s].healthy /\ ses[s].idle_since = "old"
Removed(s) ==
  Ageing(s) /\ Cardinality({x \in SessionIds : Ageing(x) /\ ses[x].pushed < ses[s].pushed}) < idle_count - min_idle_session
spawn_maintenance ==
  /\ pool # {}
  /\ ses' = [s \in SessionIds |-> IF Removed(s) THEN shutdown_of(ses[s]) ELSE ses[s]]
  /\ pool' = {s \in pool : ses'[s].healthy}
  /\ UNCHANGED <<net, call>>

IdleAges(s) ==
  /\ ses[s].idle_since = "fresh" /\ SesIs(s, [ses[s] EXCEPT !.idle_since = "old"])
  /\ UNCHANGED <<net, pool, call>>

-----------------------------------------------------------------------------
(* open_stream: first the healthy sessions of this network, newest first.  *)
Usable(s, epoch) == ses[s].epoch = epoch /\ ses[s].healthy

OpenStream(c) ==
  /\ At(c, "away")
  /\ CallIs(c, [NewCall EXCEPT !.pc = "select", !.epoch = net.epoch])
  /\ UNCHANGED <<net, pool, ses>>

SelectCandidates(c) ==
  /\ At(c, "select")
  /\ ses' = [s \in SessionIds |-> IF s \in pool /\ ~ Usable(s, call[c].epoch) THEN shutdown_of(ses[s]) ELSE ses[s]]
  /\ pool' = {s \in pool : Usable(s, call[c].epoch)}
  /\ CallIs(c, [call[c] EXCEPT !.pc = "reserve", !.candidates = pool'])
  /\ UNCHANGED net

(* try_reserve of the newest candidate, in two steps: the count, then the  *)
(* idle mark.                                                              *)
Newest(S) == CHOOSE s \in S : \A x \in S : ses[x].pushed <= ses[s].pushed
try_reserve(c) ==
  /\ At(c, "reserve") /\ call[c].candidates # {}
  /\ LET s == Newest(call[c].candidates)
         taken == ses[s].healthy /\ ses[s].active < MAX_STREAMS_PER_SESSION
     IN  IF taken
         THEN /\ SesIs(s, [ses[s] EXCEPT !.active = @ + 1])
              /\ CallIs(c, [call[c] EXCEPT !.pc = "unmark", !.ses = s, !.candidates = @ \ {s}])
         ELSE UNCHANGED ses /\ CallIs(c, [call[c] EXCEPT !.candidates = @ \ {s}])
  /\ UNCHANGED <<net, pool>>

ClearIdle(c) ==
  /\ At(c, "unmark")
  /\ SesIs(call[c].ses, [ses[call[c].ses] EXCEPT !.idle_since = "none", !.next_stream_id = (@ + 1) % STREAM_IDS])
  /\ CallIs(c, [call[c] EXCEPT !.pc = "open", !.sid = ses[call[c].ses].next_stream_id])
  /\ UNCHANGED <<net, pool>>

(* The session's ids are used up: the slot goes back and the session ends.  *)
ExhaustedIds(c) ==
  /\ At(c, "open") /\ call[c].sid = 0
  /\ LET session == ses[call[c].ses]
     IN  SesIs(call[c].ses, shutdown_of([session EXCEPT !.active = @ - 1, !.idle_since = IF session.active = 1 THEN "fresh" ELSE @]))
  /\ CallIs(c, [call[c] EXCEPT !.pc = "judge", !.ack = "ConnectionAborted"])
  /\ UNCHANGED <<net, pool>>

(* No candidate is left: the addresses of this network, then a dial.       *)
CachedAddresses(c) ==
  /\ At(c, "reserve") /\ call[c].candidates = {}
  /\ IF net.resolved = call[c].epoch
     THEN CallIs(c, [call[c] EXCEPT !.pc = "cached"])
     ELSE CallIs(c, [call[c] EXCEPT !.pc = "resolve"])
  /\ UNCHANGED <<net, pool, ses>>

ReadAddresses(c) ==
  /\ At(c, "cached") /\ CallIs(c, [call[c] EXCEPT !.pc = "dial", !.addresses = net.addresses])
  /\ UNCHANGED <<net, pool, ses>>

(* resolve_server_addresses runs on the network of the moment it answers.  *)
ResolveServer(c) ==
  /\ At(c, "resolve")
  /\ CallIs(c, [call[c] EXCEPT !.pc = "keep", !.addresses = net.epoch])
  /\ UNCHANGED <<net, pool, ses>>
ResolveFails(c) ==
  /\ At(c, "resolve") /\ CallIs(c, Done(c, "Unresolved"))
  /\ UNCHANGED <<net, pool, ses>>

KeepAddresses(c) ==
  /\ At(c, "keep")
  /\ IF net.epoch # call[c].epoch
     THEN CallIs(c, Done(c, "Interrupted")) /\ UNCHANGED net
     ELSE /\ CallIs(c, [call[c] EXCEPT !.pc = "dial"])
          /\ net' = [net EXCEPT !.addresses = call[c].addresses, !.resolved = call[c].epoch]
  /\ UNCHANGED <<pool, ses>>

(* connect_first, twice for the address: TCP, TLS and the authentication,  *)
(* then the session's task and its first stream.                           *)
Unmade == {s \in SessionIds : ~ ses[s].made}
MaySpawn == Unmade # {}
ConnectFirst(c) ==
  /\ At(c, "dial") /\ call[c].tries < 2 /\ MaySpawn
  /\ LET s == Least(Unmade)
     IN  /\ SesIs(s, [NewSession EXCEPT !.made = TRUE, !.up = TRUE, !.healthy = TRUE, !.active = 1, !.epoch = call[c].epoch,
                                        !.addresses = call[c].addresses])
         /\ CallIs(c, [call[c] EXCEPT !.pc = "open", !.ses = s, !.sid = 1, !.first = TRUE, !.tries = @ + 1])
  /\ UNCHANGED <<net, pool>>
ConnectFails(c) ==
  /\ At(c, "dial") /\ call[c].tries < 2
  /\ CallIs(c, [call[c] EXCEPT !.tries = @ + 1, !.result = "TimedOut"])
  /\ UNCHANGED <<net, pool, ses>>
GiveUp(c) ==
  /\ At(c, "dial") /\ call[c].tries = 2
  /\ CallIs(c, Done(c, call[c].result))
  /\ UNCHANGED <<net, pool, ses>>

(* open_reserved: the Open command, and the wait for its acknowledgement.  *)
SendOpen(c) ==
  /\ At(c, "open") /\ call[c].sid # 0 /\ CanSend(call[c].ses)
  /\ IF ses[call[c].ses].up
     THEN SesIs(call[c].ses, Sent(ses[call[c].ses], "Open", call[c].sid)) /\ CallIs(c, [call[c] EXCEPT !.pc = "ack", !.ack = "none"])
     ELSE UNCHANGED ses /\ CallIs(c, [call[c] EXCEPT !.pc = "failed", !.ack = "ConnectionAborted"])
  /\ UNCHANGED <<net, pool>>

Acknowledged(c) ==
  /\ At(c, "ack") /\ call[c].ack # "none"
  /\ CallIs(c, IF call[c].ack = "ok" THEN [call[c] EXCEPT !.pc = "opened", !.bridge = TRUE] ELSE [call[c] EXCEPT !.pc = "close"])
  /\ UNCHANGED <<net, pool, ses>>
SynAckTimesOut(c) ==
  /\ At(c, "ack")
  /\ CallIs(c, [call[c] EXCEPT !.pc = "close", !.ack = "TimedOut"])
  /\ UNCHANGED <<net, pool, ses>>
(* The caller's own timeout drops the future where it waits.               *)
Abandon(c) ==
  /\ call[c].pc \in {"open", "ack"} /\ call[c].sid # 0
  /\ CallIs(c, [call[c] EXCEPT !.pc = IF @ = "ack" THEN "close" ELSE "failed", !.ack = "abandoned"])
  /\ UNCHANGED <<net, pool, ses>>

(* OpenGuard's drop: the slot goes back, in two steps, the count and then  *)
(* the idle mark; a stream that was announced is closed by a spawned task. *)
Dropped(c, session) ==
  [session EXCEPT !.active = @ - 1, !.closing = IF At(c, "close") THEN @ \cup {call[c].sid} ELSE @]

(* Mutant: only a stream that was announced gives its slot back.           *)
DropGuard_opened(c) ==
  /\ call[c].pc \in {"close", "failed"}
  /\ LET s == call[c].ses
     IN  IF At(c, "close")
         THEN SesIs(s, Dropped(c, ses[s])) /\ CallIs(c, [call[c] EXCEPT !.pc = IF ses[s].active = 1 THEN "mark" ELSE "judge"])
         ELSE UNCHANGED ses /\ CallIs(c, [call[c] EXCEPT !.pc = "judge"])
  /\ UNCHANGED <<net, pool>>

DropGuard(c) ==
  /\ call[c].pc \in {"close", "failed"}
  /\ LET s == call[c].ses
     IN  SesIs(s, Dropped(c, ses[s])) /\ CallIs(c, [call[c] EXCEPT !.pc = IF ses[s].active = 1 THEN "mark" ELSE "judge"])
  /\ UNCHANGED <<net, pool>>
SpawnedClose(s, sid) ==
  /\ sid \in ses[s].closing /\ CanSend(s)
  /\ SesIs(s, [Sent(ses[s], "Close", sid) EXCEPT !.closing = @ \ {sid}])
  /\ UNCHANGED <<net, pool, call>>
MarkIdle(c) ==
  /\ At(c, "mark")
  /\ SesIs(call[c].ses, [ses[call[c].ses] EXCEPT !.idle_since = "fresh"])
  /\ CallIs(c, [call[c] EXCEPT !.pc = "judge"])
  /\ UNCHANGED <<net, pool>>

retryable_stream_open == {"TimedOut", "ConnectionAborted", "ConnectionReset", "BrokenPipe", "UnexpectedEof", "NotConnected"}

(* After a stream that did not open: the next candidate, the next dial, or *)
(* the error.                                                              *)
Judge(c) ==
  /\ At(c, "judge")
  /\ LET s == call[c].ses
         retry == ~ ses[s].healthy \/ call[c].ack \in retryable_stream_open
     IN  CASE call[c].ack = "abandoned" ->
                CallIs(c, Done(c, "abandoned")) /\ UNCHANGED ses
           [] call[c].ack # "abandoned" /\ call[c].first ->
                CallIs(c, [call[c] EXCEPT !.pc = "dial", !.ses = NoSession, !.sid = 0, !.ack = "none", !.result = call[c].ack]) /\ UNCHANGED ses
           [] call[c].ack # "abandoned" /\ ~ call[c].first /\ retry ->
                CallIs(c, [call[c] EXCEPT !.pc = "reserve", !.ses = NoSession, !.sid = 0, !.ack = "none"]) /\ SesIs(s, shutdown_of(ses[s]))
           [] OTHER ->
                CallIs(c, Done(c, call[c].ack)) /\ UNCHANGED ses
  /\ UNCHANGED <<net, pool>>

(* Mutant: the network is not looked at again.                             *)
HandOver_blind(c) ==
  /\ At(c, "opened")
  /\ CallIs(c, IF call[c].first THEN [call[c] EXCEPT !.pc = "push"] ELSE Done(c, "stream"))
  /\ UNCHANGED <<net, pool, ses>>

HandOver(c) ==
  /\ At(c, "opened")
  /\ IF net.epoch = call[c].epoch
     THEN CallIs(c, IF call[c].first THEN [call[c] EXCEPT !.pc = "push"] ELSE Done(c, "stream"))
          /\ UNCHANGED ses
     ELSE CallIs(c, Done(c, "Interrupted")) /\ SesIs(call[c].ses, shutdown_of(ses[call[c].ses]))
  /\ UNCHANGED <<net, pool>>

Push(c) ==
  /\ At(c, "push")
  /\ pool' = pool \cup {call[c].ses}
  /\ SesIs(call[c].ses, [ses[call[c].ses] EXCEPT !.pushed = 1 + Cardinality({s \in SessionIds : ses[s].pushed # 0})])
  /\ CallIs(c, Done(c, "stream"))
  /\ UNCHANGED net

-----------------------------------------------------------------------------
(* bridge_stream of an open stream: application bytes become Data; it ends *)
(* when the application has gone, or when the session dropped the stream;  *)
(* then Close unless the server finished first, and the slot.              *)
BridgeSends(c) ==
  /\ call[c].bridge /\ ~ call[c].data /\ CanSend(call[c].ses)
  /\ SesIs(call[c].ses, Sent(ses[call[c].ses], "Data", call[c].sid))
  /\ CallIs(c, [call[c] EXCEPT !.data = TRUE])
  /\ UNCHANGED <<net, pool>>

BridgeEnds(c) ==
  /\ call[c].bridge
  /\ At(c, "done") \/ call[c].sid \notin ses[call[c].ses].streams
  /\ LET s == call[c].ses
         finished == call[c].sid \in ses[s].remote_fin
     IN  /\ finished \/ CanSend(s)
         /\ SesIs(s, IF finished THEN ses[s] ELSE Sent(ses[s], "Close", call[c].sid))
  /\ CallIs(c, [call[c] EXCEPT !.bridge = FALSE, !.releasing = TRUE])
  /\ UNCHANGED <<net, pool>>
BridgeReleases(c) ==
  /\ call[c].releasing /\ At(c, "done")
  /\ LET s == call[c].ses
     IN  SesIs(s, [ses[s] EXCEPT !.active = @ - 1])
         /\ CallIs(c, IF ses[s].active = 1 THEN [call[c] EXCEPT !.releasing = FALSE, !.pc = "bridge_mark"] ELSE [NewCall EXCEPT !.pc = "gone"])
  /\ UNCHANGED <<net, pool>>
BridgeMarks(c) ==
  /\ At(c, "bridge_mark")
  /\ SesIs(call[c].ses, [ses[call[c].ses] EXCEPT !.idle_since = "fresh"])
  /\ CallIs(c, [NewCall EXCEPT !.pc = "gone"])
  /\ UNCHANGED <<net, pool>>

-----------------------------------------------------------------------------
(* run_session: one command or one frame at a time.  A task that ends      *)
(* marks the session, fails the pending streams, and drops the rest.       *)
Answers(s, sids, answer) ==
  [c \in Callers |-> IF At(c, "ack") /\ call[c].ses = s /\ call[c].sid \in sids /\ call[c].ack = "none"
                     THEN [call[c] EXCEPT !.ack = answer] ELSE call[c]]

Waiting(s) == ses[s].pending \cup {m.sid : m \in {x \in Range(ses[s].commands) : x.k = "Open"}}
TaskEnds(s, kind) ==
  /\ SesIs(s, [ses[s] EXCEPT !.up = FALSE, !.healthy = FALSE, !.commands = <<>>, !.streams = {}, !.pending = {}, !.v2 = FALSE])
  /\ call' = [c \in Callers |-> IF call[c].sid \in ses[s].pending THEN Answers(s, ses[s].pending, kind)[c]
                                 ELSE Answers(s, Waiting(s), "ConnectionAborted")[c]]

TakeCommand(s, written) ==
  /\ ses[s].up /\ ses[s].commands # <<>>
  /\ LET m == Head(ses[s].commands)
         rest == [ses[s] EXCEPT !.commands = Tail(@)]
     IN  CASE m.k = "Shutdown" -> written /\ TaskEnds(s, "ConnectionAborted")
           [] m.k # "Shutdown" /\ ~ written -> TaskEnds(s, "BrokenPipe")
           [] m.k = "Open" /\ written ->
                SesIs(s, [rest EXCEPT !.streams = @ \cup {m.sid}, !.pending = @ \cup {m.sid}]) /\ UNCHANGED call
           [] m.k = "Data" /\ written -> SesIs(s, rest) /\ UNCHANGED call
           [] m.k = "Close" /\ written ->
                /\ SesIs(s, [rest EXCEPT !.streams = @ \ {m.sid}, !.pending = @ \ {m.sid}])
                /\ call' = Answers(s, ses[s].pending \cap {m.sid}, "ConnectionAborted")
  /\ UNCHANGED <<net, pool>>

(* Every sender is gone: recv returns None.                                *)
Owned(s) ==
  \/ s \in pool \/ ses[s].closing # {} \/ ses[s].commands # <<>>
  \/ \E c \in Callers : call[c].ses = s \/ s \in call[c].candidates
SessionUnowned(s) == ses[s].up /\ ~ Owned(s) /\ TaskEnds(s, "ConnectionAborted") /\ UNCHANGED <<net, pool>>

ServerSettings(s, version) ==
  /\ ses[s].up /\ SesIs(s, [ses[s] EXCEPT !.v2 = version >= 2])
  /\ UNCHANGED <<net, pool, call>>

(* A SYNACK before the settings of version 2 ends the session.             *)
SynAck(s, sid, accepted) ==
  /\ ses[s].up /\ sid \in ses[s].pending
  /\ CASE ~ ses[s].v2 -> TaskEnds(s, "InvalidData")
       [] ses[s].v2 /\ accepted -> SesIs(s, [ses[s] EXCEPT !.pending = @ \ {sid}]) /\ call' = Answers(s, {sid}, "ok")
       [] ses[s].v2 /\ ~ accepted ->
            SesIs(s, [ses[s] EXCEPT !.pending = @ \ {sid}, !.streams = @ \ {sid}]) /\ call' = Answers(s, {sid}, "ConnectionRefused")
  /\ UNCHANGED <<net, pool>>

(* PSH into a full queue drops the stream, never the session.              *)
PushOverflows(s, sid) ==
  /\ ses[s].up /\ sid \in ses[s].streams
  /\ SesIs(s, [ses[s] EXCEPT !.streams = @ \ {sid}])
  /\ UNCHANGED <<net, pool, call>>

Fin(s, sid) ==
  /\ ses[s].up /\ sid \in ses[s].streams
  /\ SesIs(s, [ses[s] EXCEPT !.streams = @ \ {sid}, !.pending = @ \ {sid}, !.remote_fin = @ \cup {sid}])
  /\ call' = Answers(s, {sid} \cap ses[s].pending, "ConnectionRefused")
  /\ UNCHANGED <<net, pool>>

(* An alert, a frame no server sends, or the end of the connection.        *)
SessionFails(s, kind) == ses[s].up /\ TaskEnds(s, kind) /\ UNCHANGED <<net, pool>>

CallStep(c) ==
  \/ SelectCandidates(c) \/ try_reserve(c) \/ ClearIdle(c) \/ ExhaustedIds(c) \/ CachedAddresses(c) \/ ReadAddresses(c)
  \/ ResolveServer(c) \/ ResolveFails(c) \/ KeepAddresses(c) \/ ConnectFirst(c) \/ ConnectFails(c) \/ GiveUp(c)
  \/ SendOpen(c) \/ Acknowledged(c) \/ SynAckTimesOut(c) \/ DropGuard(c) \/ MarkIdle(c) \/ Judge(c) \/ HandOver(c) \/ Push(c)
BridgeStep(c) == BridgeEnds(c) \/ BridgeReleases(c) \/ BridgeMarks(c)
TaskStep(s) == TakeCommand(s, TRUE) \/ SessionUnowned(s) \/ \E sid \in 1 .. STREAM_IDS - 1 : SpawnedClose(s, sid)

AnyTlsNext ==
  \/ \E c \in Callers : OpenStream(c) \/ CallStep(c) \/ BridgeStep(c) \/ Abandon(c) \/ BridgeSends(c)
  \/ \E locked \in BOOLEAN : network_changed(locked)
  \/ spawn_maintenance
  \/ \E s \in SessionIds :
       \/ IdleAges(s) \/ TaskStep(s) \/ TakeCommand(s, FALSE)
       \/ \E version \in 1 .. 2 : ServerSettings(s, version)
       \/ \E sid \in 1 .. STREAM_IDS - 1 : (\E accepted \in BOOLEAN : SynAck(s, sid, accepted)) \/ PushOverflows(s, sid) \/ Fin(s, sid)
       \/ \E kind \in {"UnexpectedEof", "InvalidData", "ConnectionReset"} : SessionFails(s, kind)
-----------------------------------------------------------------------------
(* PaddingScheme: the steps of a packet, a range <<low, high>> or a check. *)
(* A line of a scheme is its key, STOP or the index of a packet, and its   *)
(* value; numbers that do not parse are left out.                          *)
STOP == -1
MAX_PACKET_INDEX == 63
MAX_STEPS == 32
MAX_TLS_PLAINTEXT == 16384
CHECK == <<>>
ValidStep(step) == step = CHECK \/ (step[1] # 0 /\ step[1] <= step[2] /\ step[2] <= MAX_TLS_PLAINTEXT)

PaddingScheme_parse(lines) ==
  LET stops == SelectSeq(lines, LAMBDA l : l.key = STOP)
      packets == SelectSeq(lines, LAMBDA l : l.key # STOP)
      ok ==
        /\ Len(stops) = 1 /\ stops[1].value \in 1 .. MAX_PACKET_INDEX + 1
        /\ \A i, j \in DOMAIN packets : packets[i].key = packets[j].key => i = j
        /\ \A l \in Range(packets) :
             /\ l.key <= MAX_PACKET_INDEX /\ l.key < stops[1].value
             /\ Len(l.value) \in 1 .. MAX_STEPS /\ l.value[1] # CHECK /\ \A step \in Range(l.value) : ValidStep(step)
  IN  IF ok THEN [ok |-> TRUE, stop |-> stops[1].value, packets |-> {<<l.key, l.value>> : l \in Range(packets)}]
      ELSE [ok |-> FALSE, stop |-> 0, packets |-> {}]

StepsOf(scheme, index) == {p[2] : p \in {x \in scheme.packets : x[1] = index}}

(* A chunk is how many payload bytes it carries and how long it is; the    *)
(* rest of it is one waste frame with its header.  size is the length      *)
(* drawn in a range.                                                       *)
(* Mutant: waste fills up a chunk whatever room is left.                   *)
chunk_always(taken, target, header) == [data |-> taken, length |-> target]
chunk_of(taken, target, header) ==
  [data |-> taken, length |-> IF taken < target /\ target - taken >= header THEN target ELSE taken]

Step(acc, step, size, payload, header) ==
  IF acc.over THEN acc
  ELSE IF step = CHECK THEN [acc EXCEPT !.over = acc.offset = payload]
  ELSE LET taken == IF payload - acc.offset < size[step] THEN payload - acc.offset ELSE size[step]
           chunk == chunk_of(taken, size[step], header)
       IN  [acc EXCEPT !.offset = @ + taken, !.chunks = IF chunk.length = 0 THEN @ ELSE Append(@, chunk)]

packet_chunks(scheme, index, payload, size, header) ==
  IF index >= scheme.stop \/ StepsOf(scheme, index) = {} THEN <<[data |-> payload, length |-> payload]>>
  ELSE LET steps == CHOOSE x \in StepsOf(scheme, index) : TRUE
           after[n \in 0 .. Len(steps)] ==
             IF n = 0 THEN [offset |-> 0, chunks |-> <<>>, over |-> FALSE] ELSE Step(after[n - 1], steps[n], size, payload, header)
           run == after[Len(steps)]
           all == IF run.offset < payload THEN Append(run.chunks, [data |-> payload - run.offset, length |-> payload - run.offset]) ELSE run.chunks
       IN  IF all = <<>> THEN <<[data |-> 0, length |-> 0]>> ELSE all

auth_padding_length(scheme, size) ==
  IF StepsOf(scheme, 0) = {} THEN 0 ELSE size[(CHOOSE x \in StepsOf(scheme, 0) : TRUE)[1]]

-----------------------------------------------------------------------------
(* NaiveProxy: H2Pool and multiplexed_connect.  Connections are made one   *)
(* at a time, under the lock, so the list is in the order of their numbers.*)
H2Ids == 1 .. MaxSessions
NewH2 ==
  [live |-> {}, lock |-> 0,
   conn |-> [s \in H2Ids |-> [made |-> FALSE, limit |-> 0, in_flight |-> 0, retired |-> FALSE]],
   call |-> [c \in Callers |-> [pc |-> "away", tries |-> 0, conn |-> 0, result |-> "none"]]]

H2At(c, pc) == h2.call[c].pc = pc
Leasable(conn) == conn.in_flight < conn.limit /\ ~ conn.retired
H2Goes(h, c, pc) == [h EXCEPT !.call[c].pc = pc]
Leased(h, c, s) == [h EXCEPT !.conn[s].in_flight = @ + 1, !.call[c].conn = s, !.call[c].pc = "request"]
DropLease(h, c) ==
  IF h.call[c].conn = 0 THEN h ELSE [h EXCEPT !.conn[h.call[c].conn].in_flight = @ - 1, !.call[c].conn = 0]
Unlock(h, c) == IF h.lock = c THEN [h EXCEPT !.lock = 0] ELSE h

(* The next attempt, or the last error when there is none.                 *)
Lost(h, c) ==
  IF h.call[c].tries < MAX_CONNECT_ATTEMPTS THEN [h EXCEPT !.call[c].pc = "reserve", !.call[c].tries = @ + 1]
  ELSE [h EXCEPT !.call[c].pc = "done", !.call[c].result = "lost"]

(* reserve, under the list's lock; what is done when nothing is leased is  *)
(* the caller's.                                                           *)
reserve(c, otherwise) ==
  LET live == {s \in h2.live : ~ h2.conn[s].retired}
      room == {s \in live : Leasable(h2.conn[s])}
      kept == [h2 EXCEPT !.live = live]
  IN  IF room = {} THEN H2Goes(kept, c, otherwise) ELSE Unlock(Leased(kept, c, Least(room)), c)

NaiveConnect(c) == H2At(c, "away") /\ h2' = [h2 EXCEPT !.call[c] = [pc |-> "reserve", tries |-> 1, conn |-> 0, result |-> "none"]]
Acquire(c) == H2At(c, "reserve") /\ h2' = reserve(c, "lock")
LockConnecting(c) == H2At(c, "lock") /\ h2.lock = 0 /\ h2' = [H2Goes(h2, c, "again") EXCEPT !.lock = c]
AcquireAgain(c) == H2At(c, "again") /\ h2' = reserve(c, "connect")

(* dial and establish; the driver's limit is the assumed one at first.     *)
H2Unmade == {s \in H2Ids : ~ h2.conn[s].made}
Dial(c, limit) ==
  /\ H2At(c, "connect") /\ H2Unmade # {}
  /\ LET s == Least(H2Unmade)
     IN  h2' = [h2 EXCEPT !.conn[s] = [made |-> TRUE, limit |-> limit, in_flight |-> 0, retired |-> FALSE],
                          !.call[c].pc = "lease", !.call[c].result = "none", !.call[c].conn = 0, !.lock = -s]
DialFails(c, lost) ==
  /\ H2At(c, "connect")
  /\ h2' = IF lost THEN Lost(Unlock(h2, c), c) ELSE [Unlock(h2, c) EXCEPT !.call[c].pc = "done", !.call[c].result = "error"]

(* The new connection's first lease, then the list; the lock goes last.    *)
LeaseFirst(c) ==
  /\ H2At(c, "lease")
  /\ LET s == -h2.lock
     IN  h2' = IF Leasable(h2.conn[s]) THEN [Leased(h2, c, s) EXCEPT !.live = @ \cup {s}, !.lock = 0]
               ELSE Lost([h2 EXCEPT !.lock = 0], c)

(* open_stream: the CONNECT and its answer.                                *)
Tunnel(c) == H2At(c, "request") /\ h2' = [H2Goes(h2, c, "open") EXCEPT !.call[c].result = "stream"]
RequestLost(c) ==
  H2At(c, "request") /\ h2' = Lost(DropLease([h2 EXCEPT !.conn[h2.call[c].conn].retired = TRUE], c), c)
RequestRefused(c) == H2At(c, "request") /\ h2' = [DropLease(h2, c) EXCEPT !.call[c].pc = "done", !.call[c].result = "refused"]

(* connect_stream's timeout drops the future: its lease and its lock.      *)
NaiveTimesOut(c) ==
  /\ h2.call[c].pc \in {"lock", "again", "connect", "lease", "request"}
  /\ h2' = [DropLease([h2 EXCEPT !.lock = IF @ = c \/ H2At(c, "lease") THEN 0 ELSE @], c) EXCEPT !.call[c].pc = "done", !.call[c].result = "TimedOut"]
TunnelCloses(c) == h2.call[c].pc \in {"open", "done"} /\ h2' = [DropLease(h2, c) EXCEPT !.call[c].pc = "away"]

(* The driver publishes the peer's limit, and its own end.                 *)
establish_limit(s, limit) == h2.conn[s].made /\ h2' = [h2 EXCEPT !.conn[s].limit = limit]
establish_closed(s) == h2.conn[s].made /\ h2' = [h2 EXCEPT !.conn[s].retired = TRUE]

NaiveStep(c) ==
  \/ NaiveConnect(c) \/ Acquire(c) \/ LockConnecting(c) \/ AcquireAgain(c) \/ LeaseFirst(c) \/ Tunnel(c) \/ RequestLost(c)
  \/ RequestRefused(c) \/ NaiveTimesOut(c) \/ TunnelCloses(c) \/ \E lost \in BOOLEAN : DialFails(c, lost)

NaiveNext ==
  \/ \E c \in Callers : NaiveStep(c) \/ \E limit \in Nat : Dial(c, limit)
  \/ \E s \in H2Ids : establish_closed(s) \/ \E limit \in Nat : establish_limit(s, limit)

-----------------------------------------------------------------------------
(* The outbounds of one engine, side by side.                              *)
MuxInit == QuicInit /\ PoolInit /\ h2 = NewH2
MuxNext ==
  \/ QuicNext /\ UNCHANGED muxVars
  \/ AnyTlsNext /\ UNCHANGED <<quicVars, h2>>
  \/ NaiveNext /\ UNCHANGED <<quicVars, anytlsVars>>
MuxSpec == MuxInit /\ [][MuxNext]_<<quicVars, muxVars>>

-----------------------------------------------------------------------------
HoldsSlot(c) == call[c].pc \in {"unmark", "open", "ack", "close", "failed", "opened", "push"} \/ call[c].bridge \/ call[c].releasing
Holders(s) == {c \in Callers : call[c].ses = s /\ HoldsSlot(c)}
Leaseholders(s) == {c \in Callers : h2.call[c].conn = s}

(* No slot is lost or given back twice: the count of an AnyTLS session is  *)
(* the streams that hold one of its slots, whatever way an open ended, and *)
(* the count of an HTTP/2 connection is its leases.                        *)
SlotsBalance ==
  /\ \A s \in SessionIds : ses[s].active = Cardinality(Holders(s))
  /\ \A s \in H2Ids : h2.conn[s].in_flight = Cardinality(Leaseholders(s))

(* open_stream accepts a stream only if no network change overtook it, and *)
(* then its session was dialled to addresses resolved on this network.     *)
AcceptedOnItsNetwork ==
  \A c \in Callers : At(c, "opened") /\ (call'[c].pc = "push" \/ call'[c].result = "stream") =>
     ses[call[c].ses].epoch = net.epoch /\ ses[call[c].ses].addresses = net.epoch

(* A flow is handed a connection of the network it was asked on, by the    *)
(* QUIC supervisors and by the AnyTLS pool, wherever a change falls.       *)
SessionsOfThisNetwork == [][HandedThisNetwork /\ AcceptedOnItsNetwork]_<<quicVars, muxVars>>

(* Splitting a packet into padded chunks loses and reorders nothing: the   *)
(* chunks carry the payload, no chunk is left room for a broken waste      *)
(* frame, and none but the last with data carries any waste.               *)
ChunksCarry(chunks, payload, header) ==
  /\ FoldFunction(+, 0, [i \in DOMAIN chunks |-> chunks[i].data]) = payload
  /\ \A i \in DOMAIN chunks : chunks[i].length > chunks[i].data =>
       chunks[i].length - chunks[i].data >= header /\ \A j \in i + 1 .. Len(chunks) : chunks[j].data = 0
=============================================================================
