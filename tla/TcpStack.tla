------------------------------ MODULE TcpStack ------------------------------
(***************************************************************************)
(* foxcore-tun/src/netstack: the actor that owns smoltcp, the TCP flows it  *)
(* admits, and the half of each flow that an application task holds.       *)
(*                                                                         *)
(* A flow is an incarnation: its TcpSession (actor side), its TcpControl   *)
(* (shared atomics) and its TcpFlow (application side) in one record.  The *)
(* actor's loop is a program counter; one action is one item of a phase.   *)
(* The application's calls are split at their atomic operations.  smoltcp  *)
(* is external: a socket is a connection state, the tuple it is bound to   *)
(* and its receive queue, and packets arrive in sequence.  Bytes are       *)
(* counted, a chunk from the application is CHUNK of them.                 *)
(***************************************************************************)
EXTENDS Naturals, Sequences, FiniteSets, SequencesExt, Integers

CONSTANTS Tuples, UdpTuples,   \* source and destination of a flow
          Dst,                 \* tuple -> destination
          Conns, NoConn,       \* incarnations
          MAX_TCP_SESSIONS, MAX_SESSIONS, ACCEPT_DEPTH, TCP_MEMORY_BUDGET,
          PACKET_QUEUE_DEPTH, TCP_COMMANDS_PER_TICK, TCP_PACKETS_PER_TICK, TCP_FLOWS_PER_TICK,
          CHUNK

VARIABLES conn,        \* incarnation -> session, control and stream
          sock,        \* incarnation -> smoltcp socket
          tcp_flows,   \* tuple -> incarnation
          udp_sessions,\* tuples with a datagram session, and those whose task has ended
          commands,    \* tcp_command_tx, depth MAX_TCP_SESSIONS
          device,      \* PacketDevice: packets in, number of packets out
          accept,      \* the accept queue, and the permits reserved in it
          memory,      \* tcp_memory_bytes, in flows
          actor        \* the actor's loop
tcpVars == <<conn, sock, tcp_flows, udp_sessions, commands, device, accept, memory, actor>>

None == "none"
Unborn == [tuple |-> None, slot |-> 0, live |-> FALSE, published |-> FALSE, late |-> FALSE, time_wait |-> None,
           to_application |-> FALSE, read_rx |-> 0, write_rx |-> 0, pending_write |-> 0,
           scheduled |-> FALSE, reset_requested |-> FALSE, close_requested |-> FALSE, dropped |-> FALSE,
           closed |-> FALSE, queued |-> 0, flush_waker |-> FALSE, shutdown_waker |-> FALSE,
           app |-> None, then |-> None,
           written |-> 0, sent |-> 0, got |-> 0, told |-> FALSE, asked |-> FALSE]
NoSocket == [state |-> "closed", peer |-> None, recv_queue |-> 0, heard |-> 0]

Live == {c \in Conns : conn[c].live}
Flow(t) == tcp_flows[t]
Ingress == device.ingress
CanEgress == device.egress < PACKET_QUEUE_DEPTH
Goto(pc) == actor' = [actor EXCEPT !.pc = pc]

TcpInit ==
    /\ conn = [c \in Conns |-> Unborn] /\ sock = [c \in Conns |-> NoSocket]
    /\ tcp_flows = [t \in Tuples |-> NoConn] /\ udp_sessions = [live |-> {}, ended |-> {}]
    /\ commands = <<>> /\ device = [ingress |-> <<>>, egress |-> 0]
    /\ accept = [queue |-> <<>>, reserved |-> 0] /\ memory = 0
    /\ actor = [pc |-> "egress", left |-> 0, work |-> FALSE, scan_tcp |-> FALSE, scan |-> {},
                flow |-> NoConn, ret |-> "egress", saw |-> FALSE]

-----------------------------------------------------------------------------
(* smoltcp (external)                                                       *)

(* Socket::abort: closed at once; the reset leaves with the next egress.    *)
Abort(s) == [s EXCEPT !.state = "closed"]
(* Socket::close: a FIN after what was sent. *)
Close(s) ==
    [s EXCEPT !.state = CASE @ \in {"established", "syn_received"} -> "fin_wait"
                          [] @ = "close_wait" -> "last_ack"
                          [] @ = "listen" -> "closed"
                          [] OTHER -> @]
MayRecv(s) == s.state \in {"established", "fin_wait"} \/ s.recv_queue > 0

(* One segment at a socket that takes it. *)
Segment(s, t, kind) ==
    CASE s.state = "listen"                                   -> [s EXCEPT !.state = "syn_received", !.peer = t]
      [] s.state = "syn_received" /\ kind = "ack"             -> [s EXCEPT !.state = "established"]
      [] s.state = "syn_received" /\ kind = "rst"             -> [s EXCEPT !.state = "listen", !.peer = None]
      [] s.state \in {"established", "fin_wait"} /\ kind = "data" ->
            [s EXCEPT !.recv_queue = @ + 1, !.heard = @ + 1]
      [] s.state = "established" /\ kind = "fin"              -> [s EXCEPT !.state = "close_wait"]
      [] s.state = "fin_wait" /\ kind = "fin"                 -> [s EXCEPT !.state = "time_wait"]
      [] s.state = "last_ack" /\ kind = "ack"                 -> [s EXCEPT !.state = "closed", !.peer = None]
      [] kind = "rst"                                         -> [s EXCEPT !.state = "closed", !.peer = None]
      [] OTHER -> s

(* The sockets that take a segment: the one bound to its tuple, and every   *)
(* listener on its destination for a SYN.  The first in the set gets it.    *)
Takers(t, kind) ==
    {c \in Live : \/ sock[c].peer = t /\ sock[c].state # "closed"
                  \/ sock[c].state = "listen" /\ kind = "syn" /\ Dst[conn[c].tuple] = Dst[t]}
First(cs) == CHOOSE c \in cs : \A d \in cs : conn[c].slot <= conn[d].slot

-----------------------------------------------------------------------------
(* TcpControl                                                               *)

(* schedule: the flag first, then the command; a full queue kills the flow. *)
ScheduleTry(c) ==
    /\ conn[c].app = "schedule"
    /\ IF conn[c].scheduled THEN UNCHANGED commands /\ conn' = [conn EXCEPT ![c].app = conn[c].then]
       ELSE /\ conn' = [conn EXCEPT ![c].scheduled = TRUE, ![c].app = "send"] /\ UNCHANGED commands
    /\ UNCHANGED <<sock, tcp_flows, udp_sessions, device, accept, memory, actor>>
ScheduleSend(c) ==
    /\ conn[c].app = "send"
    /\ IF Len(commands) < MAX_TCP_SESSIONS /\ actor.pc # "stopped"
       THEN commands' = Append(commands, conn[c].tuple) /\ conn' = [conn EXCEPT ![c].app = conn[c].then]
       ELSE /\ conn' = [conn EXCEPT ![c].dropped = TRUE, ![c].closed = TRUE, ![c].app = conn[c].then,
                                    ![c].flush_waker = FALSE, ![c].shutdown_waker = FALSE]
            /\ UNCHANGED commands
    /\ UNCHANGED <<sock, tcp_flows, udp_sessions, device, accept, memory, actor>>
schedule(c) == ScheduleTry(c) \/ ScheduleSend(c)

(* TcpControl::close and the drop of the session's fields: whoever waits is  *)
(* woken, a permit that was never used goes back.                           *)
Dropped(k) == [k EXCEPT !.live = FALSE, !.closed = TRUE, !.flush_waker = FALSE, !.shutdown_waker = FALSE,
                        !.to_application = FALSE, !.write_rx = 0, !.pending_write = 0]

-----------------------------------------------------------------------------
(* TcpFlow: what the task that holds the stream does.                       *)

AppKeeps == UNCHANGED <<sock, tcp_flows, udp_sessions, commands, device, accept, memory, actor>>
App(c, from, k) == conn[c].app = from /\ conn' = [conn EXCEPT ![c] = k] /\ AppKeeps
Later(k, then) == [k EXCEPT !.app = "schedule", !.then = then]
Set(k, pc) == [k EXCEPT !.app = pc]

(* FlowStack::accept hands the flow to a task; NoConn stands for a datagram  *)
(* flow and for the report of a refusal.                                    *)
accept_flow ==
    /\ accept.queue # <<>>
    /\ conn' = IF Head(accept.queue) = NoConn THEN conn ELSE [conn EXCEPT ![Head(accept.queue)].app = "idle"]
    /\ accept' = [accept EXCEPT !.queue = Tail(@)]
    /\ UNCHANGED <<sock, tcp_flows, udp_sessions, commands, device, memory, actor>>

(* poll_read: a whole chunk is consumed, and the actor is asked for more; an *)
(* empty channel without a sender is the end of the stream.                 *)
poll_read(c) ==
    \/ conn[c].read_rx > 0 /\ App(c, "idle", Later([conn[c] EXCEPT !.got = @ + conn[c].read_rx, !.read_rx = 0], "idle"))
    \/ /\ conn[c].read_rx = 0 /\ ~conn[c].to_application /\ ~conn[c].told
       /\ App(c, "idle", [conn[c] EXCEPT !.told = TRUE])

(* poll_write: the bytes are counted before they are in the channel. *)
poll_write(c) ==
    \/ /\ ~conn[c].closed /\ ~conn[c].dropped /\ ~conn[c].asked /\ conn[c].write_rx = 0
       /\ App(c, "idle", [conn[c] EXCEPT !.queued = @ + CHUNK, !.app = "writing"])
    \/ IF conn[c].live
       THEN App(c, "writing", Later([conn[c] EXCEPT !.written = @ + CHUNK, !.write_rx = CHUNK], "idle"))
       ELSE App(c, "writing", [conn[c] EXCEPT !.queued = @ - CHUNK, !.app = "idle"])

(* poll_flush: registers its waker and looks at the bytes again. *)
poll_flush(c) ==
    \/ conn[c].queued > 0 /\ ~conn[c].closed /\ App(c, "idle", Set(conn[c], "flushing"))
    \/ App(c, "flushing", [conn[c] EXCEPT !.flush_waker = TRUE, !.app = "flushing_again"])
    \/ App(c, "flushing_again", IF conn[c].queued = 0 THEN [conn[c] EXCEPT !.flush_waker = FALSE, !.app = "idle"]
                                                     ELSE Set(conn[c], "flush_sleeps"))
    \/ ~conn[c].flush_waker /\ App(c, "flush_sleeps", Set(conn[c], "idle"))

(* poll_shutdown: asks for the close, registers its waker, schedules, and    *)
(* looks again.                                                             *)
(* Mutant: it does not look again. *)
poll_shutdown_once(c) ==
    \/ ~conn[c].closed /\ App(c, "idle", [conn[c] EXCEPT !.close_requested = TRUE, !.asked = TRUE, !.app = "closing"])
    \/ App(c, "closing", Later([conn[c] EXCEPT !.shutdown_waker = TRUE], "shutdown_sleeps"))
    \/ ~conn[c].shutdown_waker /\ App(c, "shutdown_sleeps", Set(conn[c], "idle"))
poll_shutdown(c) ==
    \/ ~conn[c].closed /\ App(c, "idle", [conn[c] EXCEPT !.close_requested = TRUE, !.asked = TRUE, !.app = "closing"])
    \/ App(c, "closing", Later([conn[c] EXCEPT !.shutdown_waker = TRUE], "closing_again"))
    \/ App(c, "closing_again", IF conn[c].closed THEN [conn[c] EXCEPT !.shutdown_waker = FALSE, !.app = "idle"]
                                                ELSE Set(conn[c], "shutdown_sleeps"))
    \/ ~conn[c].shutdown_waker /\ App(c, "shutdown_sleeps", Set(conn[c], "idle"))

reset(c) == App(c, "idle", IF conn[c].closed THEN Set(conn[c], "resetting")
                           ELSE Later([conn[c] EXCEPT !.reset_requested = TRUE], "resetting"))
(* The drop of a TcpFlow; close_towards_app drops one that still waits. *)
drop_flow(c) ==
    \/ /\ conn[c].app \in {"idle", "shutdown_sleeps", "resetting"}
       /\ conn' = [conn EXCEPT ![c] = IF conn[c].closed THEN Set(conn[c], "gone")
                                      ELSE Later([conn[c] EXCEPT !.dropped = TRUE], "gone")]
       /\ AppKeeps

AppStep(c) == poll_read(c) \/ poll_write(c) \/ poll_flush(c) \/ poll_shutdown(c) \/ reset(c) \/ drop_flow(c) \/ schedule(c)

-----------------------------------------------------------------------------
(* The actor: servicing one flow                                            *)

Service(c, ret) ==
    IF c = NoConn THEN [actor EXCEPT !.pc = ret, !.work = TRUE]
                  ELSE [actor EXCEPT !.pc = "service", !.flow = c, !.ret = ret, !.work = TRUE]

HandshakeExpired(k, s) == ~k.published /\ s.state # "established" /\ k.late

(* A flow that is reset, dropped or half-open for too long is aborted. *)
AbortIfAsked(k, s) == IF k.reset_requested \/ k.dropped \/ HandshakeExpired(k, s) THEN Abort(s) ELSE s

Publishes(k, s) == s.state = "established" /\ ~k.published

(* One chunk to the application, if its channel has room; a receiver that    *)
(* is gone aborts the socket.                                               *)
Receives(k, s) == s.recv_queue > 0 /\ k.to_application /\ k.app # "gone" /\ k.read_rx = 0
Unheard(k, s) == s.recv_queue > 0 /\ k.to_application /\ k.app = "gone"
Heard(k, s) == IF Unheard(k, s) THEN Abort(s) ELSE [s EXCEPT !.recv_queue = IF Receives(k, s) THEN @ - 1 ELSE @]

(* What is taken from the channel and sent: n bytes find room.  A send fails *)
(* only in a state where can_send is false, which is asked right before it: *)
(* the abort after a failed send is never reached.                          *)
Taken(k, n) == [k EXCEPT !.queued = @ - n, !.sent = @ + n,
                         !.pending_write = IF n <= @ THEN @ - n ELSE @ + k.write_rx - n,
                         !.write_rx = IF n <= k.pending_write THEN @ ELSE 0,
                         !.flush_waker = @ /\ ~(n > 0 /\ k.queued = n)]
Room(k, s) == IF s.state \in {"established", "close_wait"} THEN 0 .. (k.pending_write + k.write_rx) ELSE {0}

(* service_tcp_flow up to the sends. *)
service_tcp_flow ==
    /\ actor.pc = "service"
    /\ \E c \in {actor.flow} : \E s \in {AbortIfAsked(conn[c], sock[c])} :
         \E k \in {[conn[c] EXCEPT !.reset_requested = FALSE, !.published = @ \/ Publishes(conn[c], s),
                                   !.app = IF Publishes(conn[c], s) THEN "accepted" ELSE @]} :
           \E n \in Room(k, Heard(k, s)) :
             /\ conn' = [conn EXCEPT ![c] = Taken([k EXCEPT !.read_rx = IF Receives(k, s) THEN 1 ELSE @], n)]
             /\ sock' = [sock EXCEPT ![c] = Heard(k, s)]
             /\ accept' = IF Publishes(conn[c], s)
                          THEN [queue |-> Append(accept.queue, c), reserved |-> accept.reserved - 1] ELSE accept
    /\ Goto("close_requested")
    /\ UNCHANGED <<tcp_flows, udp_sessions, commands, device, memory>>

(* The request to close is read first, the queued bytes after it. *)
load_close_requested ==
    /\ actor.pc = "close_requested"
    /\ actor' = [actor EXCEPT !.pc = "reap", !.saw = conn[actor.flow].close_requested]
    /\ UNCHANGED <<conn, sock, tcp_flows, udp_sessions, commands, device, accept, memory>>

(* Mutant: a chunk that is half sent does not hold the FIN back. *)
Closing_eager(k, s) == IF actor.saw /\ k.write_rx = 0 THEN Close(s) ELSE s
Closing(k, s) == IF actor.saw /\ k.queued = 0 /\ k.pending_write = 0 THEN Close(s) ELSE s
ResetFinished(s) == s.state \in {"closed", "listen"} /\ s.peer = None
Finished(k, s) == ResetFinished(s) \/ k.time_wait = "over"

(* The end of a session: its slot, its memory and an unused permit go back. *)
(* Mutant: an expired half-open flow keeps its permit. *)
reap_permit_kept(c, k) ==
    /\ tcp_flows' = [tcp_flows EXCEPT ![k.tuple] = NoConn] /\ memory' = memory - 1
    /\ conn' = [conn EXCEPT ![c] = Dropped(k)] /\ UNCHANGED accept
reap(c, k) ==
    /\ tcp_flows' = [tcp_flows EXCEPT ![k.tuple] = NoConn] /\ memory' = memory - 1
    /\ conn' = [conn EXCEPT ![c] = Dropped(k)]
    /\ accept' = [accept EXCEPT !.reserved = IF k.published THEN @ ELSE @ - 1]

service_and_reap_tcp_flow ==
    /\ actor.pc = "reap"
    /\ \E c \in {actor.flow} : \E s \in {Closing(conn[c], sock[c])} :
         \E k \in {[conn[c] EXCEPT !.time_wait = IF s.state = "time_wait" /\ @ = None THEN "running" ELSE @,
                                   !.to_application = @ /\ ~(conn[c].published /\ ~MayRecv(s) /\ s.recv_queue = 0)]} :
           /\ sock' = [sock EXCEPT ![c] = s]
           /\ IF Finished(k, s) THEN reap(c, k)
              ELSE conn' = [conn EXCEPT ![c] = k] /\ UNCHANGED <<tcp_flows, memory, accept>>
    /\ actor' = [actor EXCEPT !.pc = actor.ret, !.flow = NoConn, !.saw = FALSE]
    /\ UNCHANGED <<udp_sessions, commands, device>>

-----------------------------------------------------------------------------
(* The actor: one pass of its loop                                          *)

(* What the writer's queue takes; how much is up to the writer. *)
drain_egress ==
    /\ actor.pc = "egress"
    /\ \E n \in 0 .. device.egress :
         /\ device' = [device EXCEPT !.egress = @ - n]
         /\ actor' = [actor EXCEPT !.pc = "commands", !.left = TCP_COMMANDS_PER_TICK, !.work = n > 0]
    /\ UNCHANGED <<conn, sock, tcp_flows, udp_sessions, commands, accept, memory>>

(* begin_service: the flow may be scheduled again from here on. *)
Command(ret) ==
    /\ commands # <<>>
    /\ commands' = Tail(commands)
    /\ conn' = IF Flow(Head(commands)) = NoConn THEN conn ELSE [conn EXCEPT ![Flow(Head(commands))].scheduled = FALSE]
    /\ actor' = [Service(Flow(Head(commands)), ret) EXCEPT !.left = IF ret = "commands" THEN @ - 1 ELSE 0]
    /\ UNCHANGED <<sock, tcp_flows, udp_sessions, device, accept, memory>>

(* The tasks of datagram sessions that were dropped. *)
Join == udp_sessions' = [live |-> udp_sessions.live \ udp_sessions.ended, ended |-> {}]

(* The commands of one pass, then the tasks that have ended. *)
serve_commands ==
    /\ actor.pc = "commands"
    /\ \/ actor.left > 0 /\ Command("commands")
       \/ /\ actor.left = 0 \/ commands = <<>>
          /\ Join
          /\ actor' = [actor EXCEPT !.pc = "ingress", !.left = TCP_PACKETS_PER_TICK, !.work = @ \/ udp_sessions.ended # {}]
          /\ UNCHANGED <<conn, sock, tcp_flows, commands, device, accept, memory>>

(* poll_ingress_single: the first socket that takes the packet gets it, and  *)
(* the flow of the packet's own tuple is serviced.  A packet nobody takes is *)
(* answered with a reset.                                                   *)
poll_ingress ==
    /\ actor.pc = "ingress"
    /\ \/ /\ actor.left > 0 /\ CanEgress /\ Ingress # <<>>
          /\ \E p \in {Head(Ingress)} :
               \/ /\ Takers(p.tuple, p.kind) # {}
                  /\ \E c \in {First(Takers(p.tuple, p.kind))} :
                       sock' = [sock EXCEPT ![c] = Segment(sock[c], p.tuple, p.kind)]
                  /\ device' = [device EXCEPT !.ingress = Tail(@)]
                  /\ actor' = [Service(Flow(p.tuple), "ingress") EXCEPT !.left = @ - 1]
               \/ /\ Takers(p.tuple, p.kind) = {}
                  /\ device' = [ingress |-> Tail(Ingress), egress |-> device.egress + (IF p.kind = "rst" THEN 0 ELSE 1)]
                  /\ actor' = [Service(Flow(p.tuple), "ingress") EXCEPT !.left = @ - 1]
                  /\ UNCHANGED sock
       \/ /\ actor.left = 0 \/ ~CanEgress \/ Ingress = <<>>
          /\ actor' = [actor EXCEPT !.pc = "emit", !.left = 0] /\ UNCHANGED <<sock, device>>
    /\ UNCHANGED <<conn, tcp_flows, udp_sessions, commands, accept, memory>>

(* poll_egress: the reset of an aborted socket; other segments leave too.    *)
Aborted == {c \in Live : sock[c].state = "closed" /\ sock[c].peer # None}
(* A scan of all flows starts when one is due and the last one is over. *)
Scanning(due, work) ==
    actor' = [actor EXCEPT !.pc = "scan", !.left = TCP_FLOWS_PER_TICK, !.work = work,
                           !.scan = IF due /\ @ = {} THEN {t \in Tuples : Flow(t) # NoConn} ELSE @,
                           !.scan_tcp = due /\ actor.scan # {}]
poll_egress ==
    /\ actor.pc = "emit"
    /\ \/ /\ CanEgress
          /\ \E c \in Aborted : sock' = [sock EXCEPT ![c].peer = None]
          /\ device' = [device EXCEPT !.egress = @ + 1]
          /\ actor' = [actor EXCEPT !.scan_tcp = TRUE, !.work = TRUE]
       \/ /\ CanEgress /\ Aborted = {} /\ \E c \in Live : sock[c].peer # None
          /\ device' = [device EXCEPT !.egress = @ + 1]
          /\ Scanning(TRUE, TRUE) /\ UNCHANGED sock
       \/ /\ ~CanEgress \/ Aborted = {}
          /\ Scanning(actor.scan_tcp, actor.work) /\ UNCHANGED <<sock, device>>
    /\ UNCHANGED <<conn, tcp_flows, udp_sessions, commands, accept, memory>>

(* Every flow is serviced when a socket changed or a deadline has passed. *)
scan_flows ==
    /\ actor.pc = "scan"
    /\ \/ /\ actor.left > 0
          /\ \E t \in actor.scan : actor' = [Service(Flow(t), "scan") EXCEPT !.left = @ - 1, !.scan = @ \ {t}]
       \/ /\ actor.left = 0 \/ actor.scan = {}
          /\ actor' = [actor EXCEPT !.pc = IF actor.work THEN "egress" ELSE "select", !.left = 0]
    /\ UNCHANGED <<conn, sock, tcp_flows, udp_sessions, commands, device, accept, memory>>

-----------------------------------------------------------------------------
(* The actor: waiting                                                       *)

Sessions == Cardinality({t \in Tuples : Flow(t) # NoConn}) + Cardinality(udp_sessions.live)
AcceptRoom == Len(accept.queue) + accept.reserved < ACCEPT_DEPTH
Slot == CHOOSE n \in 1 .. Cardinality(Conns) :
          /\ \A c \in Live : conn[c].slot # n
          /\ \A m \in 1 .. n - 1 : \E c \in Live : conn[c].slot = m

(* admit_tcp_flow: a slot, the memory and an accept permit, or nothing. *)
Admits == /\ Cardinality({t \in Tuples : Flow(t) # NoConn}) < MAX_TCP_SESSIONS
          /\ memory < TCP_MEMORY_BUDGET
          /\ AcceptRoom
admit_tcp_flow(c, t) ==
    /\ conn' = [conn EXCEPT ![c] = [Unborn EXCEPT !.tuple = t, !.slot = Slot, !.live = TRUE, !.to_application = TRUE]]
    /\ sock' = [sock EXCEPT ![c] = [NoSocket EXCEPT !.state = "listen"]]
    /\ tcp_flows' = [tcp_flows EXCEPT ![t] = c]
    /\ memory' = memory + 1
    /\ accept' = [accept EXCEPT !.reserved = @ + 1]
report_tcp_refusal == accept' = IF AcceptRoom THEN [accept EXCEPT !.queue = Append(@, NoConn)] ELSE accept

(* process_ingress_packet for TCP: a SYN of an unknown flow is admitted or   *)
(* refused; the packet goes to smoltcp either way.                          *)
process_tcp_packet(t, kind) ==
    /\ IF Flow(t) # NoConn \/ kind # "syn" THEN UNCHANGED <<conn, sock, tcp_flows, memory, accept>>
       ELSE IF Sessions < MAX_SESSIONS /\ Admits
            THEN /\ \E c \in Conns : conn[c].tuple = None
                 /\ admit_tcp_flow(CHOOSE c \in Conns : conn[c].tuple = None, t)
            ELSE report_tcp_refusal /\ UNCHANGED <<conn, sock, tcp_flows, memory>>
    /\ device' = [device EXCEPT !.ingress = Append(@, [tuple |-> t, kind |-> kind])]
    /\ UNCHANGED udp_sessions

(* process_ingress_packet for UDP: a session per tuple, as long as the       *)
(* tables and the accept queue have room.                                   *)
process_udp_packet(t) ==
    /\ IF t \in udp_sessions.live \/ Sessions >= MAX_SESSIONS \/ ~AcceptRoom THEN UNCHANGED <<udp_sessions, accept>>
       ELSE /\ udp_sessions' = [udp_sessions EXCEPT !.live = @ \cup {t}]
            /\ accept' = [accept EXCEPT !.queue = Append(@, NoConn)]
    /\ UNCHANGED <<conn, sock, tcp_flows, memory, device>>

Wake == actor' = [actor EXCEPT !.pc = "egress", !.work = FALSE]
read_tcp(t, kind) ==
    /\ actor.pc = "select" /\ Len(Ingress) < PACKET_QUEUE_DEPTH
    /\ process_tcp_packet(t, kind) /\ Wake /\ UNCHANGED commands
read_udp(t) ==
    /\ actor.pc = "select" /\ Len(Ingress) < PACKET_QUEUE_DEPTH
    /\ process_udp_packet(t) /\ Wake /\ UNCHANGED commands
select ==
    /\ actor.pc = "select"
    /\ \/ /\ device.egress > 0 /\ device' = [device EXCEPT !.egress = @ - 1] /\ Wake
          /\ UNCHANGED <<conn, sock, tcp_flows, udp_sessions, commands, accept, memory>>
       \/ Command("egress")
       \/ /\ udp_sessions.ended # {} /\ Join /\ Wake
          /\ UNCHANGED <<conn, sock, tcp_flows, commands, device, accept, memory>>
timer ==
    /\ actor.pc = "select"
    /\ actor' = [actor EXCEPT !.pc = "egress", !.scan_tcp = TRUE]
    /\ UNCHANGED <<conn, sock, tcp_flows, udp_sessions, commands, device, accept, memory>>

(* The loop ends on shutdown, on an error of the writer or of the device,    *)
(* and every session is dropped with it.                                    *)
stop_actor ==
    /\ actor.pc \in {"egress", "select"}
    /\ conn' = [c \in Conns |-> IF conn[c].live THEN Dropped(conn[c]) ELSE conn[c]]
    /\ tcp_flows' = [t \in Tuples |-> NoConn] /\ memory' = 0
    /\ accept' = [accept EXCEPT !.reserved = 0]
    /\ Goto("stopped")
    /\ UNCHANGED <<sock, udp_sessions, commands, device>>

ActorStep == service_tcp_flow \/ load_close_requested \/ service_and_reap_tcp_flow \/ drain_egress \/ serve_commands
             \/ poll_ingress \/ poll_egress \/ scan_flows \/ select

(* Time: a half-open flow grows old, a time-wait runs out. *)
Elapse(c) ==
    /\ conn[c].live
    /\ \/ ~conn[c].published /\ ~conn[c].late /\ conn' = [conn EXCEPT ![c].late = TRUE]
       \/ conn[c].time_wait = "running" /\ conn' = [conn EXCEPT ![c].time_wait = "over"]
    /\ AppKeeps

(* A datagram session is dropped by the task that serves it. *)
drop_datagram_flow(t) ==
    /\ t \in udp_sessions.live \ udp_sessions.ended
    /\ udp_sessions' = [udp_sessions EXCEPT !.ended = @ \cup {t}]
    /\ UNCHANGED <<conn, sock, tcp_flows, commands, device, accept, memory, actor>>

-----------------------------------------------------------------------------

(* "The actor reserves the accept slot and the complete per-flow memory      *)
(* charge": what is charged is what live flows hold, an unpublished flow     *)
(* holds one permit, and the queue never outgrows its depth                  *)
(* (admit_tcp_flow, service_and_reap_tcp_flow).                              *)
ReservationsBalance ==
    /\ memory = Cardinality(Live) /\ memory <= TCP_MEMORY_BUDGET
    /\ accept.reserved = Cardinality({c \in Live : ~conn[c].published})
    /\ Len(accept.queue) + accept.reserved <= ACCEPT_DEPTH
    /\ \A c, d \in Live : c # d => conn[c].slot # conn[d].slot /\ conn[c].tuple # conn[d].tuple

(* The FIN of a shutdown follows every byte that was written before it: a    *)
(* socket the actor closed gracefully was given them all, whatever the       *)
(* interleaving of poll_write, poll_shutdown and service_tcp_flow.           *)
FinAfterBytes ==
    \A c \in Live : sock[c].state \in {"fin_wait", "last_ack", "time_wait"} => conn[c].sent = conn[c].written

(* A task that sleeps in poll_shutdown has a waker left, or the flow is open: *)
(* no order of its registration and of the session's end strands it.         *)
ShutdownWoken ==
    \A c \in Conns : conn[c].app = "shutdown_sleeps" /\ conn[c].closed => ~conn[c].shutdown_waker

(* "For TCP and UDP streams, this returns the source address of the          *)
(* connection": the socket of a published flow is bound to the flow's tuple. *)
BoundToItsTuple ==
    \A c \in Live : conn[c].published /\ sock[c].peer # None => sock[c].peer = conn[c].tuple

-----------------------------------------------------------------------------
(***************************************************************************)
(* The tunnel's descriptor and what crosses it without a TCP stack: the     *)
(* registration shared by TunDevice and TunFdOwner (device.rs), a datagram  *)
(* session of the stack (netstack/stream/udp.rs), and the address           *)
(* translation of the packet tunnel (l3.rs).                                *)
(*                                                                          *)
(* A poll of the device runs under the registration's lock from the test    *)
(* of `io` to the system call, so it is one step; TunFdOwner's drop is four *)
(* (take under the lock, drop the AsyncFd, wake, close the descriptor).     *)
(* Words of a checksum have WORD values and stand for 16 bits.              *)
(***************************************************************************)

CONSTANTS WORD, SESSION_QUEUE, DEVICE_QUEUE
ASSUME TunDeviceAssumption == WORD \in Nat \ {0, 1} /\ SESSION_QUEUE \in Nat /\ DEVICE_QUEUE \in Nat

Sides == {"reader", "writer"}

VARIABLES
    registration, \* Registration: the AsyncFd is present, and the stored wakers
    fd,           \* "open", then "closed": its number may be another file's
    owner,        \* the next step of TunFdOwner's drop
    poller,         \* each side's task: "ready", "asleep", "failed"
    readiness,    \* what the reactor last reported for each side
    touched,      \* the states of fd in which a system call used it
    udp           \* one datagram session and its counters
deviceVars == <<registration, fd, owner, poller, readiness, touched>>
tunVars == <<deviceVars, udp>>

NoWakers == [s \in Sides |-> FALSE]
from_owned ==
    /\ registration = [io |-> TRUE, waker |-> NoWakers]
    /\ fd = "open" /\ owner = "held" /\ touched = {}
    /\ poller = [s \in Sides |-> "ready"] /\ readiness = NoWakers

(***************************************************************************)
(* poll_read and poll_write: store the waker, refuse when the AsyncFd is    *)
(* gone, else use the descriptor if it is ready and sleep if it is not.     *)
(***************************************************************************)
(* Mutant: the waker is left to the reactor, which forgets it with the AsyncFd. *)
poll_unstored(s) ==
    /\ poller[s] = "ready"
    /\ poller' = [poller EXCEPT ![s] = IF ~registration.io THEN "failed"
                                   ELSE IF readiness[s] THEN "ready" ELSE "asleep"]
    /\ touched' = touched \cup (IF registration.io /\ readiness[s] THEN {fd} ELSE {})
    /\ readiness' = [readiness EXCEPT ![s] = FALSE]
    /\ UNCHANGED <<registration, fd, owner>>

poll(s) ==
    /\ poller[s] = "ready"
    /\ \/ ~registration.io /\ poller' = [poller EXCEPT ![s] = "failed"]
          /\ UNCHANGED <<registration, readiness, touched>>
       \/ /\ registration.io
          /\ registration' = [registration EXCEPT !.waker[s] = TRUE]
          /\ \/ readiness[s] /\ touched' = touched \cup {fd} /\ UNCHANGED <<poller, readiness>>
             \/ readiness[s] /\ touched' = touched \cup {fd}   \* would block
                /\ readiness' = [readiness EXCEPT ![s] = FALSE] /\ poller' = [poller EXCEPT ![s] = "asleep"]
             \/ ~readiness[s] /\ poller' = [poller EXCEPT ![s] = "asleep"] /\ UNCHANGED <<readiness, touched>>
    /\ UNCHANGED <<fd, owner>>

(* The reactor's edge, for as long as the AsyncFd is registered with it. *)
Edge(s) ==
    /\ owner \in {"held", "taken"} /\ ~readiness[s]
    /\ readiness' = [readiness EXCEPT ![s] = TRUE]
    /\ poller' = [poller EXCEPT ![s] = IF @ = "asleep" THEN "ready" ELSE @]
    /\ UNCHANGED <<registration, fd, owner, touched>>

(* TunFdOwner's drop: what it took under the lock it wakes after the AsyncFd is gone. *)
drop_take ==
    /\ owner = "held" /\ owner' = "taken"
    /\ registration' = [io |-> FALSE, waker |-> registration.waker]
    /\ UNCHANGED <<fd, poller, readiness, touched>>
drop_io ==
    /\ owner = "taken" /\ owner' = "deregistered"
    /\ UNCHANGED <<registration, fd, poller, readiness, touched>>
drop_wake ==
    /\ owner = "deregistered" /\ owner' = "woken"
    /\ poller' = [s \in Sides |-> IF registration.waker[s] /\ poller[s] = "asleep" THEN "ready" ELSE poller[s]]
    /\ registration' = [registration EXCEPT !.waker = NoWakers]
    /\ UNCHANGED <<fd, readiness, touched>>
drop_fd ==
    /\ owner = "woken" /\ owner' = "gone" /\ fd' = "closed"
    /\ UNCHANGED <<registration, poller, readiness, touched>>

DeviceStep == (\E s \in Sides : poll(s) \/ Edge(s)) \/ drop_take \/ drop_io \/ drop_wake \/ drop_fd

(***************************************************************************)
(* No system call of the device ever uses the descriptor after its owner    *)
(* closed it, and once the owner is gone neither side is left asleep on a   *)
(* descriptor nothing will report again ("Dropping that owner revokes this  *)
(* device's registration and wakes pending I/O before closing the fd").     *)
(***************************************************************************)
DeviceRevoked == touched \subseteq {"open"} /\ (fd = "closed" => \A s \in Sides : poller[s] # "asleep")

(***************************************************************************)
(* A datagram session: the actor's map entry, the flow's queue, the flow.   *)
(* Datagrams are numbered by their arrival.                                 *)
(***************************************************************************)
UdpInit == udp = [open |-> FALSE, flow |-> "none", payload |-> <<>>, queue |-> <<>>, due |-> FALSE,
                  came |-> 0, read |-> <<>>, drops |-> 0, lost |-> 0,
                  wrote |-> 0, egress |-> 0, sent |-> 0]

(* process_ingress_packet for a datagram; `room` is a free session and permit. *)
(* Mutant: a full session queue discards the datagram without counting it. *)
udp_packet_uncounted(room) ==
    udp' = [udp EXCEPT !.came = @ + 1,
                       !.queue = IF udp.open /\ Len(@) < SESSION_QUEUE THEN Append(@, udp.came + 1) ELSE @]

udp_packet(room) ==
    LET n == udp.came + 1 IN
    \/ udp.open /\ udp.flow # "dropped" /\ Len(udp.queue) < SESSION_QUEUE
       /\ udp' = [udp EXCEPT !.came = n, !.queue = Append(@, n)]
    \/ udp.open /\ udp.flow # "dropped" /\ Len(udp.queue) >= SESSION_QUEUE
       /\ udp' = [udp EXCEPT !.came = n, !.drops = @ + 1]
    \/ udp.open /\ udp.flow = "dropped" /\ udp' = [udp EXCEPT !.came = n, !.lost = @ + 1]  \* Closed
    \/ ~udp.open /\ ~room /\ udp' = [udp EXCEPT !.came = n, !.lost = @ + 1]
    \/ ~udp.open /\ room
       /\ udp' = [udp EXCEPT !.came = n, !.open = TRUE, !.flow = "live", !.payload = <<n>>, !.due = FALSE]

(* poll_read: the pending payload, then the idle timer, then the queue. *)
udp_read ==
    /\ udp.flow = "live"
    /\ \/ udp.payload # <<>> /\ udp' = [udp EXCEPT !.read = @ \o udp.payload, !.payload = <<>>]
       \/ udp.payload = <<>> /\ udp.due /\ udp' = [udp EXCEPT !.flow = "failed"]
       \/ udp.payload = <<>> /\ ~udp.due /\ udp.queue # <<>>
          /\ udp' = [udp EXCEPT !.read = Append(@, Head(udp.queue)), !.queue = Tail(@)]

(* poll_write: a full device queue counts the datagram and still reports it written. *)
udp_write(oversized) ==
    /\ udp.flow = "live"
    /\ \/ oversized /\ udp' = [udp EXCEPT !.flow = "failed", !.due = FALSE]
       \/ ~oversized /\ udp.egress < DEVICE_QUEUE
          /\ udp' = [udp EXCEPT !.wrote = @ + 1, !.egress = @ + 1, !.due = FALSE]
       \/ ~oversized /\ udp.egress >= DEVICE_QUEUE
          /\ udp' = [udp EXCEPT !.wrote = @ + 1, !.drops = @ + 1, !.due = FALSE]

(* The device's writer takes a queued datagram. *)
udp_sent == udp.egress > 0 /\ udp' = [udp EXCEPT !.egress = @ - 1, !.sent = @ + 1]
udp_idle == udp.flow = "live" /\ ~udp.due /\ udp' = [udp EXCEPT !.due = TRUE]

(* The flow is dropped, with what it had not read; the actor joins it later. *)
udp_drop ==
    /\ udp.flow \in {"live", "failed"}
    /\ udp' = [udp EXCEPT !.flow = "dropped", !.lost = @ + Len(udp.queue) + Len(udp.payload),
                          !.queue = <<>>, !.payload = <<>>]
udp_join == udp.flow = "dropped" /\ udp.open /\ udp' = [udp EXCEPT !.open = FALSE, !.flow = "none"]

UdpStep(room, oversized) ==
    udp_packet(room) \/ udp_read \/ udp_write(oversized) \/ udp_sent \/ udp_idle \/ udp_drop \/ udp_join

(***************************************************************************)
(* The engine reads the datagrams of a source and destination in the order  *)
(* in which they arrived, none twice, and the queue-drop counter is exactly *)
(* what neither was read or sent, nor waits, nor belonged to no live flow:  *)
(* a datagram reported as written or accepted never vanishes uncounted.     *)
(***************************************************************************)
DatagramsAccounted ==
    /\ \A i, j \in DOMAIN udp.read : i < j => udp.read[i] < udp.read[j]
    /\ udp.came + udp.wrote = Len(udp.read) + Len(udp.queue) + Len(udp.payload) + udp.lost
                              + udp.egress + udp.sent + udp.drops

(***************************************************************************)
(* l3.rs.  An address is a sequence of words; a packet is a fragment of a   *)
(* datagram: the bytes [offset, offset + length) of its transport part,     *)
(* `check` the content of the transport checksum field wherever that is.    *)
(***************************************************************************)
Words == 0..(WORD - 1)
Not(w) == WORD - 1 - w
Folded[sum \in Nat] == IF sum < WORD THEN sum ELSE Folded[(sum % WORD) + (sum \div WORD)]
WordSum(ws) == FoldLeft(LAMBDA x, y : x + y, 0, ws)

(* update_checksum: RFC 1624's incremental form, folded until no carry is left. *)
(* Mutant: the old words are added instead of their complements. *)
update_checksum_plain(checksum, old, new) == Not(Folded[Not(checksum) + WordSum(old) + WordSum(new)])

update_checksum(checksum, old, new) ==
    Not(Folded[Not(checksum) + WordSum([i \in DOMAIN old |-> Not(old[i])]) + WordSum(new)])

ChecksumAt(protocol) ==
    CASE protocol = "tcp" -> 16 [] protocol = "udp" -> 6 [] protocol = "icmpv6" -> 2 [] OTHER -> -1

(* update_transport_checksum, for the fragment that carries the field. *)
update_transport_checksum(p, old, new) ==
    LET at == ChecksumAt(p.protocol)
        updated == update_checksum(p.check, old, new) IN
    IF at < 0 \/ at < p.offset \/ at + 2 > p.offset + p.length \/ (p.protocol = "udp" /\ p.check = 0)
    THEN p.check
    ELSE IF p.protocol = "udp" /\ updated = 0 THEN WORD - 1 ELSE updated

(* rewrite_v4 and rewrite_v6 after their header checks; `pair` is <<tun, peer>>. *)
rewrite(pair, p, toTunnel) ==
    LET old == IF toTunnel THEN pair[1] ELSE pair[2]
        new == IF toTunnel THEN pair[2] ELSE pair[1] IN
    IF (IF toTunnel THEN p.src ELSE p.dst) # old THEN [p EXCEPT !.refused = TRUE]
    ELSE [p EXCEPT !.src = IF toTunnel THEN new ELSE @, !.dst = IF toTunnel THEN @ ELSE new,
                   !.header = IF p.v4 THEN update_checksum(@, old, new) ELSE @,
                   !.check = update_transport_checksum(p, old, new)]

(* internet_checksum over a sequence of words, and what a receiver verifies. *)
internet_checksum(ws) == Not(Folded[WordSum(ws)])
Verifies(checksum, ws) == Folded[WordSum(ws) + checksum] = WORD - 1

(* echo_reply_v4: type, then the checksum over the message with its field zeroed. *)
EchoRequest == 1
EchoReply == 0
echo_reply_v4(message) ==
    [type |-> EchoReply, check |-> internet_checksum(<<EchoReply>> \o message.rest), rest |-> message.rest]

(***************************************************************************)
(* A datagram that verifies at the tun verifies at the peer, however IPv4   *)
(* fragmented it: only the fragment that holds the checksum field changes   *)
(* it, an absent UDP checksum stays absent and a computed one never turns   *)
(* into the absent mark.  Its answer comes back as it was sent, and an echo *)
(* reply verifies too.                                                      *)
(***************************************************************************)
(* A header is never all zeros: it has a version, and the rest its protocol. *)
Version == 1
Addresses == {<<x, y>> : x, y \in Words}
Cuts == {<<0, 24>>, <<0, 8>>, <<8, 16>>, <<16, 8>>}
Sound(p, rest) == \/ p.protocol = "udp" /\ p.check = 0
                  \/ Verifies(p.check, p.src \o p.dst \o <<rest>>)
Carries(p) == p.offset <= ChecksumAt(p.protocol) /\ ChecksumAt(p.protocol) + 2 <= p.offset + p.length
TranslatedWell(pair, p, rest, sent) ==
    /\ Verifies(sent.header, <<Version>> \o sent.src \o sent.dst)
    /\ Carries(p) => Sound(sent, rest) /\ (sent.check = 0 /\ p.protocol = "udp" => p.check = 0)
    /\ ~Carries(p) => sent.check = p.check
    /\ \A answer \in {[sent EXCEPT !.src = sent.dst, !.dst = sent.src]} :
          \A back \in {rewrite(pair, answer, FALSE)} :
             ~back.refused /\ back.dst = p.src /\ (Carries(p) => Sound(back, rest))
TranslationVerifies ==
    /\ \A pair \in Addresses \X Addresses, w \in Words, rest \in Words \ {0}, protocol \in {"tcp", "udp", "icmpv6"} :
       \A check \in {internet_checksum(pair[1] \o <<w, 0>> \o <<rest>>)} :
       \A field \in (IF protocol = "udp" THEN {0, IF check = 0 THEN WORD - 1 ELSE check} ELSE {check}) :
       \A cut \in Cuts :
       \A p \in {[v4 |-> TRUE, src |-> pair[1], dst |-> <<w, 0>>, protocol |-> protocol, refused |-> FALSE,
                   offset |-> cut[1], length |-> cut[2], check |-> field,
                   header |-> internet_checksum(<<Version>> \o pair[1] \o <<w, 0>>)]} :
          TranslatedWell(pair, p, rest, rewrite(pair, p, TRUE))
    /\ \A rest \in Addresses : \A reply \in {echo_reply_v4([type |-> EchoRequest, rest |-> rest])} :
          Verifies(reply.check, <<reply.type>> \o reply.rest)
=============================================================================
