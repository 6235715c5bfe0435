----------------------------- MODULE FlowRelay ------------------------------
(***************************************************************************)
(* The relay of one TCP flow: copy_bidirectional_pooled (foxcore-relay),    *)
(* the BacklogGuard that stages what the outbound does not take            *)
(* (backlog.rs), the watch for the remote's end (halfclose.rs) and the     *)
(* select of handle_tcp that ends the flow.                                *)
(*                                                                         *)
(* The relay is one task.  It runs when it is woken, polls the uplink and  *)
(* then the downlink, each until it is pending, and sleeps: whoever does   *)
(* not hold one of its wakers cannot wake it.  Bytes are counted.          *)
(***************************************************************************)
EXTENDS Naturals, Sequences, FiniteSets, FiniteSetsExt

CONSTANTS BUFFER,     \* relay_buffer_bytes
          CEILING,    \* ceiling_for(relay_buffer_bytes)
          WINDOW      \* half_closed_timeout, in samples

VARIABLES copy,   \* direction -> Transfer and its Copy
          src,    \* direction -> what can be read, whether the end follows, what was read
          dst,    \* direction -> what can be written, what was, whether it was shut down
          guard,  \* BacklogGuard of the uplink
          task,   \* the relay task: running, and the wakers it has left
          flow    \* handle_tcp: the watch of the half-closed flow, and how the flow ended
relayVars == <<copy, src, dst, guard, task, flow>>

Directions == {"up", "down"}
Lesser(m, n) == IF m < n THEN m ELSE n
NewCopy == [pc |-> "fill", position |-> 0, filled |-> 0, read_done |-> FALSE, needs_flush |-> FALSE]
RelayInit ==
    /\ copy = [d \in Directions |-> NewCopy]
    /\ src = [d \in Directions |-> [avail |-> 0, fin |-> FALSE, read |-> 0]]
    /\ dst = [d \in Directions |-> [room |-> 0, got |-> 0, shut |-> FALSE]]
    /\ guard = [pending |-> 0, progress |-> "fresh", deadline |-> "none"]
    /\ task = [turn |-> "up", woken |-> FALSE, wakers |-> {}]
    /\ flow = [remote_eof |-> FALSE, seen |-> 0, still |-> 0, end |-> "none"]

Running == flow.end = "none"

-----------------------------------------------------------------------------
(* BacklogGuard                                                             *)

Progressed(g) == [g EXCEPT !.progress = "fresh", !.deadline = IF @ = "current" THEN "early" ELSE @]

(* drain: what the outbound takes of the backlog; its end forgets the timer. *)
drain(g, room) ==
    IF g.pending <= room THEN [pending |-> 0, progress |-> "fresh", deadline |-> "none"]
    ELSE IF room = 0 THEN g ELSE Progressed([g EXCEPT !.pending = @ - room])

(* poll_stall: a backlog arms the timer; a timer that is due reports a stall *)
(* if nothing has moved since, and is set again if something has.           *)
Stalled(g) == g.pending > 0 /\ g.progress = "old" /\ g.deadline \in {"none", "due"}
poll_stall(g) ==
    IF g.pending = 0 THEN [g EXCEPT !.deadline = "none"]
    ELSE [g EXCEPT !.deadline = IF @ \in {"none", "due"} THEN "current" ELSE @]

(* The effect of a call: the guard, what the outbound took, whether the      *)
(* relay's waker is left with it, a stall, and whether the call is pending.  *)
Effect(g, took, waits) == [guard |-> poll_stall(g), took |-> took, waits |-> waits, stalled |-> Stalled(g)]

hold(g, n) == [(IF g.pending = 0 /\ n > 0 THEN Progressed(g) ELSE g) EXCEPT !.pending = @ + n]

(* Mutant: what the outbound took of a first write is held as well. *)
poll_write_direct_twice(g, room, n) ==
    IF n <= room THEN [guard |-> Progressed(g), took |-> n, waits |-> FALSE, stalled |-> FALSE]
    ELSE Effect(hold(IF room > 0 THEN Progressed(g) ELSE g, n), room, room = 0)
(* poll_write without a backlog: the rest of what was not taken is held. *)
poll_write_direct(g, room, n) ==
    IF n <= room THEN [guard |-> Progressed(g), took |-> n, waits |-> FALSE, stalled |-> FALSE]
    ELSE Effect(hold(IF room > 0 THEN Progressed(g) ELSE g, n - room), room, room = 0)

(* Mutant: a backlog grows as long as it drains at all. *)
full_never(g) == FALSE
full(g) == g.pending >= CEILING

(* drain and poll_stall, the start of every other call. *)
poll_drain(g, room) == Effect(drain(g, room), Lesser(room, g.pending), g.pending > room)

-----------------------------------------------------------------------------
(* One direction of the copy                                                *)

Polls(d, pc) == Running /\ task.turn = d /\ copy[d].pc = pc
Waits(wakers) == task' = [task EXCEPT !.wakers = @ \cup wakers, !.turn = IF @ = "up" THEN "down" ELSE "asleep"]
Goes(d, pc) == copy' = [copy EXCEPT ![d].pc = pc]
Ends(how) == flow' = [flow EXCEPT !.end = how]

(* Copy::fill: bytes, or the end; the wrapper around the remote reports it. *)
Reads(d, from, room) ==
    \E n \in 1 .. Lesser(src[d].avail, room) :
        /\ src' = [src EXCEPT ![d].avail = @ - n, ![d].read = @ + n]
        /\ copy' = [copy EXCEPT ![d] = [from EXCEPT !.filled = @ + n]]
        /\ UNCHANGED flow
AtEnd(d) == src[d].avail = 0 /\ src[d].fin
ReadsEnd(d, from) ==
    /\ AtEnd(d)
    /\ copy' = [copy EXCEPT ![d] = [from EXCEPT !.read_done = TRUE]]
    /\ flow' = [flow EXCEPT !.remote_eof = @ \/ d = "down"]
    /\ UNCHANGED src

(* Copy::poll, an empty buffer: fill it; with nothing to read, what was      *)
(* written is flushed before the task sleeps.                               *)
fill(d) ==
    /\ Polls(d, "fill")
    /\ \/ Reads(d, [copy[d] EXCEPT !.position = 0, !.filled = 0, !.pc = "write"], BUFFER) /\ UNCHANGED task
       \/ ReadsEnd(d, [copy[d] EXCEPT !.position = 0, !.filled = 0, !.pc = "flush_end"]) /\ UNCHANGED task
       \/ /\ src[d].avail = 0 /\ ~src[d].fin
          /\ IF copy[d].needs_flush
             THEN Goes(d, "flush") /\ task' = [task EXCEPT !.wakers = @ \cup {<<d, "read">>}]
             ELSE Waits({<<d, "read">>}) /\ UNCHANGED copy
          /\ UNCHANGED <<src, flow>>
    /\ UNCHANGED <<dst, guard>>

(* What follows n accepted bytes. *)
Wrote(k, n) ==
    [k EXCEPT !.position = @ + n, !.needs_flush = TRUE,
              !.pc = IF k.position + n < k.filled THEN "write" ELSE IF k.read_done THEN "flush_end" ELSE "fill"]

(* A writer that takes nothing: the buffer is filled up meanwhile. *)
TopsUp(d) == ~copy[d].read_done /\ copy[d].filled < BUFFER
top_up(d) ==
    /\ Polls(d, "top_up")
    /\ \/ Reads(d, [copy[d] EXCEPT !.pc = "write"], BUFFER - copy[d].filled) /\ Waits({})
       \/ ReadsEnd(d, [copy[d] EXCEPT !.pc = "write"]) /\ Waits({})
       \/ src[d].avail = 0 /\ ~src[d].fin /\ Goes(d, "write") /\ Waits({<<d, "read">>}) /\ UNCHANGED <<src, flow>>
    /\ UNCHANGED <<dst, guard>>
Refused(d) ==
    IF TopsUp(d) THEN Goes(d, "top_up") /\ task' = [task EXCEPT !.wakers = @ \cup {<<d, "write">>}]
                 ELSE Waits({<<d, "write">>}) /\ UNCHANGED copy

(* The writer of the downlink is the application's stream. *)
write_down ==
    /\ Polls("down", "write")
    /\ \E n \in {Lesser(dst["down"].room, copy["down"].filled - copy["down"].position)} :
         \/ /\ n > 0
            /\ dst' = [dst EXCEPT !["down"].room = @ - n, !["down"].got = @ + n]
            /\ copy' = [copy EXCEPT !["down"] = Wrote(@, n)] /\ UNCHANGED task
         \/ n = 0 /\ Refused("down") /\ UNCHANGED dst
    /\ UNCHANGED <<src, guard, flow>>

(* What a call of the guard does to the outbound, and the waker it leaves.   *)
Applied(e) == dst' = [dst EXCEPT !["up"].room = @ - e.took, !["up"].got = @ + e.took]
Waker(e) == IF e.waits THEN {<<"up", "write">>} ELSE {}

write_up ==
    /\ Polls("up", "write")
    /\ \E n \in {copy["up"].filled - copy["up"].position} :
         \/ /\ guard.pending = 0
            /\ \E e \in {poll_write_direct(guard, dst["up"].room, n)} :
                 /\ Applied(e) /\ guard' = e.guard
                 /\ copy' = [copy EXCEPT !["up"] = Wrote(@, n)]
                 /\ task' = [task EXCEPT !.wakers = @ \cup Waker(e)]
                 /\ UNCHANGED flow
         \/ /\ guard.pending > 0
            /\ \E e \in {poll_drain(guard, dst["up"].room)} :
                 /\ Applied(e)
                 /\ \/ e.stalled /\ Ends("stalled") /\ guard' = e.guard /\ UNCHANGED <<copy, task>>
                    \/ /\ ~e.stalled /\ full(e.guard)
                       /\ guard' = e.guard /\ Refused("up") /\ UNCHANGED flow
                    \/ /\ ~e.stalled /\ ~full(e.guard)
                       /\ guard' = hold(e.guard, n)
                       /\ copy' = [copy EXCEPT !["up"] = Wrote(@, n)]
                       /\ task' = [task EXCEPT !.wakers = @ \cup Waker(e)]
                       /\ UNCHANGED flow
    /\ UNCHANGED src

(* poll_flush, and poll_shutdown of a guard that is drained first.           *)
(* Mutant: the flush does not look at the stall. *)
flush_up_unwatched(pc, then) ==
    /\ Polls("up", pc)
    /\ \E g \in {drain(guard, dst["up"].room)} :
         /\ dst' = [dst EXCEPT !["up"].room = @ - Lesser(@, guard.pending), !["up"].got = @ + Lesser(dst["up"].room, guard.pending)]
         /\ guard' = g
         /\ \/ g.pending > 0 /\ Waits({<<"up", "write">>})
               /\ copy' = [copy EXCEPT !["up"].pc = IF pc = "flush" THEN "fill" ELSE pc]
            \/ g.pending = 0 /\ Goes("up", then) /\ UNCHANGED task
    /\ UNCHANGED <<src, flow>>
flush_up(pc, then) ==
    /\ Polls("up", pc)
    /\ \E e \in {poll_drain(guard, dst["up"].room)} :
         /\ Applied(e) /\ guard' = e.guard
         /\ \/ e.stalled /\ Ends("stalled") /\ UNCHANGED <<copy, task>>
            \/ /\ ~e.stalled /\ e.guard.pending > 0 /\ Waits(Waker(e))
               /\ copy' = [copy EXCEPT !["up"].pc = IF pc = "flush" THEN "fill" ELSE pc] /\ UNCHANGED flow
            \/ e.guard.pending = 0 /\ Goes("up", then) /\ UNCHANGED <<task, flow>>
    /\ UNCHANGED src

flush_down(pc, then) == Polls("down", pc) /\ Goes("down", then) /\ UNCHANGED <<src, dst, guard, task, flow>>

(* The end of a flush before the task sleeps. *)
flushed(d) ==
    /\ Polls(d, "flushed")
    /\ copy' = [copy EXCEPT ![d].needs_flush = FALSE, ![d].pc = "fill"]
    /\ Waits({})
    /\ UNCHANGED <<src, dst, guard, flow>>

(* Transfer::poll: the writer is shut down once everything is flushed. *)
shut(d) ==
    /\ Polls(d, "shut")
    /\ dst' = [dst EXCEPT ![d].shut = TRUE]
    /\ Goes(d, "done")
    /\ UNCHANGED <<src, guard, task, flow>>
done(d) ==
    /\ Polls(d, "done")
    /\ IF d = "down" /\ copy["up"].pc = "done" THEN Ends("finished") /\ UNCHANGED task
       ELSE Waits({}) /\ UNCHANGED flow
    /\ UNCHANGED <<copy, src, dst, guard>>

(* The executor polls a task that was woken. *)
wake ==
    /\ Running /\ task.turn = "asleep" /\ task.woken
    /\ task' = [turn |-> "up", woken |-> FALSE, wakers |-> task.wakers]
    /\ UNCHANGED <<copy, src, dst, guard, flow>>

PollStep ==
    \/ \E d \in Directions : fill(d) \/ top_up(d) \/ flushed(d) \/ shut(d) \/ done(d)
    \/ write_up \/ write_down
    \/ flush_up("flush", "flushed") \/ flush_up("flush_end", "shut_up") \/ flush_up("shut_up", "shut")
    \/ flush_down("flush", "flushed") \/ flush_down("flush_end", "shut")
    \/ wake

-----------------------------------------------------------------------------
(* The ends, the timer and the clocks                                       *)

Woken(w) == IF w \in task.wakers THEN [task EXCEPT !.woken = TRUE, !.wakers = @ \ {w}] ELSE task
Bytes(d) == /\ Running /\ ~src[d].fin /\ src' = [src EXCEPT ![d].avail = @ + 1]
            /\ task' = Woken(<<d, "read">>) /\ UNCHANGED <<copy, dst, guard, flow>>
Fin(d) == /\ Running /\ ~src[d].fin /\ src' = [src EXCEPT ![d].fin = TRUE]
          /\ task' = Woken(<<d, "read">>) /\ UNCHANGED <<copy, dst, guard, flow>>
Accepts(d) == /\ Running /\ dst' = [dst EXCEPT ![d].room = @ + 1]
              /\ task' = Woken(<<d, "write">>) /\ UNCHANGED <<copy, src, guard, flow>>

(* STALL_TIMEOUT without progress, and the sleep that was set for it. *)
NoProgress ==
    /\ Running /\ guard.pending > 0 /\ guard.progress = "fresh"
    /\ guard' = [guard EXCEPT !.progress = "old"] /\ UNCHANGED <<copy, src, dst, task, flow>>
TimerFires ==
    /\ Running
    /\ guard.deadline = "early" \/ (guard.deadline = "current" /\ guard.progress = "old")
    /\ guard' = [guard EXCEPT !.deadline = "due"]
    /\ task' = [task EXCEPT !.woken = TRUE]
    /\ UNCHANGED <<copy, src, dst, flow>>

(* stayed_quiet behind stayed_half_closed: one sample of the flow's bytes,   *)
(* as CountingStream counts them.                                           *)
Moved == dst["up"].got + src["down"].read
stayed_half_closed ==
    /\ Running /\ flow.remote_eof /\ flow.still < WINDOW
    /\ flow' = [flow EXCEPT !.seen = Moved, !.still = IF Moved = flow.seen THEN @ + 1 ELSE 0]
    /\ UNCHANGED <<copy, src, dst, guard, task>>

(* The select of handle_tcp. *)
HalfClosed == Running /\ flow.still = WINDOW /\ Ends("half_closed") /\ UNCHANGED <<copy, src, dst, guard, task>>
(* A cancelled generation, a revoked policy or flow, idleness, an error of a *)
(* stream: the copy is dropped where it stands.                             *)
Stops == Running /\ Ends("stopped") /\ UNCHANGED <<copy, src, dst, guard, task>>

-----------------------------------------------------------------------------
(* Nothing the relay read is lost, doubled or overtaken: it is in the        *)
(* buffer, in the backlog, or written (Copy::poll, BacklogGuard).            *)
BytesAccounted ==
    /\ src["up"].read = dst["up"].got + guard.pending + (copy["up"].filled - copy["up"].position)
    /\ src["down"].read = dst["down"].got + (copy["down"].filled - copy["down"].position)

(* The end of a direction is passed on after its last byte, and a flow that  *)
(* finished has passed both on.                                             *)
EndAfterBytes ==
    /\ \A d \in Directions : dst[d].shut => src[d].fin /\ src[d].avail = 0 /\ dst[d].got = src[d].read
    /\ flow.end = "finished" => \A d \in Directions : dst[d].shut

(* "only a non-empty backlog with no progress for STALL_TIMEOUT fails the    *)
(* flow": the backlog stays below the ceiling and one buffer, and a flow     *)
(* that stalled held bytes nobody took.                                     *)
OnlyStallsFail ==
    /\ guard.pending < CEILING + BUFFER
    /\ flow.end = "stalled" => guard.pending > 0 /\ guard.progress = "old"

(* What the relay promises of the bytes and of the flow's end. *)
RelayHonest == BytesAccounted /\ EndAfterBytes /\ OnlyStallsFail

(* A backlog ends: the outbound takes it or the stall timer ends the flow,   *)
(* in whichever call the relay is parked; and a flow whose remote has ended  *)
(* gives its slot back.                                                     *)
RelayEnds ==
    /\ guard.pending > 0 ~> (guard.pending = 0 \/ ~Running)
    /\ flow.remote_eof ~> ~Running

-----------------------------------------------------------------------------
(***************************************************************************)
(* foxcore-trafficmap: the rows of live flows, the totals of closed ones,   *)
(* the totals of the lanes, the table that counts tunnelled packets and the *)
(* stream of changes.                                                      *)
(*                                                                         *)
(* The data plane, the platform's answer about an owner, a closing flow and *)
(* a snapshot are threads of their own; an action is what happens under one *)
(* lock or in one atomic operation.  Two things are one action although     *)
(* they are several operations: open, since nobody else has the flow, and a *)
(* call of the event queue.  A direction is not told apart: bytes are one   *)
(* count.                                                                  *)
(***************************************************************************)

CONSTANTS Flows, Packages, Nobody, FlowLanes, EVENT_CAPACITY, MAX_DRAIN_BATCH

VARIABLES row,      \* flow -> LiveFlow, and how far its close has got
          live,     \* the flows of TrafficMap.live
          closed,   \* package -> bytes of closed flows
          lanes,    \* lane -> LaneCounters
          table,    \* PacketAccounting: the flows whose packets are counted
          counting, \* a packet of this flow, found in the table and not yet added
          adding,   \* <<flow, thread>>: bytes in the row and not yet in the lane
          events,   \* TrafficEventQueue
          seen      \* package -> the bytes of the last snapshot
ledgerVars == <<row, live, closed, lanes, table, counting, adding, events, seen>>

(* late (history): bytes that came after close had read the counters;        *)
(* unowned (history): an owner that came after close had paid.              *)
NoRow == [pc |-> "new", package |-> Nobody, lane |-> CHOOSE l \in FlowLanes : TRUE, bytes |-> 0, final |-> 0,
          late |-> 0, unowned |-> FALSE]
LedgerInit ==
    /\ row = [f \in Flows |-> NoRow] /\ live = {} /\ closed = [p \in Packages |-> 0]
    /\ lanes = [l \in FlowLanes |-> [bytes |-> 0, opened |-> 0, closed |-> 0]]
    /\ table = {} /\ counting = {} /\ adding = {}
    /\ events = [queue |-> <<>>, dropped |-> 0, published |-> 0, drained |-> 0, lost |-> 0]
    /\ seen = [p \in Packages |-> 0]

-----------------------------------------------------------------------------
(* TrafficEventQueue                                                        *)

(* Mutant: an event that finds no room is forgotten. *)
publish_silent(e) ==
    IF Len(events.queue) < EVENT_CAPACITY
    THEN [events EXCEPT !.queue = Append(@, e), !.published = @ + 1]
    ELSE [events EXCEPT !.published = @ + 1]
publish(e) ==
    IF Len(events.queue) < EVENT_CAPACITY
    THEN [events EXCEPT !.queue = Append(@, e), !.published = @ + 1]
    ELSE [events EXCEPT !.dropped = @ + 1, !.published = @ + 1]

(* drain: a batch, and what was lost since the last one. *)
drain_events(max) ==
    /\ \E n \in {IF max < Len(events.queue) THEN max ELSE Len(events.queue)} :
         events' = [events EXCEPT !.queue = SubSeq(@, n + 1, Len(@)), !.drained = @ + n,
                                  !.lost = @ + events.dropped, !.dropped = 0]
    /\ UNCHANGED <<row, live, closed, lanes, table, counting, adding, seen>>

-----------------------------------------------------------------------------
(* TrafficMap::open; a flow of the packet tunnel is bound to its key next. *)
open(f, lane, package) ==
    /\ row[f].pc = "new"
    /\ row' = [row EXCEPT ![f] = [NoRow EXCEPT !.pc = "live", !.package = package, !.lane = lane]]
    /\ lanes' = [lanes EXCEPT ![lane].opened = @ + 1]
    /\ live' = live \cup {f}
    /\ events' = publish("opened")
    /\ UNCHANGED <<closed, table, counting, adding, seen>>
bind_packet_flow(f) ==
    /\ row[f].pc = "live" /\ f \notin table
    /\ table' = table \cup {f}
    /\ UNCHANGED <<row, live, closed, lanes, counting, adding, events, seen>>

(* LiveFlow::add_up and add_down, of the relay or of the tunnel: the row,    *)
(* then the lane.                                                           *)
Unpaid == {"removed", "counted", "read", "told"}
Read == {"read", "told", "closed"}
add_row(f, thread) ==
    /\ <<f, thread>> \notin adding /\ adding' = adding \cup {<<f, thread>>}
    /\ row' = [row EXCEPT ![f].bytes = @ + 1, ![f].late = @ + IF row[f].pc \in Read THEN 1 ELSE 0]
    /\ UNCHANGED <<live, closed, lanes, table, events, seen>>
(* Mutant: a flow that closes is no longer counted in its lane. *)
add_lane_live(f, thread) ==
    /\ <<f, thread>> \in adding /\ adding' = adding \ {<<f, thread>>}
    /\ lanes' = [lanes EXCEPT ![row[f].lane].bytes = @ + IF f \in live THEN 1 ELSE 0]
    /\ UNCHANGED <<row, live, closed, table, counting, events, seen>>
add_lane(f, thread) ==
    /\ <<f, thread>> \in adding /\ adding' = adding \ {<<f, thread>>}
    /\ lanes' = [lanes EXCEPT ![row[f].lane].bytes = @ + 1]
    /\ UNCHANGED <<row, live, closed, table, counting, events, seen>>
add_up(f) == row[f].pc = "live" /\ add_row(f, "relay") /\ UNCHANGED counting

(* PacketAccounting::count_up: the table is loaded, the bytes are added to   *)
(* whatever flow it held.                                                   *)
count_load(f) == f \in table \ counting /\ counting' = counting \cup {f}
                 /\ UNCHANGED <<row, live, closed, lanes, table, adding, events, seen>>
count_add(f) == f \in counting /\ add_row(f, "tunnel") /\ counting' = counting \ {f}

(* LiveFlow::set_identity: the first answer stays. *)
set_identity(f, package) ==
    /\ row[f].pc # "new" /\ row[f].package = Nobody
    /\ row' = [row EXCEPT ![f].package = package, ![f].unowned = row[f].pc = "closed"]
    /\ UNCHANGED <<live, closed, lanes, table, counting, adding, events, seen>>

(* TrafficMap::close, by the thread that relayed the flow: the binding, the  *)
(* row, the lane, the final bytes, the event with them, and the totals of    *)
(* the owner last.                                                          *)
Paid(f) == [p \in Packages |-> closed[p] + (IF p = row[f].package THEN row[f].final ELSE 0)]
(* Mutant: a flow that closes is not added to the totals. *)
settle_unpaid(f) ==
    /\ row[f].pc = "told"
    /\ row' = [row EXCEPT ![f].pc = "closed"]
    /\ UNCHANGED <<closed, live, lanes, table, counting, adding, events, seen>>
settle(f) ==
    /\ row[f].pc = "told"
    /\ closed' = Paid(f)
    /\ row' = [row EXCEPT ![f].pc = "closed"]
    /\ UNCHANGED <<live, lanes, table, counting, adding, events, seen>>
close(f) ==
    \/ /\ row[f].pc = "live" /\ f \in table /\ <<f, "relay">> \notin adding
       /\ table' = table \ {f}
       /\ row' = [row EXCEPT ![f].pc = "unbound"]
       /\ UNCHANGED <<live, closed, lanes, counting, adding, events, seen>>
    \/ /\ row[f].pc \in {"live", "unbound"} /\ f \notin table /\ <<f, "relay">> \notin adding
       /\ live' = live \ {f}
       /\ row' = [row EXCEPT ![f].pc = "removed"]
       /\ UNCHANGED <<closed, lanes, table, counting, adding, events, seen>>
    \/ /\ row[f].pc = "removed"
       /\ lanes' = [lanes EXCEPT ![row[f].lane].closed = @ + 1]
       /\ row' = [row EXCEPT ![f].pc = "counted"]
       /\ UNCHANGED <<live, closed, table, counting, adding, events, seen>>
    \/ /\ row[f].pc = "counted"
       /\ row' = [row EXCEPT ![f].pc = "read", ![f].final = row[f].bytes]
       /\ UNCHANGED <<live, closed, lanes, table, counting, adding, events, seen>>
    \/ /\ row[f].pc = "read"
       /\ events' = publish("closed")
       /\ row' = [row EXCEPT ![f].pc = "told"]
       /\ UNCHANGED <<live, closed, lanes, table, counting, adding, seen>>
    \/ settle(f)

(* TrafficMap::snapshot: under the lock of the rows, the totals of closed    *)
(* flows and every live row.  Rows beyond the cap are only not rendered.    *)
Totals == [p \in Packages |->
             closed[p] + FoldSet(LAMBDA f, n : row[f].bytes + n, 0, {f \in live : row[f].package = p})]
snapshot == seen' = Totals /\ UNCHANGED <<row, live, closed, lanes, table, counting, adding, events>>

LedgerStep(f) ==
    \/ \E l \in FlowLanes, p \in Packages \cup {Nobody} : open(f, l, p)
    \/ bind_packet_flow(f) \/ add_up(f) \/ count_load(f) \/ count_add(f) \/ close(f)
    \/ \E thread \in {"relay", "tunnel"} : add_lane(f, thread)
    \/ \E p \in Packages : set_identity(f, p)

-----------------------------------------------------------------------------
(* "Accounting stays exact": an application's total is what its flows moved, *)
(* except the bytes of a flow between the removal of its row and the payment *)
(* of its total, those that a packet in hand adds after close has read the   *)
(* counters, and those of an owner that becomes known after the payment      *)
(* (TrafficMap::close, snapshot, set_identity).  No snapshot showed more     *)
(* than was moved; a lane has every byte of its flows but those being added; *)
(* and a change is drained, queued or reported as lost (TrafficEventQueue).  *)
Moves(flows) == FoldSet(LAMBDA f, n : row[f].bytes + n, 0, flows)
Owned(p) == {f \in Flows : row[f].package = p}
LedgerExact ==
    /\ \A p \in Packages :
         /\ Totals[p] = FoldSet(LAMBDA f, n : row[f].bytes - row[f].late + n, 0,
                                {f \in Owned(p) : row[f].pc \notin Unpaid /\ ~row[f].unowned})
         /\ seen[p] <= Moves(Owned(p))
    /\ \A l \in FlowLanes :
         lanes[l].bytes + Cardinality({x \in adding : row[x[1]].lane = l})
           = Moves({f \in Flows : row[f].pc # "new" /\ row[f].lane = l})
    /\ events.published = Len(events.queue) + events.drained + events.dropped + events.lost

(* "Nothing is lost by the delay": the bytes of a closed flow are in the     *)
(* total of its owner, however late the platform named it.                  *)
LateOwnerCounted == \A f \in Flows : row[f].unowned => row[f].final = 0

(* "the row is gone from the next snapshot but its bytes stay in the per-app *)
(* and per-lane totals": what a snapshot showed is in every later one.       *)
TotalsStay == [][\A p \in Packages : seen'[p] >= seen[p]]_seen
=============================================================================
