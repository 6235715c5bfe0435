----------------------------- MODULE VisionRelay -----------------------------
(***************************************************************************)
(* The VLESS Vision codec inside the TLS record relay: padded frames in    *)
(* both directions, the sniffing of the inner handshake, and the handover  *)
(* of the socket to a raw copy.  A byte of the application stands for a    *)
(* run of its bytes, and carries what the sniffer would see if a buffer    *)
(* began with it.                                                          *)
(***************************************************************************)
EXTENDS Integers, Sequences, SequencesExt

CONSTANTS
  FILTER_BUDGET,      \* buffers sniffed before the sniffer gives up
  MaxWrites           \* application writes followed

VARIABLES
  vision,   \* VisionSession and VisionCodec
  splice,   \* the relay's own locals
  app,      \* the application's end of the pipe
  peer      \* the server: what it still sends, what is on the wire, what it received
visionVars == <<vision, splice, app, peer>>

CONTINUE == 0
END == 1
DIRECT == 2
PADDING_HEADER_LEN == 5
FRAME_OVERHEAD == 1 + PADDING_HEADER_LEN      \* the UUID is one byte here

-----------------------------------------------------------------------------
(* The state of a new connection.                                          *)
NewVision ==
  [budget |-> FILTER_BUDGET, xtls |-> FALSE, is_tls |-> FALSE, tls12 |-> FALSE, suite |-> FALSE, hello |-> FALSE,
   uuid |-> TRUE, is_padding |-> TRUE,
   within |-> TRUE, direct |-> FALSE, command |-> -1, content |-> -1, padding |-> -1, current |-> CONTINUE,
   request |-> TRUE, response |-> <<>>, answered |-> FALSE]

(* The inner-handshake sniffer on a buffer that opens as tls says; "none"  *)
(* is the empty buffer.                                                    *)
ServerHellos == {"hello13", "hello13_ccm8", "hello12", "hello_open", "hello_short"}
filter_tls(v, tls) ==
  LET server == tls \in ServerHellos
      seen == [v EXCEPT !.budget = @ - 1,
                        !.is_tls = @ \/ server \/ tls = "client_hello",
                        !.tls12 = @ \/ server,
                        !.suite = IF server THEN tls \notin {"hello13_ccm8", "hello_short"} ELSE @,
                        !.hello = @ \/ server]
  IN  CASE tls = "none" -> v
        [] tls # "none" /\ seen.hello /\ tls \in {"hello13", "hello13_ccm8", "rest13"} ->
             [seen EXCEPT !.xtls = @ \/ seen.suite, !.budget = 0]
        [] tls # "none" /\ seen.hello /\ tls \in {"hello12", "rest12"} -> [seen EXCEPT !.hello = FALSE, !.budget = 0]
        [] OTHER -> seen

-----------------------------------------------------------------------------
(* Uplink: application bytes into frames.                                  *)
emit(v, out, content, command) ==
  [v |-> [v EXCEPT !.uuid = FALSE],
   out |-> Append(out, [k |-> "frame", uuid |-> v.uuid, command |-> command, content |-> content])]

(* A write that leaves no room for a frame header is split in two, at the  *)
(* last record boundary or in the middle of a record.                      *)
reshape(chunk) ==
  LET opens == chunk.tls \in {"app_data", "app_part"}
  IN  IF chunk.big
      THEN <<[bytes |-> <<chunk.bytes[1]>>, opens |-> opens],
             [bytes |-> <<chunk.bytes[2]>>, opens |-> opens /\ chunk.cut = "boundary"]>>
      ELSE <<[bytes |-> chunk.bytes, opens |-> opens]>>

is_complete_record(chunk) == chunk.tls = "app_data"

final_command(v) == IF v.xtls THEN DIRECT ELSE END

(* One piece of a write; stopped records that the loop was left.           *)
frame_piece(s, piece, complete, last) ==
  LET v == s.v
      sent(command, padded) ==
        LET e == emit([v EXCEPT !.is_padding = padded], s.out, piece.bytes, command) IN [s EXCEPT !.v = e.v, !.out = e.out]
  IN  CASE s.stopped -> s
        [] ~s.stopped /\ v.is_tls /\ piece.opens /\ complete ->
             [sent(IF last THEN final_command(v) ELSE CONTINUE, FALSE) EXCEPT !.switch = @ \/ v.xtls]
        [] ~s.stopped /\ ~(v.is_tls /\ piece.opens /\ complete) /\ ~v.tls12 /\ v.budget <= 1 ->
             [sent(END, FALSE) EXCEPT !.stopped = TRUE]
        [] OTHER -> sent(IF last /\ ~v.is_padding THEN final_command(v) ELSE CONTINUE, v.is_padding)

session_uplink(v0, chunk, out) ==
  LET v == IF v0.budget > 0 THEN filter_tls(v0, chunk.tls) ELSE v0
      pieces == reshape(chunk)
      start == [v |-> v, out |-> out, switch |-> FALSE, stopped |-> FALSE]
      first == frame_piece(start, pieces[1], is_complete_record(chunk), Len(pieces) = 1)
  IN  IF ~v.is_padding
      THEN [start EXCEPT !.out = Append(out, [k |-> "plain", content |-> chunk.bytes])]
      ELSE IF Len(pieces) = 1 THEN first ELSE frame_piece(first, pieces[2], is_complete_record(chunk), TRUE)

take_request(v) == IF v.request THEN <<[k |-> "request"]>> ELSE <<>>
uplink(v, chunk) == session_uplink([v EXCEPT !.request = FALSE], chunk, take_request(v))

on_first_write_timeout(v) ==
  LET taken == [v EXCEPT !.request = FALSE]
  IN  IF v.is_padding THEN emit(taken, take_request(v), <<>>, CONTINUE) ELSE [v |-> taken, out |-> take_request(v)]

-----------------------------------------------------------------------------
(* Downlink: decrypted bytes back into application bytes, one at a time.   *)
header_byte(v, n) ==
  LET left == [v EXCEPT !.command = @ - 1]
  IN  CASE v.command = 5 -> [left EXCEPT !.current = n]
        [] v.command = 4 -> [left EXCEPT !.content = 256 * n]
        [] v.command = 3 -> [left EXCEPT !.content = @ + n]
        [] v.command = 2 -> [left EXCEPT !.padding = 256 * n]
        [] v.command = 1 -> [left EXCEPT !.padding = @ + n]

in_content(v) == v.command <= 0 /\ v.content > 0
take_byte(v, byte) ==
  IF v.command > 0 THEN header_byte(v, byte.v)
  ELSE IF in_content(v) THEN [v EXCEPT !.content = @ - 1] ELSE [v EXCEPT !.padding = @ - 1]
frame_over(s, took) ==
  IF took.command > 0 \/ took.content > 0 \/ took.padding > 0 THEN [s EXCEPT !.v = took]
  ELSE IF took.current = CONTINUE THEN [s EXCEPT !.v = [took EXCEPT !.command = PADDING_HEADER_LEN]]
  ELSE [s EXCEPT !.v = [took EXCEPT !.command = -1, !.content = -1, !.padding = -1], !.raw = TRUE]

unpad_byte(s, byte) ==
  CASE s.error -> s
    [] ~s.error /\ s.raw -> [s EXCEPT !.out = Append(@, byte)]
    [] ~s.error /\ ~s.raw /\ s.v.command = 5 /\ byte.v \notin {CONTINUE, END, DIRECT} -> [s EXCEPT !.error = TRUE]
    [] OTHER -> frame_over(IF in_content(s.v) THEN [s EXCEPT !.out = Append(@, byte)] ELSE s, take_byte(s.v, byte))

unpad(v, input) ==
  LET start == [v |-> v, out |-> <<>>, raw |-> FALSE, error |-> FALSE]
      opening == v.command = -1 /\ v.content = -1 /\ v.padding = -1
      first == Len(input) >= FRAME_OVERHEAD /\ input[1].k = "uuid"
  IN  IF opening /\ ~first THEN [start EXCEPT !.out = input]
      ELSE FoldLeft(unpad_byte, IF opening THEN [start EXCEPT !.v.command = PADDING_HEADER_LEN] ELSE start,
                    IF opening THEN Tail(input) ELSE input)

sniffed(out) == IF out = <<>> THEN "none" ELSE out[1].tls
sniff(s) == IF s.v.budget > 0 THEN [s EXCEPT !.v = filter_tls(@, sniffed(s.out))] ELSE s

(* Mutant: the command counts as soon as it is read, content or not. *)
early_command(v) ==
  IF v.current = CONTINUE THEN [v EXCEPT !.within = TRUE]
  ELSE [v EXCEPT !.within = FALSE, !.direct = (v.current = DIRECT)]
(* What the reader concludes from the last frame it is in or has read.     *)
after_unpad(v) ==
  IF v.content > 0 \/ v.padding > 0 \/ v.current = CONTINUE THEN [v EXCEPT !.within = TRUE]
  ELSE [v EXCEPT !.within = FALSE, !.direct = (v.current = DIRECT)]

unpadded(v, read) ==
  IF read.error THEN [v |-> v, out |-> <<>>, error |-> TRUE]
  ELSE sniff([v |-> after_unpad(read.v), out |-> read.out, error |-> FALSE])
session_downlink(v, plain) ==
  LET verbatim == [v |-> v, out |-> plain, error |-> FALSE]
  IN  IF v.direct THEN verbatim
      ELSE IF v.within \/ v.budget > 0 THEN unpadded(v, unpad(v, plain))
      ELSE sniff(verbatim)

(* The VLESS response header comes first, in as many pieces as it likes.   *)
downlink(v, plain) ==
  LET buffered == v.response \o plain
      waits == [v |-> [v EXCEPT !.response = buffered], out |-> <<>>, error |-> FALSE]
      length == 2 + buffered[2].v
      body == SubSeq(buffered, length + 1, Len(buffered))
      done == [v EXCEPT !.response = <<>>, !.answered = TRUE]
  IN  IF ~v.answered /\ Len(buffered) < 2 THEN waits
      ELSE IF ~v.answered /\ buffered[1].v # 0 THEN [waits EXCEPT !.error = TRUE]
      ELSE IF ~v.answered /\ Len(buffered) < length THEN waits
      ELSE IF ~v.answered /\ body = <<>> THEN [v |-> done, out |-> <<>>, error |-> FALSE]
      ELSE session_downlink(IF v.answered THEN v ELSE done, IF v.answered THEN plain ELSE body)

-----------------------------------------------------------------------------
(* The relay.  delay is the one-shot prelude deadline: "set" until the     *)
(* application read is polled, "armed" while that read is waiting, "gone"  *)
(* when it was used or dropped.                                            *)
NewSplice == [inbound |-> <<>>, up |-> FALSE, down |-> FALSE, delay |-> "set", ended |-> FALSE, failed |-> FALSE]
Running == ~splice.ended
Wire(units, encrypted) == [i \in DOMAIN units |-> [enc |-> encrypted, unit |-> units[i]]]
SendTo(units, encrypted) == peer' = [peer EXCEPT !.received = @ \o Wire(units, encrypted)]

(* The read arm is polled with nothing to read.                            *)
PollApp ==
  /\ Running /\ splice.delay = "set" /\ app.sent = <<>> /\ ~app.closed
  /\ splice' = [splice EXCEPT !.delay = "armed"]
  /\ UNCHANGED <<vision, app, peer>>

ReadApp ==
  /\ Running /\ app.sent # <<>>
  /\ \E framed \in {uplink(vision, Head(app.sent))} :
     LET chunk == Head(app.sent)
     IN  /\ app' = [app EXCEPT !.sent = Tail(@), !.taken = @ \o chunk.bytes]
         /\ IF splice.up
            THEN /\ SendTo(<<[k |-> "plain", content |-> chunk.bytes]>>, FALSE)
                 /\ splice' = [splice EXCEPT !.delay = "gone"]
                 /\ UNCHANGED vision
            ELSE /\ vision' = framed.v
                 /\ SendTo(framed.out, TRUE)
                 /\ splice' = [splice EXCEPT !.delay = "gone", !.up = framed.switch]

ReadAppIdle ==
  /\ Running /\ splice.delay = "armed" /\ app.sent = <<>> /\ ~app.closed
  /\ LET framed == on_first_write_timeout(vision)
     IN  vision' = framed.v /\ SendTo(framed.out, TRUE)
  /\ splice' = [splice EXCEPT !.delay = "gone"]
  /\ UNCHANGED app

ReadAppEof ==
  /\ Running /\ app.sent = <<>> /\ app.closed
  /\ splice' = [splice EXCEPT !.ended = TRUE]
  /\ UNCHANGED <<vision, app, peer>>

(* One unit of the network's bytes: the head of a record, its body, or     *)
(* bytes outside any record.                                               *)
fed_plain(s, read) ==
  [s EXCEPT !.inbound = <<>>, !.v = read.v, !.out = @ \o read.out, !.error = read.error, !.stopped = read.error \/ read.v.direct]
feed_unit(s, unit) ==
  IF s.stopped \/ unit.k = "head" THEN [s EXCEPT !.inbound = Append(@, unit)]
  ELSE IF unit.k = "raw" THEN [s EXCEPT !.error = TRUE, !.stopped = TRUE]
  ELSE IF unit.plain = <<>> THEN [s EXCEPT !.inbound = <<>>, !.closed = unit.close, !.stopped = unit.close]
  ELSE fed_plain(s, downlink(s.v, unit.plain))

feed_records(v, inbound) ==
  FoldLeft(feed_unit, [v |-> v, inbound |-> <<>>, out |-> <<>>, error |-> FALSE, closed |-> FALSE, stopped |-> FALSE], inbound)

Unwrapped(units) == FlattenSeq([i \in DOMAIN units |-> units[i].plain])

(* The network arm wins the select: the application read is dropped, with  *)
(* its deadline when it had been polled.                                   *)
ReadNetwork(n) ==
  /\ Running /\ n \in 1 .. Len(peer.wire)
  /\ \E fed \in {feed_records(vision, splice.inbound \o SubSeq(peer.wire, 1, n))} :
     LET came == SubSeq(peer.wire, 1, n)
         switched == fed.v.direct
     IN  /\ peer' = [peer EXCEPT !.wire = SubSeq(@, n + 1, Len(@))]
         /\ \E delay \in IF splice.delay = "set" THEN {"set", "gone"} ELSE {"gone"} :
              IF splice.down
              THEN /\ app' = [app EXCEPT !.read = @ \o Unwrapped(came)]
                   /\ splice' = [splice EXCEPT !.delay = delay]
                   /\ UNCHANGED vision
              ELSE /\ vision' = fed.v
                   /\ app' = [app EXCEPT !.read = @ \o fed.out \o (IF switched THEN Unwrapped(fed.inbound) ELSE <<>>)]
                   /\ splice' = [splice EXCEPT !.delay = delay, !.down = switched,
                                               !.inbound = IF switched THEN <<>> ELSE fed.inbound,
                                               !.ended = fed.error \/ fed.closed, !.failed = fed.error]

ReadNetworkEof ==
  /\ Running /\ peer.wire = <<>> /\ peer.closed
  /\ splice' = [splice EXCEPT !.ended = TRUE]
  /\ UNCHANGED <<vision, app, peer>>

-----------------------------------------------------------------------------
(* The application writes when it likes; tls says how a buffer opens.      *)
AppWrite(tls, big, cut) ==
  /\ Running /\ ~app.closed /\ app.sent = <<>> /\ app.writes < MaxWrites
  /\ LET n == 2 * app.writes + 1
         chunk == [tls |-> tls, big |-> big, cut |-> cut, bytes |-> IF big THEN <<n, n + 1>> ELSE <<n>>]
     IN  app' = [app EXCEPT !.sent = <<chunk>>, !.writes = @ + 1]
  /\ UNCHANGED <<vision, splice, peer>>

AppClose ==
  /\ Running /\ ~app.closed
  /\ app' = [app EXCEPT !.closed = TRUE]
  /\ UNCHANGED <<vision, splice, peer>>

(* A byte the server sends: the response header, frames, their content and *)
(* padding; raw marks bytes it writes outside any record.                  *)
Token(k, v, tls, raw) == [k |-> k, v |-> v, tls |-> tls, raw |-> raw]
Num(v) == Token("num", v, "plain", FALSE)
Data(v, tls) == Token("data", v, tls, FALSE)
RawData(v) == Token("data", v, "plain", TRUE)
Frame(command, content, padding) ==
  <<Token("command", command, "plain", FALSE), Num(0), Num(Len(content)), Num(0), Num(padding)>>
    \o content \o [i \in 1 .. padding |-> Token("pad", 0, "plain", FALSE)]
FirstFrame(command, content, padding) == <<Token("uuid", 99, "plain", FALSE)>> \o Frame(command, content, padding)
ResponseHeader(addons) ==
  <<Token("version", 0, "plain", FALSE), Token("addons", addons, "plain", FALSE)>>
    \o [i \in 1 .. addons |-> Token("addon", 7, "plain", FALSE)]

Record(plain, close) == <<[k |-> "head", plain |-> <<>>, close |-> FALSE], [k |-> "body", plain |-> plain, close |-> close]>>

(* A TLS 1.3 server sends session tickets as soon as the handshake ends:   *)
(* records with no plaintext.                                              *)
PeerTicket ==
  /\ ~peer.ticketed /\ ~peer.closed
  /\ peer' = [peer EXCEPT !.ticketed = TRUE, !.wire = @ \o Record(<<>>, FALSE)]
  /\ UNCHANGED <<vision, splice, app>>

(* Where in its script the server may end a record without misleading the  *)
(* reader: not inside the header of the opening frame, whose block passes  *)
(* for unframed bytes when it is shorter than FRAME_OVERHEAD, nor inside   *)
(* the header of an END or DIRECT frame before a length byte that is not   *)
(* zero, because downlink then takes the command for carried out.          *)
InHeader(p) == p < Len(peer.script) /\ (peer.script[p].k = "uuid" \/ peer.script[p + 1].k = "num")
Told(p) ==
  InHeader(p) =>
    \E c \in 2 .. p :
      /\ peer.script[c].k = "command" /\ peer.script[c - 1].k # "uuid"
      /\ \A i \in c + 1 .. p : peer.script[i].k = "num"
      /\ peer.script[c].v = CONTINUE \/ \E i \in c + 1 .. p : peer.script[i].v # 0

(* Having the request, the server answers, in records of any size; misled  *)
(* records that one of them ended where the reader is not told enough.     *)
PeerRecord(n) ==
  /\ ~peer.closed /\ peer.received # <<>> /\ n \in 1 .. Len(peer.todo)
  /\ \A i \in 1 .. n : ~peer.todo[i].raw
  /\ peer' = [peer EXCEPT !.todo = SubSeq(@, n + 1, Len(@)), !.wire = @ \o Record(SubSeq(peer.todo, 1, n), FALSE),
                          !.misled = @ \/ ~Told(Len(peer.script) - Len(peer.todo) + n)]
  /\ UNCHANGED <<vision, splice, app>>

PeerRaw ==
  /\ ~peer.closed /\ peer.todo # <<>> /\ peer.todo[1].raw
  /\ peer' = [peer EXCEPT !.todo = Tail(@), !.wire = Append(@, [k |-> "raw", plain |-> <<peer.todo[1]>>, close |-> FALSE])]
  /\ UNCHANGED <<vision, splice, app>>

PeerClose ==
  /\ ~peer.closed /\ peer.received # <<>> /\ peer.todo = <<>>
  /\ \/ peer' = [peer EXCEPT !.closed = TRUE]
     \/ ~(\E i \in DOMAIN peer.script : peer.script[i].raw) /\ peer' = [peer EXCEPT !.closed = TRUE, !.wire = @ \o Record(<<>>, TRUE)]
  /\ UNCHANGED <<vision, splice, app>>

-----------------------------------------------------------------------------
VisionInit(scripts) ==
  /\ vision = NewVision /\ splice = NewSplice
  /\ app = [sent |-> <<>>, taken |-> <<>>, read |-> <<>>, writes |-> 0, closed |-> FALSE]
  /\ \E script \in scripts :
       peer = [script |-> script, todo |-> script, wire |-> <<>>, received |-> <<>>, ticketed |-> FALSE, closed |-> FALSE,
               misled |-> FALSE]

-----------------------------------------------------------------------------
(* How a server that follows the framing reads what it is sent.            *)
ServerStep(s, w) ==
  LET u == w.unit
  IN  CASE s.phase = "header" /\ w.enc /\ u.k = "request" -> [s EXCEPT !.phase = "first"]
        [] s.phase \in {"first", "frames"} /\ w.enc /\ u.k = "frame" /\ u.uuid = (s.phase = "first") ->
             [s EXCEPT !.got = @ \o u.content,
                       !.phase = CASE u.command = CONTINUE -> "frames" [] u.command = END -> "plain" [] OTHER -> "raw"]
        [] s.phase \in {"plain", "raw"} /\ w.enc = (s.phase = "plain") /\ u.k = "plain" -> [s EXCEPT !.got = @ \o u.content]
        [] OTHER -> [s EXCEPT !.bad = TRUE]
ServerReads(received) == FoldLeft(ServerStep, [phase |-> "header", got |-> <<>>, bad |-> FALSE], received)

IsData(token) == token.k = "data"
ScriptData == SelectSeq(peer.script, IsData)

(* The server reads exactly the bytes the relay took from the application, *)
(* the request header first and once: vision.rs and splice.rs, uplink.     *)
UplinkIntact ==
  LET s == ServerReads(peer.received) IN ~s.bad /\ s.got = app.taken

(* The application reads the bytes the server sent as data, in order, with *)
(* nothing of the framing, and all of them once everything was relayed;    *)
(* a server that follows the framing never breaks the relay.  Its records  *)
(* end anywhere in the content, the padding and the headers of the frames, *)
(* but for the two places Told leaves out: vision.rs:473-491 loses the     *)
(* framing there.                                                          *)
DownlinkIntact ==
  ~peer.misled =>
  /\ IsPrefix(app.read, ScriptData)
  /\ ~splice.failed
  /\ Running /\ peer.todo = <<>> /\ peer.wire = <<>> => app.read = ScriptData

(* Both directions of a spliced connection carry their bytes intact.       *)
SpliceIntact == UplinkIntact /\ DownlinkIntact

(* The request header is sent at last, whether or not the application      *)
(* writes first: the prelude deadline of splice.rs:58-66.                  *)
RequestSent == <>(peer.received # <<>> \/ splice.ended)
=============================================================================
