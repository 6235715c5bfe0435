------------------------------ MODULE Framing -------------------------------
(***************************************************************************)
(* The byte streams of the outbounds, in two parts: streams whose request  *)
(* header rides on the first write, and the adapters that frame what they  *)
(* carry.                                                                  *)
(*                                                                         *)
(* First-write streams are Trojan's PrefixedStream and the Shadowsocks     *)
(* stream with its target address, each under the ServerFirstStream that   *)
(* sends the header on a first read.  A relay polls the two halves from    *)
(* two tasks; every poll finds some room in the carrier and is pending     *)
(* when the room runs out.                                                 *)
(***************************************************************************)
EXTENDS Integers, Sequences, SequencesExt

CONSTANTS
  AppBytes,     \* the bytes the application writes, in order
  MaxRoom       \* bytes the carrier takes in one poll

VARIABLE first
firstVars == <<first>>

Header == <<-2, -1>>

(* kind says which inner stream is wrapped.  sent counts the prefix bytes  *)
(* of Trojan; state, and the first chunk in flight, belong to Shadowsocks. *)
NewFirst(kind) ==
  [kind |-> kind, phase |-> "Idle", sent |-> 0, state |-> "Connect", chunk |-> <<>>,
   carrier |-> <<>>, offer |-> 0, acked |-> 0, shut |-> FALSE]

Fewer(a, b) == IF a < b THEN a ELSE b
Beyond(s, n) == SubSeq(s, n + 1, Len(s))
Outcome(f, room, ready, count) == [f |-> f, room |-> room, ready |-> ready, count |-> count]

(* The carrier takes what it has room for.                                 *)
carrier_write(f, bytes, room) ==
  LET n == Fewer(room, Len(bytes))
  IN  Outcome([f EXCEPT !.carrier = @ \o SubSeq(bytes, 1, n)], room - n, n > 0, n)

-----------------------------------------------------------------------------
(* Trojan: the prefix leaves whole before any payload does.                *)
poll_prefix(f, room) ==
  LET put == carrier_write(f, Beyond(Header, f.sent), room)
      now == [put.f EXCEPT !.sent = @ + put.count]
  IN  Outcome(now, put.room, now.sent = Len(Header), 0)

trojan_write(f, bytes, room) ==
  LET prefix == poll_prefix(f, room)
  IN  IF ~prefix.ready \/ bytes = <<>> THEN prefix ELSE carrier_write(prefix.f, bytes, prefix.room)

(* The Shadowsocks writer: it takes a buffer, sends it as one chunk over   *)
(* as many polls as that needs, and answers when the chunk is out.         *)
poll_write_encrypted(f, bytes, room) ==
  LET put == carrier_write(f, bytes, room)
      rest == Beyond(bytes, put.count)
  IN  Outcome([put.f EXCEPT !.chunk = rest], put.room, rest = <<>>, Len(bytes))

(* The address joins the first write; while that write is in flight the    *)
(* caller's buffer is not looked at, and its length is what is answered.   *)
shadowsocks_write(f, bytes, room) ==
  LET opening == f.state = "Connect"
      out == poll_write_encrypted([f EXCEPT !.state = "Connecting"], IF opening THEN Header \o bytes ELSE f.chunk, room)
      resumed == f.chunk # <<>>
  IN  CASE f.state \in {"Connect", "Connecting"} ->
             IF out.ready THEN Outcome([out.f EXCEPT !.state = "Connected"], out.room, TRUE, Len(bytes)) ELSE out
        [] f.state = "Connected" ->
             [poll_write_encrypted(f, IF resumed THEN f.chunk ELSE bytes, room) EXCEPT !.count = Len(bytes)]

inner_write(f, bytes, room) ==
  IF f.kind = "trojan" THEN trojan_write(f, bytes, room) ELSE shadowsocks_write(f, bytes, room)
inner_flush(f, room) == IF f.kind = "trojan" THEN poll_prefix(f, room) ELSE Outcome(f, room, TRUE, 0)

-----------------------------------------------------------------------------
(* ServerFirstStream.                                                      *)
poll_prime(f, room, flushes) ==
  LET put == inner_write([f EXCEPT !.phase = "Priming"], <<>>, room)
      flushed == inner_flush(put.f, put.room)
  IN  IF ~put.ready THEN put
      ELSE IF flushes /\ flushed.ready THEN Outcome([flushed.f EXCEPT !.phase = "Written"], flushed.room, TRUE, 0)
      ELSE Outcome(flushed.f, flushed.room, FALSE, 0)

(* Mutant: a write arriving in the middle of priming goes straight on. *)
no_finish(f, room) == Outcome([f EXCEPT !.phase = "Written"], room, TRUE, 0)
(* A priming write that was pending is finished by whoever polls next.     *)
poll_finish_priming(f, room) ==
  LET put == inner_write(f, <<>>, room)
  IN  IF f.phase # "Priming" THEN Outcome([f EXCEPT !.phase = "Written"], room, TRUE, 0)
      ELSE IF put.ready THEN Outcome([put.f EXCEPT !.phase = "Written"], put.room, TRUE, 0)
      ELSE put

(* The reading task polls; whatever it then reads comes from the carrier.  *)
(* Mutant: reading leaves the header to the first write. *)
PollReadOnly(room, flushes) == first.phase # "Written" /\ UNCHANGED first
PollRead(room, flushes) ==
  /\ first.phase # "Written"
  /\ first' = poll_prime(first, room, flushes).f

(* The writing task offers its next n bytes until they are answered for.   *)
PollWrite(room, n) ==
  LET offered == [first EXCEPT !.offer = n]
      ready == poll_finish_priming(offered, room)
      put == inner_write(ready.f, SubSeq(AppBytes, first.acked + 1, first.acked + n), ready.room)
  IN  /\ ~first.shut /\ first.acked + n <= Len(AppBytes) /\ first.offer \in {0, n}
      /\ first' = IF ~ready.ready THEN ready.f
                  ELSE IF put.ready THEN [put.f EXCEPT !.acked = @ + put.count, !.offer = 0] ELSE put.f

PollFlush(room) ==
  LET ready == poll_finish_priming(first, room)
  IN  /\ ~first.shut /\ first.acked > 0 /\ first.offer = 0
      /\ first' = IF ready.ready THEN inner_flush(ready.f, ready.room).f ELSE ready.f

(* Once begun, shutdown is polled until it is done.                        *)
Closing == -1
PollShutdown(room) ==
  LET ready == poll_finish_priming([first EXCEPT !.offer = Closing], room)
      flushed == inner_flush(ready.f, ready.room)
  IN  /\ ~first.shut /\ first.offer \in {0, Closing}
      /\ first' = IF ready.ready /\ flushed.ready THEN [flushed.f EXCEPT !.shut = TRUE]
                  ELSE IF ready.ready THEN flushed.f ELSE ready.f

FirstRooms == 0 .. MaxRoom
FirstNext ==
  \/ \E room \in FirstRooms, flushes \in BOOLEAN : PollRead(room, flushes)
  \/ \E room \in FirstRooms, n \in 1 .. 2 : PollWrite(room, n)
  \/ \E room \in FirstRooms : PollFlush(room) \/ PollShutdown(room)

(* A task that waits on the carrier is polled again when there is room.    *)
FirstFairness ==
  /\ WF_firstVars(\E room \in FirstRooms \ {0} : PollRead(room, TRUE))
  /\ WF_firstVars(first.offer > 0 /\ \E room \in FirstRooms \ {0} : PollWrite(room, first.offer))
  /\ WF_firstVars(first.offer = Closing /\ \E room \in FirstRooms \ {0} : PollShutdown(room))

-----------------------------------------------------------------------------
(* What the carrier was given is the header and then the application's     *)
(* bytes, each once and in order, and every byte that was answered for is  *)
(* there: the two rules of serverfirst.rs:19-35.                           *)
HeaderThenBytes ==
  LET out == first.carrier \o first.chunk
  IN  /\ IsPrefix(out, Header \o AppBytes)
      /\ first.acked > 0 => Len(out) >= Len(Header) + first.acked

(* A stream that is only read still sends its header, unless it is shut    *)
(* down before: serverfirst.rs:11-17.                                      *)
HeaderReaches == <>(IsPrefix(Header, first.carrier) \/ first.shut)

-----------------------------------------------------------------------------
(***************************************************************************)
(* The byte streams that wrap a carrier: VLESS with its lazy response      *)
(* header, VLESS encryption, VMess, simple-obfs, gRPC, HTTP/2 bodies,      *)
(* NaiveProxy padding, HTTP Upgrade, HTTP CONNECT and ShadowTLS.  Each is  *)
(* an encoder that owns the bytes it answered for and a decoder that is    *)
(* polled over chunks cut anywhere.  The far end writes with the encoder   *)
(* of the same protocol, or with the one its server is known to use.       *)
(*                                                                         *)
(* A unit on the wire is an application byte (positive), or a token of the *)
(* framing: a number (N), a mark, a tag bound to a nonce, padding.  Long   *)
(* headers are shortened to the units whose boundaries matter.             *)
(***************************************************************************)

CONSTANTS
  Payload,            \* the bytes one end writes, in order
  MAX_RECORD,         \* application bytes one record carries at most
  MAX_HEAD,           \* units of an HTTP response head that are read at most
  FIRST_PADDINGS,     \* NaiveProxy frames that are padded in each direction
  MAX_NONCE,          \* the last nonce of VLESS encryption before it rekeys
  MAX_COUNTER         \* the last chunk counter of VMess

VARIABLE link
framingVars == <<link>>

N(n) == -10 - n
num(u) == -10 - u
IsNum(u) == u <= -10 /\ u > -40
Mark == -1
Pad == -2
Version == -3
Field == -4
HeadLine == -5
BadLine == -6
HeadEnd == -7
Alert == -8
Random == -40
RespLength == -41
RespOk == -42
RespBad == -43
ServerHello == -44
ChangeCipher == -45
Handshake == -46
(* A tag authenticates with the key epoch and the nonce it was made with.  *)
Tag(c) == -100 - 10 * c.epoch - c.nonce
ProofTag(i) == -200 - i

Least(a, b) == IF a < b THEN a ELSE b
Drop(s, n) == SubSeq(s, n + 1, Len(s))
Take(s, n) == SubSeq(s, 1, Least(n, Len(s)))
Bytes(s) == SelectSeq(s, LAMBDA u : u > 0)

Crypt == [epoch |-> 0, nonce |-> 0]
Side == [first |-> TRUE, frames |-> 0, crypt |-> Crypt, on |-> TRUE, skip |-> 0, header |-> <<>>, pos |-> 0]

(* head is what the far end sends before its first record; cut says that   *)
(* the far end was lost, gave up or broke its protocol.                    *)
NewLink(kind, state, head) ==
  [kind |-> kind, up |-> Side, pipe |-> <<>>, out |-> <<>>, acked |-> Len(Bytes(head)), ends |-> {Len(head)}, closing |-> FALSE, got |-> 0,
   sent |-> head, wire |-> head, shut |-> FALSE, cut |-> FALSE,
   down |-> Side, state |-> state, zero_rtt |-> FALSE, need |-> 0, pad |-> 0, buf |-> <<>>, plain |-> <<>>, read |-> <<>>, end |-> "open"]

-----------------------------------------------------------------------------
(* What the adapters share: an outbox drained as far as the carrier takes  *)
(* it, and a poll that serves what is decoded, else decodes what is        *)
(* buffered, else reads the carrier once.                                  *)
Unsent == Drop(Payload, link.acked)
Put(l, units) == [l EXCEPT !.sent = @ \o units, !.wire = @ \o units]
Drained(l, room) == [Put(l, Take(l.out, room)) EXCEPT !.out = Drop(@, room)]

(* ends is where the records end on the wire.                              *)
WithEnd(l) == [l EXCEPT !.ends = @ \cup {Len(l.sent) + Len(l.out)}]

(* Mutant: what the outbox could not send is thrown away. *)
BufferedWrite_loses(l, room, framed, bytes) == Drained(WithEnd([framed EXCEPT !.acked = @ + Len(bytes)]), room)

(* framed is the drained link with a frame of bytes in its outbox.         *)
BufferedWrite(l, room, framed, bytes) ==
  LET drained == Drained(l, room)
  IN  IF drained.out # <<>> \/ bytes = <<>> THEN drained
      ELSE Drained(WithEnd([framed EXCEPT !.acked = @ + Len(bytes)]), room - Len(l.out))
DirectWrite(l, room, bytes) == [Put(l, Take(bytes, room)) EXCEPT !.acked = @ + Len(Take(bytes, room))]
ShutWhenDrained(l, room) == LET drained == Drained(l, room) IN [drained EXCEPT !.shut = l.acked > 0 /\ drained.out = <<>>]

Raw(l, bytes) == [l EXCEPT !.out = bytes]
Buffer(l, units) == [l EXCEPT !.buf = @ \o units]
Eof(l) == "eof"

(* One turn of a decoder's poll loop; n bounds what is read or served.     *)
PollOnce(l, n, Parse(_), Fill(_, _), AtEof(_)) ==
  IF l.plain # <<>> THEN [l EXCEPT !.read = @ \o Take(l.plain, n), !.plain = Drop(@, n)]
  ELSE IF Parse(l) # l THEN Parse(l)
  ELSE IF l.wire # <<>> THEN [Fill(l, Take(l.wire, n)) EXCEPT !.wire = Drop(@, n), !.got = @ + Len(Take(l.wire, n))]
  ELSE IF l.shut THEN [l EXCEPT !.end = AtEof(l)]
  ELSE l
Polled(kind, next) == link.kind = kind /\ link.end = "open" /\ link' = next /\ link' # link
Written(kind, next) == link.kind = kind /\ ~link.shut /\ link' = next /\ link' # link

-----------------------------------------------------------------------------
(* VLESS encryption: a nonce that wraps after a rekey, and a mask over the *)
(* record headers only.                                                    *)
advance(c) == [c EXCEPT !.nonce = (@ + 1) % (MAX_NONCE + 1)]
at_max_nonce(c) == c.nonce = MAX_NONCE
rekeyed(c) == IF at_max_nonce(c) THEN [epoch |-> c.epoch + 1, nonce |-> 0] ELSE advance(c)

HEADER == 2
decode_header_raw(h) == IF h[1] = Mark /\ IsNum(h[2]) THEN num(h[2]) ELSE 0
decode_header(h) == LET n == decode_header_raw(h) IN IF n \in 2 .. MAX_RECORD + 1 THEN n ELSE -1

masked(u, pos) == u - 1000 * (pos + 1)
unmasked(u, pos) == u + 1000 * (pos + 1)

(* The keystream is spent on headers, wherever the buffers are cut.        *)
walk(side, units, outbound) ==
  FoldLeft(LAMBDA acc, u :
      IF acc.side.skip > 0 THEN [acc EXCEPT !.side.skip = @ - 1, !.out = Append(@, u)]
      ELSE IF ~acc.side.on THEN [acc EXCEPT !.out = Append(@, u)]
      ELSE LET clear == IF outbound THEN u ELSE unmasked(u, acc.side.pos)
               header == Append(acc.side.header, clear)
               full == Len(header) = HEADER
           IN  [side |-> [acc.side EXCEPT !.pos = @ + 1, !.header = IF full THEN <<>> ELSE header,
                                          !.skip = IF full THEN decode_header_raw(header) ELSE 0],
                out |-> Append(acc.out, IF outbound THEN masked(u, acc.side.pos) ELSE clear)],
    [side |-> side, out |-> <<>>], units)

(* What a resumed session puts before its first record, and the mask skips. *)
pre_write(side) == [i \in 1 .. side.skip |-> Random]

(* Mutant: a rekey starts the nonce over under the same key. *)
enc_frame_same_key(l, bytes) ==
  LET c == advance(l.up.crypt)
      put == walk(l.up, pre_write(l.up) \o <<Mark, N(Len(bytes) + 1)>> \o bytes \o <<Tag(c)>>, TRUE)
  IN  [l EXCEPT !.out = put.out, !.up = [put.side EXCEPT !.crypt = c]]
enc_frame(l, bytes) ==
  LET c == advance(l.up.crypt)
      put == walk(l.up, pre_write(l.up) \o <<Mark, N(Len(bytes) + 1)>> \o bytes \o <<Tag(c)>>, TRUE)
  IN  [l EXCEPT !.out = put.out, !.up = [put.side EXCEPT !.crypt = rekeyed(l.up.crypt)]]

failed(l) == [l EXCEPT !.end = "error"]

enc_need(l) ==
  CASE l.state \in {"ServerRandom", "Padding"} -> 1
    [] l.state = "Header" -> HEADER
    [] OTHER -> l.need
enc_parse(l) ==
  LET c == advance(l.down.crypt)
      n == decode_header(l.buf)
      rest == [l EXCEPT !.buf = <<>>]
  IN  IF Len(l.buf) < enc_need(l) THEN l
      ELSE CASE l.state = "ServerRandom" -> [rest EXCEPT !.state = "Header", !.down.on = TRUE, !.zero_rtt = TRUE]
             [] l.state = "Padding" -> [rest EXCEPT !.state = "Header"]
             [] l.state = "Header" -> IF n = -1 THEN failed(l) ELSE [rest EXCEPT !.state = "Body", !.need = n, !.zero_rtt = FALSE]
             [] l.state = "Body" ->
                  IF Last(l.buf) # Tag(c) THEN failed(l)
                  ELSE [rest EXCEPT !.state = "Header", !.plain = Front(l.buf), !.down.crypt = rekeyed(l.down.crypt)]
enc_eof(l) == IF l.buf = <<>> /\ l.state = "Header" /\ ~l.zero_rtt THEN "eof" ELSE "error"

(* The decoder asks the carrier for what the current state needs, no more. *)
enc_poll_fill(l, units) ==
  LET got == walk(l.down, units, FALSE) IN [l EXCEPT !.buf = @ \o got.out, !.down = got.side]
enc_poll_read(n) ==
  LET room == IF link.plain = <<>> THEN Least(n, enc_need(link) - Len(link.buf)) ELSE n
  IN  Polled("enc", PollOnce(link, room, enc_parse, enc_poll_fill, enc_eof))
enc_poll_write(n, room) == Written("enc", BufferedWrite(link, room, enc_frame(Drained(link, room), Take(Unsent, Least(n, MAX_RECORD))), Take(Unsent, Least(n, MAX_RECORD))))
enc_poll_flush(room) == Written("enc", Drained(link, room))
enc_poll_shutdown(room) == Written("enc", ShutWhenDrained(link, room))

-----------------------------------------------------------------------------
(* VMess: a masked length, a sealed chunk, and an empty chunk at the end.  *)
(* Both directions run in a task of their own behind a pipe, so a decoder  *)
(* that fails reads as the end of the stream.                              *)
exhausted(c) == c.nonce = MAX_COUNTER

encode_uplink(l, bytes) ==
  IF exhausted(l.up.crypt) THEN [l EXCEPT !.shut = TRUE, !.cut = TRUE]
  ELSE [l EXCEPT !.out = <<masked(N(Len(bytes) + 1), l.up.pos)>> \o bytes \o <<Tag(l.up.crypt)>>,
                 !.up.pos = @ + 1, !.up.crypt.nonce = @ + 1, !.closing = bytes = <<>>]

ended(l) == [l EXCEPT !.state = "Ended"]
verify_response_header(l) ==
  CASE l.state = "RespLength" -> IF l.buf[1] # RespLength THEN ended(l) ELSE [l EXCEPT !.buf = Tail(@), !.state = "Response"]
    [] l.state = "Response" -> IF l.buf[1] # RespOk THEN ended(l) ELSE [l EXCEPT !.buf = Tail(@), !.state = "Length"]
decode_downlink(l) ==
  LET n == num(unmasked(l.buf[1], l.down.pos))
      frame == Take(l.buf, l.need)
      rest == [l EXCEPT !.buf = Drop(@, l.need), !.state = "Length", !.plain = Front(frame), !.down.crypt.nonce = @ + 1]
  IN  IF l.buf = <<>> \/ l.state = "Ended" THEN l
      ELSE CASE l.state \in {"RespLength", "Response"} -> verify_response_header(l)
             [] l.state = "Length" ->
                  IF n <= 1 THEN ended(l) ELSE [l EXCEPT !.buf = Tail(@), !.down.pos = @ + 1, !.state = "Frame", !.need = n]
             [] l.state = "Frame" ->
                  IF Len(l.buf) < l.need THEN l
                  ELSE IF exhausted(l.down.crypt) \/ Last(frame) # Tag(l.down.crypt) THEN ended(l)
                  ELSE rest

(* The application's end of the pipe, and the two tasks behind it.         *)
VmessPipe(n) == Written("vmess", [link EXCEPT !.pipe = @ \o Take(Unsent, n), !.acked = @ + Len(Take(Unsent, n))])
VmessUplink(room) ==
  LET bytes == Take(link.pipe, MAX_RECORD)
      read == [link EXCEPT !.pipe = Drop(@, MAX_RECORD)]
  IN  Written("vmess",
        IF link.out # <<>> THEN Drained(link, room)
        ELSE IF link.closing THEN [link EXCEPT !.shut = TRUE]
        ELSE IF bytes # <<>> \/ link.acked = Len(Payload) THEN encode_uplink(read, bytes)
        ELSE link)
(* A decoder that stopped, however it stopped, closes the pipe.            *)
VmessDownlink(n) ==
  Polled("vmess", IF link.state = "Ended" /\ link.plain = <<>> THEN [link EXCEPT !.end = "eof"]
                  ELSE PollOnce(link, n, decode_downlink, Buffer, Eof))

-----------------------------------------------------------------------------
(* VLESS: the response header is stripped when its last byte arrives, and  *)
(* what came with it is kept.                                              *)
response_header_len(buffered) ==
  IF Len(buffered) < 2 \/ Len(buffered) < 2 + num(buffered[2]) THEN -1 ELSE 2 + num(buffered[2])
strip_response(l) ==
  CASE l.buf = <<>> -> l
    [] l.state = "stripped" -> [l EXCEPT !.plain = l.buf, !.buf = <<>>]
    [] l.buf[1] # Version -> failed(l)
    [] response_header_len(l.buf) = -1 -> l
    [] OTHER -> [l EXCEPT !.state = "stripped", !.buf = Drop(@, response_header_len(l.buf))]
lazy_eof(l) == IF l.state = "stripped" THEN "eof" ELSE "error"
lazy_poll_read(n) == Polled("vless", PollOnce(link, n, strip_response, Buffer, lazy_eof))
relay_parse(l) == IF l.buf = <<>> THEN l ELSE [l EXCEPT !.plain = l.buf, !.buf = <<>>]
(* Hysteria2: status, message and padding come before the payload, and are *)
(* taken off by the first read, or by a write if they have arrived.  MAX_HEAD *)
(* bounds the message and the padding.                                     *)
decode_tcp_response(buf) ==
  LET message == num(buf[2])
      padding == num(buf[3 + message])
  IN  IF Len(buf) < 2 THEN "truncated"
      ELSE IF message > MAX_HEAD THEN "too_large"
      ELSE IF Len(buf) < 3 + message THEN "truncated"
      ELSE IF padding > MAX_HEAD THEN "too_large"
      ELSE IF Len(buf) < 3 + message + padding THEN "truncated"
      ELSE IF buf[1] = RespOk THEN "ok" ELSE "refused"
response_len(buf) == 3 + num(buf[2]) + num(buf[3 + num(buf[2])])
(* Mutant: a server that stops inside its header has ended the stream. *)
poll_take_header_eof(l, n) ==
  LET filled == [Buffer(l, Take(l.wire, n)) EXCEPT !.wire = Drop(@, n), !.got = @ + Len(Take(l.wire, n))]
      response == decode_tcp_response(filled.buf)
  IN  IF l.wire = <<>> THEN IF l.shut THEN [l EXCEPT !.end = "eof"] ELSE l
      ELSE CASE response = "truncated" -> filled
             [] response = "too_large" -> failed(filled)
             [] OTHER -> [filled EXCEPT !.buf = Drop(@, response_len(filled.buf)),
                                        !.state = IF response = "ok" THEN "Ready" ELSE "Refused"]
poll_take_header(l, n) ==
  LET filled == [Buffer(l, Take(l.wire, n)) EXCEPT !.wire = Drop(@, n), !.got = @ + Len(Take(l.wire, n))]
      response == decode_tcp_response(filled.buf)
  IN  IF l.wire = <<>> THEN IF l.shut THEN failed(l) ELSE l
      ELSE CASE response = "truncated" -> filled
             [] response = "too_large" -> failed(filled)
             [] OTHER -> [filled EXCEPT !.buf = Drop(@, response_len(filled.buf)),
                                        !.state = IF response = "ok" THEN "Ready" ELSE "Refused"]
hysteria2_poll_read(n) ==
  Polled("hysteria2", CASE link.state = "Reading" -> poll_take_header(link, n)
                        [] link.state = "Refused" -> failed(link)
                        [] link.state = "Ready" -> PollOnce(link, n, relay_parse, Buffer, Eof))
(* A write, or a flush, never waits for the header and keeps what came     *)
(* behind it; one that meets the end of the stream fails, and leaves the   *)
(* reader to find that out for itself.                                     *)
refusal(l, n) == IF l.state = "Reading" /\ l.wire # <<>> THEN poll_take_header(l, n) ELSE l
hysteria2_poll_write(n) == Polled("hysteria2", refusal(link, n))
DirectServer(n, room) ==
  /\ link.kind \in {"vless", "hysteria2", "obfs_http", "upgrade", "connect"}
  /\ \/ Written(link.kind, DirectWrite(link, room, Take(Unsent, n)))
     \/ link.acked > 0 /\ Written(link.kind, [link EXCEPT !.shut = TRUE])

-----------------------------------------------------------------------------
(* simple-obfs.  The client's first write is inside a forged request; the  *)
(* decoder skips a forged response, then relays or reads TLS records.      *)
ClientHello(bytes) == <<ServerHello, N(Len(bytes))>> \o bytes \o <<Pad>>
RequestHead(bytes) == <<HeadLine, N(Len(bytes)), HeadEnd>>
write_limit(l) == IF l.kind = "obfs_http_up" /\ ~l.up.first THEN Len(Payload) ELSE MAX_RECORD
obfs_frame(l, bytes) ==
  [l EXCEPT !.up.first = FALSE,
            !.out = CASE l.kind = "obfs_http_up" -> IF l.up.first THEN RequestHead(bytes) \o bytes ELSE bytes
                      [] l.up.first -> ClientHello(bytes)
                      [] OTHER -> <<Mark, N(Len(bytes))>> \o bytes]
obfs_poll_write(n, room) ==
  link.kind \in {"obfs_http_up", "obfs_tls_up"}
  /\ Written(link.kind, BufferedWrite(link, room, obfs_frame(Drained(link, room), Take(Unsent, Least(n, write_limit(link)))), Take(Unsent, Least(n, write_limit(link)))))
obfs_poll_flush(room) == link.kind \in {"obfs_http_up", "obfs_tls_up"} /\ Written(link.kind, Drained(link, room))
obfs_poll_shutdown(room) ==
  link.kind \in {"obfs_http_up", "obfs_tls_up"} /\ Written(link.kind, ShutWhenDrained(link, room))

(* The server's first answer carries a payload behind three records.       *)
obfs_server_frame(l, bytes) ==
  [l EXCEPT !.up.first = FALSE,
            !.out = (IF l.up.first THEN <<ServerHello, ChangeCipher, Handshake>> ELSE <<Mark>>) \o <<N(Len(bytes))>> \o bytes]
ObfsServer(n, room) ==
  \/ Written("obfs_tls", BufferedWrite(link, room, obfs_server_frame(Drained(link, room), Take(Unsent, Least(n, MAX_RECORD))), Take(Unsent, Least(n, MAX_RECORD))))
  \/ link.acked > 0 /\ Written("obfs_tls", ShutWhenDrained(link, room))

HeadAt(buf) == {i \in DOMAIN buf : buf[i] = HeadEnd}
FIRST_RESPONSE == 4
parse_header(l) ==
  LET remaining(n, used) == [l EXCEPT !.state = "Payload", !.need = n, !.buf = Drop(@, used)] IN
  CASE l.state = "HttpHeader" ->
         IF HeadAt(l.buf) # {} THEN [l EXCEPT !.state = "Relay", !.buf = Drop(@, CHOOSE i \in HeadAt(l.buf) : TRUE)]
         ELSE IF Len(l.buf) > MAX_HEAD THEN failed(l) ELSE l
    [] l.state = "TlsFirstResponse" ->
         IF Len(l.buf) < FIRST_RESPONSE THEN l
         ELSE IF l.buf[1] # ServerHello \/ l.buf[3] # Handshake THEN failed(l)
         ELSE remaining(num(l.buf[4]), FIRST_RESPONSE)
    [] l.state = "TlsRecordHeader" ->
         IF Len(l.buf) < 2 THEN l
         ELSE IF l.buf[1] # Mark \/ num(l.buf[2]) > MAX_RECORD THEN failed(l)
         ELSE remaining(num(l.buf[2]), 2)
    [] OTHER -> l
obfs_parse(l) ==
  CASE l.state = "Payload" /\ l.need = 0 -> [l EXCEPT !.state = "TlsRecordHeader"]
    [] l.state = "Payload" ->
         [l EXCEPT !.plain = Take(l.buf, l.need), !.need = @ - Len(Take(l.buf, l.need)), !.buf = Drop(@, l.need)]
    [] l.state = "Relay" -> [l EXCEPT !.plain = l.buf, !.buf = <<>>]
    [] OTHER -> parse_header(l)
(* Mutant: the stream may end inside a record's payload. *)
obfs_eof_anywhere(l) == IF l.state \in {"Relay", "TlsRecordHeader", "Payload"} /\ l.buf = <<>> THEN "eof" ELSE "error"
obfs_eof(l) == IF l.state \in {"Relay", "TlsRecordHeader"} /\ l.buf = <<>> THEN "eof" ELSE "error"
obfs_poll_read(n) ==
  link.kind \in {"obfs_http", "obfs_tls"} /\ Polled(link.kind, PollOnce(link, n, obfs_parse, Buffer, obfs_eof))
(* It reads the forged hello, or the forged request, then what follows.    *)
obfs_server_parse(l) ==
  IF l.state # "Hello" THEN obfs_parse(l)
  ELSE IF l.kind = "obfs_http_up"
    THEN IF Len(l.buf) < 3 THEN l ELSE [l EXCEPT !.state = "Relay", !.buf = Drop(@, 3)]
  ELSE IF Len(l.buf) < 2 \/ Len(l.buf) < num(l.buf[2]) + 3 THEN l
  ELSE [l EXCEPT !.plain = SubSeq(l.buf, 3, num(l.buf[2]) + 2), !.buf = Drop(@, num(l.buf[2]) + 3), !.state = "TlsRecordHeader"]
obfs_server_read(n) ==
  link.kind \in {"obfs_http_up", "obfs_tls_up"} /\ Polled(link.kind, PollOnce(link, n, obfs_server_parse, Buffer, obfs_eof))

-----------------------------------------------------------------------------
(* gRPC: a message is a length and a hunk of length-delimited chunks.      *)
encode_frame(l, bytes) == [l EXCEPT !.out = <<Mark, N(Len(bytes) + 2), Field, N(Len(bytes))>> \o bytes]
MAX_GRPC_MESSAGE == 2 * (MAX_RECORD + 2)

Malformed == <<0>>
(* The chunks of a hunk joined, or Malformed.                              *)
parse_hunk(message) ==
  LET chunk[i \in 1 .. Len(message) + 1] ==
        IF i > Len(message) THEN <<>>
        ELSE IF message[i] # Field \/ i = Len(message) \/ i + 1 + num(message[i + 1]) > Len(message) THEN Malformed
        ELSE LET next == i + 2 + num(message[i + 1])
                 rest == chunk[next]
             IN  IF rest = Malformed THEN Malformed ELSE SubSeq(message, i + 2, next - 1) \o rest
  IN  chunk[1]
try_deframe(l) ==
  LET length == num(l.buf[2])
      payload == parse_hunk(SubSeq(l.buf, 3, 2 + length))
  IN  IF Len(l.buf) < 2 THEN l
      ELSE IF l.buf[1] # Mark \/ length > MAX_GRPC_MESSAGE THEN failed(l)
      ELSE IF Len(l.buf) < 2 + length THEN l
      ELSE IF payload = Malformed THEN failed(l)
      ELSE [l EXCEPT !.buf = Drop(@, 2 + length), !.plain = payload]
(* The response head comes first; a status in it, or in the trailers, that *)
(* is not success fails the stream.                                        *)
poll_headers(l) ==
  CASE l.buf = <<>> -> l
    [] l.buf[1] = HeadLine -> [l EXCEPT !.state = "Body", !.buf = Tail(@)]
    [] OTHER -> failed(l)
rpc_status(trailers) == IF trailers = <<BadLine>> THEN "error" ELSE "eof"
grpc_parse(l) == IF l.state = "Head" THEN poll_headers(l) ELSE IF l.buf = <<BadLine>> THEN l ELSE try_deframe(l)
grpc_eof(l) == IF l.state = "Head" \/ l.buf \notin {<<>>, <<BadLine>>} THEN "error" ELSE rpc_status(l.buf)
grpc_poll_read(n) == Polled("grpc", PollOnce(link, n, grpc_parse, Buffer, grpc_eof))
grpc_poll_write(n, room) == Written("grpc", BufferedWrite(link, room, encode_frame(Drained(link, room), Take(Unsent, Least(n, MAX_RECORD))), Take(Unsent, Least(n, MAX_RECORD))))
grpc_poll_flush(room) == Written("grpc", Drained(link, room))
grpc_poll_shutdown(room) == Written("grpc", ShutWhenDrained(link, room))
(* The far end closes with a status of failure in its trailers.            *)
GrpcTrailers == link.out = <<>> /\ Written("grpc", [Put(link, <<BadLine>>) EXCEPT !.shut = TRUE, !.cut = TRUE])

-----------------------------------------------------------------------------
(* HTTP/2 bodies without framing: the v2ray carrier, XHTTP, NaiveProxy.    *)
h2_parse(l) == IF l.buf = <<>> THEN l ELSE [l EXCEPT !.plain = l.buf, !.buf = <<>>]
http2_poll_read(n) == Polled("http2", PollOnce(link, n, h2_parse, Buffer, Eof))
http2_poll_write(n, room) == Written("http2", BufferedWrite(link, room, Raw(Drained(link, room), Take(Unsent, n)), Take(Unsent, n)))
http2_poll_flush(room) == Written("http2", Drained(link, room))
http2_poll_shutdown(room) == Written("http2", ShutWhenDrained(link, room))
xhttp_poll_write(n, room) == Written("xhttp", BufferedWrite(link, room, Raw(Drained(link, room), Take(Unsent, Least(n, MAX_RECORD))), Take(Unsent, Least(n, MAX_RECORD))))
xhttp_poll_read(n) == Polled("xhttp", PollOnce(link, n, h2_parse, Buffer, Eof))
xhttp_poll_shutdown(room) == Written("xhttp", ShutWhenDrained(link, room))

(* NaiveProxy pads the first frames of each direction, then sends raw.     *)
read_is_raw(l) == l.state = "PayloadLength" /\ l.down.frames >= FIRST_PADDINGS
(* One transition of the frame decoder.  A frame is counted when its       *)
(* padding is done, which for an empty padding waits for the next byte.    *)
framer_read(l) ==
  LET used == Take(l.buf, l.need)
      skip == Least(l.pad, Len(l.buf)) IN
  CASE l.buf = <<>> -> l
    [] read_is_raw(l) -> [l EXCEPT !.plain = l.buf, !.buf = <<>>]
    [] l.state = "PayloadLength" -> [l EXCEPT !.need = num(l.buf[1]), !.buf = Tail(@), !.state = "PaddingLength"]
    [] l.state = "PaddingLength" -> [l EXCEPT !.pad = num(l.buf[1]), !.buf = Tail(@), !.state = "Payload"]
    [] l.state = "Payload" ->
         [l EXCEPT !.plain = used, !.buf = Drop(@, l.need), !.need = @ - Len(used),
                   !.state = IF l.need = Len(used) THEN "Padding" ELSE "Payload"]
    [] l.state = "Padding" ->
         [l EXCEPT !.buf = Drop(@, skip), !.pad = @ - skip,
                   !.state = IF l.pad = skip THEN "PayloadLength" ELSE "Padding",
                   !.down.frames = IF l.pad = skip THEN @ + 1 ELSE @]
framer_write(l, bytes, padding) ==
  [l EXCEPT !.out = <<N(Len(bytes)), N(padding)>> \o bytes \o [i \in 1 .. padding |-> Pad], !.up.frames = @ + 1]
naive_poll_read(n) == Polled("naive", PollOnce(link, n, framer_read, Buffer, Eof))
naive_poll_write(n, room, padding) ==
  Written("naive",
    IF link.up.frames < FIRST_PADDINGS
      THEN BufferedWrite(link, room, framer_write(Drained(link, room), Take(Unsent, n), padding), Take(Unsent, n))
    ELSE IF Drained(link, room).out # <<>> THEN Drained(link, room)
    ELSE DirectWrite(Drained(link, room), room - Len(link.out), Take(Unsent, n)))
naive_poll_flush(room) == Written("naive", Drained(link, room))
naive_poll_shutdown(room) == Written("naive", ShutWhenDrained(link, room))
(* The HTTP/2 stream under the padding keeps what has no capacity.         *)
h2stream_poll_write(n, room) == Written("h2stream", BufferedWrite(link, room, Raw(Drained(link, room), Take(Unsent, n)), Take(Unsent, n)))
h2stream_poll_read(n) == Polled("h2stream", PollOnce(link, n, h2_parse, Buffer, Eof))
h2stream_poll_flush(room) == Written("h2stream", Drained(link, room))
h2stream_poll_shutdown(room) == Written("h2stream", ShutWhenDrained(link, room))

-----------------------------------------------------------------------------
(* HTTP Upgrade and HTTP CONNECT read a head of bounded size, judge it,    *)
(* and keep what follows it.                                               *)
HeadLength(buf) == CHOOSE i \in HeadAt(buf) : \A j \in HeadAt(buf) : i <= j
validate_upgrade_response(head) == head[1] = HeadLine /\ Field \in ToSet(head)
connect_http_upgrade(l) ==
  IF HeadAt(l.buf) # {}
    THEN IF HeadLength(l.buf) <= MAX_HEAD /\ validate_upgrade_response(Take(l.buf, HeadLength(l.buf)))
         THEN [l EXCEPT !.state = "Relay", !.buf = Drop(@, HeadLength(l.buf))] ELSE failed(l)
  ELSE IF Len(l.buf) >= MAX_HEAD THEN failed(l) ELSE l
(* Each field of a CONNECT answer is counted and must have a colon.        *)
parse_response(buf) ==
  IF HeadAt(buf) = {} THEN "more"
  ELSE LET head == Take(buf, HeadLength(buf) - 1)
       IN  IF head = <<>> \/ head[1] \notin {HeadLine, BadLine} \/ \E i \in 2 .. Len(head) : head[i] # Field THEN "malformed"
           ELSE IF head[1] = BadLine THEN "refused" ELSE "open"
connect_unbounded(l) ==
  CASE parse_response(l.buf) = "open" -> [l EXCEPT !.state = "Relay", !.buf = Drop(@, HeadLength(l.buf))]
    [] parse_response(l.buf) = "more" /\ Len(l.buf) < MAX_HEAD -> l
    [] OTHER -> failed(l)
upgrade_parse(l) == IF l.state = "Relay" THEN relay_parse(l) ELSE connect_http_upgrade(l)
connect_parse(l) == IF l.state = "Relay" THEN relay_parse(l) ELSE connect_unbounded(l)
head_eof(l) == IF l.state = "Relay" THEN "eof" ELSE "error"
upgrade_poll_read(n) == Polled("upgrade", PollOnce(link, n, upgrade_parse, Buffer, head_eof))
leftover_poll_read(n) == Polled("connect", PollOnce(link, n, connect_parse, Buffer, head_eof))

-----------------------------------------------------------------------------
(* ShadowTLS after the switch: records tagged by a chained HMAC.  Records  *)
(* of the camouflage handshake may still arrive before the server's data.  *)
tag_and_advance(side) == [side EXCEPT !.crypt.nonce = @ + 1]
shadow_frame(l, bytes) == [l EXCEPT !.out = <<Mark, N(Len(bytes) + 1), Tag(l.up.crypt)>> \o bytes, !.up = tag_and_advance(@)]
close_notify(l) == [l EXCEPT !.out = <<Alert, N(1), Pad>>, !.closing = TRUE]
(* The pipe's reader: one record per read, an alert at its end.            *)
upload(room) ==
  LET bytes == Take(link.pipe, MAX_RECORD)
      read == [link EXCEPT !.pipe = Drop(@, MAX_RECORD)]
  IN  Written("shadowtls",
        IF link.out # <<>> THEN Drained(link, room)
        ELSE IF link.closing THEN [link EXCEPT !.shut = TRUE]
        ELSE IF bytes # <<>> THEN shadow_frame(read, bytes)
        ELSE IF link.acked = Len(Payload) THEN close_notify(link)
        ELSE link)
ShadowPipe(n) == Written("shadowtls", [link EXCEPT !.pipe = @ \o Take(Unsent, n), !.acked = @ + Len(Take(Unsent, n))])

server_data_seen(l) == l.down.frames > 0
(* What one record does.  Anything else than what is expected ends both    *)
(* directions, after an alert.                                             *)
download_record(l, kind, tag, data) ==
  CASE kind = Mark /\ tag = Tag(l.down.crypt) -> [l EXCEPT !.plain = data, !.down = [tag_and_advance(@) EXCEPT !.frames = @ + 1]]
    [] kind = Mark /\ ~server_data_seen(l) /\ tag = ProofTag(l.pad) -> [l EXCEPT !.pad = @ + 1]
    [] kind \in {Handshake, ChangeCipher} /\ ~server_data_seen(l) -> l
    [] OTHER -> ended(l)
download(l) ==
  LET length == num(l.buf[2])
      rest == [l EXCEPT !.buf = Drop(@, 2 + length)]
  IN  IF l.state = "Ended" \/ Len(l.buf) < 2 THEN l
      ELSE IF length > MAX_RECORD + 2 THEN ended(l)
      ELSE IF Len(l.buf) < 2 + length THEN l
      ELSE IF length < 1 THEN ended(rest)
      ELSE download_record(rest, l.buf[1], l.buf[3], SubSeq(l.buf, 4, 2 + length))
ShadowDownload(n) ==
  Polled("shadowtls", IF link.state = "Ended" /\ link.plain = <<>> THEN [link EXCEPT !.end = "eof"]
                      ELSE PollOnce(link, n, download, Buffer, Eof))

-----------------------------------------------------------------------------
(* WebSocket: one task relays both ways; a binary message is data, a ping  *)
(* is answered, anything else closes the pipe.                             *)
Message(kind, bytes) == <<kind, N(Len(bytes))>> \o bytes
relay_local(room) ==
  LET bytes == Take(link.pipe, MAX_RECORD)
      read == [link EXCEPT !.pipe = Drop(@, MAX_RECORD)]
  IN  Written("websocket",
        IF link.out # <<>> THEN Drained(link, room)
        ELSE IF link.closing THEN [link EXCEPT !.shut = TRUE]
        ELSE IF bytes # <<>> THEN [read EXCEPT !.out = Message(Mark, bytes)]
        ELSE IF link.acked = Len(Payload) THEN [link EXCEPT !.out = Message(Alert, <<>>), !.closing = TRUE]
        ELSE link)
relay_incoming(l) ==
  LET length == num(l.buf[2])
      rest == [l EXCEPT !.buf = Drop(@, 2 + length)]
  IN  IF l.state = "Ended" \/ Len(l.buf) < 2 \/ Len(l.buf) < 2 + length THEN l
      ELSE CASE l.buf[1] = Mark -> [rest EXCEPT !.plain = SubSeq(l.buf, 3, 2 + length)]
             [] l.buf[1] = Pad -> rest
             [] OTHER -> ended(rest)
WebSocketPipe(n) == Written("websocket", [link EXCEPT !.pipe = @ \o Take(Unsent, n), !.acked = @ + Len(Take(Unsent, n))])
WebSocketPoll(n) ==
  Polled("websocket", IF link.state = "Ended" /\ link.plain = <<>> THEN [link EXCEPT !.end = "eof"]
                      ELSE PollOnce(link, n, relay_incoming, Buffer, Eof))

-----------------------------------------------------------------------------
(* The carrier ends early: what it still held is lost from some unit on.   *)
Lose(k) ==
  /\ ~link.shut /\ k <= Len(link.wire)
  /\ link' = [link EXCEPT !.wire = Take(@, k), !.shut = TRUE, !.cut = TRUE]

Chunks == {1, 3}
Rooms == {2, 30}
Paddings == {0, 2}
EncoderStep ==
  \E n \in Chunks, room \in Rooms :
    \/ enc_poll_write(n, room) \/ enc_poll_flush(room) \/ enc_poll_shutdown(room)
    \/ VmessPipe(n) \/ VmessUplink(room)
    \/ DirectServer(n, room)
    \/ obfs_poll_write(n, room) \/ obfs_poll_flush(room) \/ obfs_poll_shutdown(room) \/ ObfsServer(n, room)
    \/ grpc_poll_write(n, room) \/ grpc_poll_flush(room) \/ grpc_poll_shutdown(room) \/ GrpcTrailers
    \/ http2_poll_write(n, room) \/ http2_poll_flush(room) \/ http2_poll_shutdown(room)
    \/ xhttp_poll_write(n, room) \/ xhttp_poll_shutdown(room)
    \/ (\E padding \in Paddings : naive_poll_write(n, room, padding)) \/ naive_poll_flush(room) \/ naive_poll_shutdown(room)
    \/ h2stream_poll_write(n, room) \/ h2stream_poll_flush(room) \/ h2stream_poll_shutdown(room)
    \/ ShadowPipe(n) \/ upload(room)
    \/ WebSocketPipe(n) \/ relay_local(room)
DecoderStep ==
  \E n \in Chunks :
    \/ enc_poll_read(n) \/ VmessDownlink(n) \/ lazy_poll_read(n) \/ hysteria2_poll_read(n) \/ hysteria2_poll_write(n)
    \/ obfs_poll_read(n) \/ obfs_server_read(n) \/ grpc_poll_read(n)
    \/ http2_poll_read(n) \/ xhttp_poll_read(n) \/ naive_poll_read(n) \/ h2stream_poll_read(n)
    \/ upgrade_poll_read(n) \/ leftover_poll_read(n) \/ ShadowDownload(n) \/ WebSocketPoll(n)
FramingNext == EncoderStep \/ DecoderStep \/ \E k \in 0 .. 4 : Lose(k)

-----------------------------------------------------------------------------
(* The application reads the bytes the far end wrote, in order, with       *)
(* nothing added, lost or repeated, wherever the carrier cuts its reads    *)
(* and whatever of a record it takes at once (the poll_read of each        *)
(* adapter, and the outboxes behind poll_write).                           *)
ReadsWhatWasWritten ==
  /\ IsPrefix(link.read \o link.plain, Payload)
  /\ IsPrefix(Bytes(link.sent \o link.out), Payload)
  /\ ~link.cut => Bytes(link.sent \o link.out) \o link.pipe = SubSeq(Payload, 1, link.acked)

(* A stream whose far end keeps its protocol is never refused, and is read *)
(* to its last byte when it ends; the adapters that frame records report a *)
(* stream that was cut inside one instead of ending it (VLESS encryption   *)
(* poll_fill, simple-obfs poll_read, gRPC poll_read).  A Hysteria2 stream  *)
(* the server refused, or left inside its answer, gives nothing and never  *)
(* reads as an empty one (LazyTcpResponse).                                *)
EndsHonestly ==
  /\ ~link.cut => link.end # "error" /\ (link.end = "eof" => link.read = SubSeq(Payload, 1, link.acked))
  /\ link.end = "eof" /\ link.kind \in {"enc", "obfs_tls", "grpc"} => link.got \in link.ends
  /\ link.kind = "hysteria2" /\ (RespBad \in ToSet(link.sent) \/ \A e \in link.ends : link.got < e) =>
       link.read = <<>> /\ link.end # "eof"

(* No record is sealed with a key and nonce that sealed an earlier one:    *)
(* VLESS encryption rekeys at the last nonce, VMess stops before its       *)
(* counter would repeat, and the ShadowTLS chain never returns.            *)
NoncesFresh ==
  LET tags == SelectSeq(link.sent \o link.out, LAMBDA u : u \in -199 .. -100) IN IsInjective(tags)
=============================================================================
