------------------------------- MODULE Datagrams -------------------------------
(***************************************************************************)
(* The UDP sessions of the outbounds.  A relay is one session over one     *)
(* carrier: a byte stream on which each datagram is framed (VLESS, with    *)
(* packetaddr or XUDP, Trojan, VMess, UDP over TCP), or a UDP socket       *)
(* (Shadowsocks, SOCKS5).  Hysteria2 and TUIC carry many sessions on one   *)
(* QUIC connection and cut datagrams into fragments.                       *)
(*                                                                         *)
(* A datagram is a destination and a payload.  On a stream the units are   *)
(* payload bytes (positive), lengths, hosts and marks (negative); what the *)
(* channels between the application and a relay hold is chosen when the    *)
(* relay reads it.                                                         *)
(***************************************************************************)
EXTENDS Integers, Sequences, FiniteSets, SequencesExt

CONSTANTS
  MAX_PAYLOAD,        \* bytes a 16-bit length can state
  CONTROL_SLACK,      \* bytes a SOCKS5 server may send unasked
  REPLAY_BITS,        \* packets the Shadowsocks 2022 replay window remembers
  MAX_SERVER_SESSIONS,\* server sessions one Shadowsocks 2022 session follows
  MAX_PACKET_ID,      \* the last Shadowsocks 2022 packet id
  MAX_CHUNK,          \* payload bytes one QUIC datagram holds
  MAX_FRAGMENTS,      \* fragments of one datagram
  MAX_PARTIAL,        \* datagrams under reassembly
  MAX_REASSEMBLY,     \* bytes under reassembly
  MAX_ASSOCIATIONS,   \* TUIC sessions of a connection
  ASSOCIATION_IDS,    \* TUIC session ids before they wrap
  PACKET_IDS,         \* packet ids of a QUIC session before they wrap
  CHANNEL,            \* datagrams the channel to the application holds
  Handles,            \* QUIC sessions the application opens
  Offers,             \* destinations and sizes of what the application sends
  MaxDatagrams,       \* datagrams of a relay, both ways together
  MaxQuicDatagrams    \* datagrams sent on a QUIC connection

VARIABLES relay, quic
datagramVars == <<relay, quic>>

None == -100
Ip1 == -101
Ip2 == -102
Name == -103
LongName == -104
Size(n) == -10 - n
size(u) == -10 - u
Crlf == -1
SealTag == -2
STATUS_NEW == -3
STATUS_KEEP == -4
STATUS_END == -5
DATA == -6
GlobalId == -7
Garbage == -8

Datagram(to, data) == [to |-> to, data |-> data]
ip(host) == host \in {Ip1, Ip2}
encode_address(host) == host \notin {None, LongName}
Destination(r, d) == IF d.to = None THEN [d EXCEPT !.to = r.dflt] ELSE d
Past(s, n) == SubSeq(s, n + 1, Len(s))

NewRelay(kind) ==
  [kind |-> kind, dflt |-> Ip1, running |-> TRUE, cancel |-> FALSE, far |-> TRUE, asked |-> 0, carried |-> <<>>, out |-> <<>>, seen |-> <<>>,
   answered |-> 0, replies |-> <<>>, in |-> <<>>, rx |-> <<>>, got |-> <<>>,
   opened |-> FALSE, peer |-> Ip1, verified |-> FALSE, slack |-> CONTROL_SLACK, repeated |-> FALSE, next |-> 0, windows |-> <<>>, accepted |-> <<>>]

(* What an encoder makes of a datagram, and a decoder of what it has read. *)
Send(units) == [verdict |-> "send", units |-> units]
Skip == [verdict |-> "skip", units |-> <<>>]
End == [verdict |-> "end", units |-> <<>>]
More == [verdict |-> "more", used |-> 0, from |-> None, data |-> <<>>]
Parsed(verdict, used, from, data) == [verdict |-> verdict, used |-> used, from |-> from, data |-> data]

-----------------------------------------------------------------------------
(* The framings of the stream carriers.                                    *)
encode_udp(r, d) == IF Len(d.data) \in 1 .. MAX_PAYLOAD THEN Send(<<Size(Len(d.data))>> \o d.data) ELSE End
vless_read(r, rx) ==
  IF rx = <<>> THEN More
  ELSE IF rx[1] = Size(0) THEN Parsed("skip", 1, None, <<>>)
  ELSE IF Len(rx) < 1 + size(rx[1]) THEN More
  ELSE Parsed("datagram", 1 + size(rx[1]), r.dflt, SubSeq(rx, 2, 1 + size(rx[1])))

packetaddr_encode(r, d) ==
  IF ~ip(d.to) THEN Skip
  ELSE IF 1 + Len(d.data) > MAX_PAYLOAD THEN End
  ELSE Send(<<Size(1 + Len(d.data)), d.to>> \o d.data)
packetaddr_decode(frame) ==
  IF ip(frame[1]) THEN Parsed("datagram", 1 + Len(frame), frame[1], Tail(frame)) ELSE Parsed("end", 0, None, <<>>)
packetaddr_read(r, rx) ==
  IF rx = <<>> THEN More
  ELSE IF rx[1] = Size(0) THEN Parsed("end", 1, None, <<>>)
  ELSE IF Len(rx) < 1 + size(rx[1]) THEN More
  ELSE packetaddr_decode(SubSeq(rx, 2, 1 + size(rx[1])))

(* The first frame opens the session under its global id, every later one  *)
(* names its destination too.                                              *)
xudp_frame(status, to, id, data) ==
  LET metadata == <<status>> \o (IF data = <<>> THEN <<>> ELSE <<DATA>>) \o to \o id
  IN  <<Size(Len(metadata))>> \o metadata \o (IF data = <<>> THEN <<>> ELSE <<Size(Len(data))>> \o data)
xudp_encode(r, d) ==
  IF Len(d.data) > MAX_PAYLOAD \/ ~encode_address(d.to) THEN End
  ELSE Send(xudp_frame(IF r.opened THEN STATUS_KEEP ELSE STATUS_NEW, <<d.to>>, IF r.opened THEN <<>> ELSE <<GlobalId>>, d.data))
HostsIn(metadata) == SelectSeq(metadata, LAMBDA u : u <= None /\ u # LongName)
xudp_body(metadata, body, peer) ==
  LET from == IF HostsIn(metadata) = <<>> THEN peer ELSE HostsIn(metadata)[1]
      used == 1 + Len(metadata)
  IN  IF metadata[1] = Garbage THEN Parsed("end", 0, None, <<>>)
      ELSE IF metadata[1] = STATUS_END THEN Parsed("end", used, from, <<>>)
      ELSE IF DATA \notin {metadata[i] : i \in DOMAIN metadata} THEN Parsed("skip", used, from, <<>>)
      ELSE IF body = <<>> \/ Len(body) < 1 + size(body[1]) THEN More
      ELSE Parsed("datagram", used + 1 + size(body[1]), from, SubSeq(body, 2, 1 + size(body[1])))
parse_packet(r, rx) ==
  IF rx = <<>> \/ Len(rx) < 1 + size(rx[1]) THEN More
  ELSE xudp_body(SubSeq(rx, 2, 1 + size(rx[1])), Past(rx, 1 + size(rx[1])), r.peer)

trojan_encode(r, d) ==
  IF d.data = <<>> \/ Len(d.data) > MAX_PAYLOAD \/ ~encode_address(Destination(r, d).to) THEN Skip
  ELSE Send(<<Destination(r, d).to, Size(Len(d.data)), Crlf>> \o d.data)
read_udp_frame(r, rx) ==
  IF rx = <<>> THEN More
  ELSE IF ~encode_address(rx[1]) \/ rx[1] > None THEN Parsed("end", 0, None, <<>>)
  ELSE IF Len(rx) < 3 THEN More
  ELSE IF rx[3] # Crlf THEN Parsed("end", 0, None, <<>>)
  ELSE IF Len(rx) < 3 + size(rx[2]) THEN More
  ELSE Parsed("datagram", 3 + size(rx[2]), rx[1], SubSeq(rx, 4, 3 + size(rx[2])))

(* A VMess frame that holds its tag alone ends the stream.                 *)
vmess_encode(r, d) ==
  IF Len(d.data) + 1 > MAX_PAYLOAD THEN Skip ELSE Send(<<Size(Len(d.data) + 1)>> \o d.data \o <<SealTag>>)
vmess_frame(r, rx) ==
  IF rx = <<>> THEN More
  ELSE IF size(rx[1]) <= 1 THEN Parsed("end", 1, None, <<>>)
  ELSE IF Len(rx) < 1 + size(rx[1]) THEN More
  ELSE IF rx[1 + size(rx[1])] # SealTag THEN Parsed("end", 0, None, <<>>)
  ELSE Parsed("datagram", 1 + size(rx[1]), r.dflt, SubSeq(rx, 2, size(rx[1])))
vmess_read(r, rx) ==
  IF r.verified THEN vmess_frame(r, rx)
  ELSE IF rx = <<>> THEN More
  ELSE Parsed(IF rx[1] = STATUS_NEW THEN "verified" ELSE "end", 1, None, <<>>)

uot_encode(r, d) ==
  IF Len(d.data) > MAX_PAYLOAD \/ ~encode_address(Destination(r, d).to) THEN Skip
  ELSE Send(<<Destination(r, d).to, Size(Len(d.data))>> \o d.data)
read_datagram(r, rx) ==
  IF rx = <<>> THEN More
  ELSE IF ~encode_address(rx[1]) \/ rx[1] > None THEN Parsed("end", 0, None, <<>>)
  ELSE IF Len(rx) < 2 \/ Len(rx) < 2 + size(rx[2]) THEN More
  ELSE Parsed("datagram", 2 + size(rx[2]), rx[1], SubSeq(rx, 3, 2 + size(rx[2])))

-----------------------------------------------------------------------------
(* One session of a stream carrier: both directions run side by side, and  *)
(* the first of them to end, or the application leaving, ends the session. *)
Ended(r) ==
  [r EXCEPT !.running = FALSE, !.out = IF r.kind = "xudp" /\ r.opened THEN @ \o xudp_frame(STATUS_END, <<r.peer>>, <<>>, <<>>) ELSE @]
Payload_(i, n) == [k \in 1 .. n |-> 10 * i + k]
Offered(o) == Datagram(o[1], Payload_(relay.asked + 1, o[2]))
Busy == relay.asked + relay.answered < MaxDatagrams

Encoded(r, d, e) ==
  CASE e.verdict = "send" -> [r EXCEPT !.carried = IF r.kind = "xudp" /\ d.data = <<>> THEN @ ELSE Append(@, Destination(r, d)), !.out = @ \o e.units, !.opened = TRUE,
                                       !.peer = IF r.kind = "xudp" THEN d.to ELSE @]
    [] e.verdict = "skip" -> r
    [] e.verdict = "end" -> Ended(r)
Asked == {Offered(o) : o \in Offers}
StreamUp(d, encoded) ==
  /\ relay.running /\ Busy
  /\ relay' = Encoded([relay EXCEPT !.asked = @ + 1], d, encoded)

Received(r, p) ==
  CASE p.verdict = "end" -> Ended(r)
    [] p.verdict = "verified" -> [r EXCEPT !.rx = Past(@, p.used), !.verified = TRUE]
    [] p.verdict = "skip" -> [r EXCEPT !.rx = Past(@, p.used), !.peer = IF r.kind = "xudp" THEN p.from ELSE @]
    [] p.verdict = "datagram" -> [r EXCEPT !.rx = Past(@, p.used), !.got = Append(@, Datagram(p.from, p.data)),
                                           !.peer = IF r.kind = "xudp" THEN p.from ELSE @]
StreamDown(Read(_, _)) ==
  /\ relay.running
  /\ \E p \in {Read(relay, relay.rx)} :
       \/ p.verdict # "more" /\ relay' = Received(relay, p)
       \/ /\ p.verdict = "more" /\ relay.in # <<>>
          /\ \E n \in {1, Len(relay.in)} : relay' = [relay EXCEPT !.rx = @ \o SubSeq(relay.in, 1, n), !.in = Past(@, n)]
       \/ p.verdict = "more" /\ relay.in = <<>> /\ ~relay.far /\ relay' = Ended(relay)
StreamEnds == relay.running /\ (relay.cancel \/ ~relay.far) /\ relay' = Ended(relay)

vless_relay_datagrams == relay.kind = "udp" /\ ((\E d \in Asked : StreamUp(d, encode_udp(relay, d))) \/ StreamDown(vless_read) \/ StreamEnds)
relay_packetaddr == relay.kind = "packetaddr" /\ ((\E d \in Asked : StreamUp(d, packetaddr_encode(relay, d))) \/ StreamDown(packetaddr_read) \/ StreamEnds)
relay_xudp == relay.kind = "xudp" /\ ((\E d \in Asked : StreamUp(d, xudp_encode(relay, d))) \/ StreamDown(parse_packet) \/ StreamEnds)
trojan_relay_datagrams == relay.kind = "trojan" /\ ((\E d \in Asked : StreamUp(d, trojan_encode(relay, d))) \/ StreamDown(read_udp_frame) \/ StreamEnds)
vmess_relay_datagrams == relay.kind = "vmess" /\ ((\E d \in Asked : StreamUp(d, vmess_encode(relay, d))) \/ StreamDown(vmess_read) \/ StreamEnds)
shadowtls_uot_relay == relay.kind = "uot" /\ ((\E d \in Asked : StreamUp(d, uot_encode(relay, d))) \/ StreamDown(read_datagram) \/ StreamEnds)

(* AnyTLS carries UDP over TCP with code of its own, and the same framing. *)
anytls_uot_encode(r, d) ==
  IF Len(d.data) > MAX_PAYLOAD \/ ~encode_address(Destination(r, d).to) THEN Skip
  ELSE Send(<<Destination(r, d).to, Size(Len(d.data))>> \o d.data)
anytls_read_datagram(r, rx) ==
  IF rx # <<>> /\ (~encode_address(rx[1]) \/ rx[1] > None) THEN Parsed("end", 0, None, <<>>)
  ELSE IF Len(rx) < 2 \/ Len(rx) < 2 + size(rx[2]) THEN More
  ELSE Parsed("datagram", 2 + size(rx[2]), rx[1], SubSeq(rx, 3, 2 + size(rx[2])))
anytls_uot_relay ==
  relay.kind = "anytls" /\ ((\E d \in Asked : StreamUp(d, anytls_uot_encode(relay, d))) \/ StreamDown(anytls_read_datagram) \/ StreamEnds)

-----------------------------------------------------------------------------
(* Shadowsocks and SOCKS5 over a UDP socket.  A packet of Shadowsocks 2022 *)
(* names the client session, its server session and a packet number.       *)
Packet(to, data, client, server, id) == [to |-> to, data |-> data, client |-> client, server |-> server, id |-> id]

reserve_packet(r) == [r EXCEPT !.next = @ + 1]
SsUp ==
  /\ relay.running /\ Busy
  /\ \/ relay.kind = "ss2022" /\ relay.next > MAX_PACKET_ID /\ relay' = [Ended(relay) EXCEPT !.asked = @ + 1]
     \/ /\ relay.kind = "ss" \/ relay.next <= MAX_PACKET_ID
        /\ \E o \in {o \in Offers : o[1] # LongName} :
             \E d \in {Destination(relay, Offered(o))} :
               relay' = [reserve_packet(relay) EXCEPT !.asked = @ + 1, !.carried = Append(@, d),
                                                      !.out = Append(@, Packet(d.to, d.data, 0, 0, relay.next))]

NoWindow == [on |-> FALSE, highest |-> 0, seen |-> {}]
slid(w, packet) ==
  IF ~w.on \/ packet <= w.highest THEN w.seen
  ELSE IF packet - w.highest >= REPLAY_BITS THEN {}
  ELSE w.seen \ {expired % REPLAY_BITS : expired \in w.highest + 1 .. packet}
(* Mutant: a packet older than the window is looked up in it. *)
accept_old(w, packet) == packet % REPLAY_BITS \notin slid(w, packet)
accept(w, packet) ==
  /\ ~(w.on /\ packet <= w.highest /\ w.highest - packet >= REPLAY_BITS)
  /\ packet % REPLAY_BITS \notin slid(w, packet)
remembered(w, packet) ==
  [on |-> TRUE, highest |-> IF w.on /\ w.highest > packet THEN w.highest ELSE packet, seen |-> slid(w, packet) \cup {packet % REPLAY_BITS}]
WindowOf(r, server) == IF server \in DOMAIN r.windows THEN r.windows[server] ELSE NoWindow
accept_reply(r, p) ==
  IF p.client # 0 THEN "ignore"
  ELSE IF p.server \notin DOMAIN r.windows /\ Cardinality(DOMAIN r.windows) >= MAX_SERVER_SESSIONS THEN "end"
  ELSE IF accept(WindowOf(r, p.server), p.id) THEN "take" ELSE "ignore"
Windowed(r, p) ==
  [r EXCEPT !.windows = [s \in DOMAIN @ \cup {p.server} |-> IF s = p.server THEN remembered(WindowOf(r, s), p.id) ELSE @[s]],
            !.accepted = Append(@, <<p.server, p.id>>)]

SsDown ==
  /\ relay.running
  /\ \E i \in DOMAIN relay.in :
       \E p \in {relay.in[i]}, r \in {[relay EXCEPT !.in = RemoveAt(@, i)]} :
         \E verdict \in {IF p.to = Garbage THEN "end" ELSE IF relay.kind = "ss" THEN "take" ELSE accept_reply(relay, p)} :
           \/ verdict = "end" /\ relay' = Ended(r)
           \/ verdict = "ignore" /\ relay' = r
           \/ verdict = "take" /\ relay' = [(IF relay.kind = "ss" THEN r ELSE Windowed(r, p)) EXCEPT !.got = Append(@, Datagram(p.to, p.data))]
ss_relay_datagrams == relay.kind \in {"ss", "ss2022"} /\ (SsUp \/ SsDown \/ StreamEnds)

(* A SOCKS5 association lives as long as its control connection.           *)
encode_udp_datagram(d) == encode_address(d.to) /\ 1 + Len(d.data) <= MAX_PAYLOAD
decode_udp_datagram(p) == encode_address(p.to) /\ p.to <= None
SocksUp ==
  /\ relay.running /\ Busy
  /\ \E o \in Offers :
       \E d \in {Destination(relay, Offered(o))} :
         relay' = IF encode_udp_datagram(d)
                  THEN [relay EXCEPT !.asked = @ + 1, !.carried = Append(@, d), !.out = Append(@, Packet(d.to, d.data, 0, 0, relay.asked))]
                  ELSE [relay EXCEPT !.asked = @ + 1]
SocksDown ==
  /\ relay.running
  /\ \E i \in DOMAIN relay.in :
       relay' = [relay EXCEPT !.in = RemoveAt(@, i),
                   !.got = IF decode_udp_datagram(relay.in[i]) THEN Append(@, Datagram(relay.in[i].to, relay.in[i].data)) ELSE @]
SocksControl ==
  /\ relay.running
  /\ \E n \in 1 .. 2 : \E left \in {IF relay.slack > n THEN relay.slack - n ELSE 0} :
       relay' = IF left = 0 THEN Ended(relay) ELSE [relay EXCEPT !.slack = left]
socks_relay_datagrams == relay.kind = "socks" /\ (SocksUp \/ SocksDown \/ SocksControl \/ StreamEnds)

-----------------------------------------------------------------------------
(* The far end of a relay: it reads and writes the same framings, answers  *)
(* from any of its peers, and may break its protocol or be lost.           *)
Stream == relay.kind \notin {"ss", "ss2022", "socks"}
FarRead(rx) ==
  CASE relay.kind = "udp" -> vless_read([relay EXCEPT !.dflt = None], rx)
    [] relay.kind = "packetaddr" -> packetaddr_read(relay, rx)
    [] relay.kind = "xudp" -> parse_packet(relay, rx)
    [] relay.kind = "trojan" -> read_udp_frame(relay, rx)
    [] relay.kind = "vmess" -> vmess_frame([relay EXCEPT !.dflt = None], rx)
    [] relay.kind \in {"uot", "anytls"} -> read_datagram(relay, rx)
FarReads ==
  /\ relay.far /\ relay.out # <<>>
  /\ \/ /\ Stream
        /\ \E p \in {FarRead(relay.out)} :
             /\ p.verdict # "more"
             /\ relay' = IF p.verdict = "end" THEN [relay EXCEPT !.far = FALSE]
                         ELSE IF p.verdict = "skip" THEN [relay EXCEPT !.out = Past(@, p.used)]
                         ELSE [relay EXCEPT !.out = Past(@, p.used), !.seen = Append(@, Datagram(p.from, p.data))]
     \/ /\ ~Stream
        /\ \E i \in DOMAIN relay.out :
             relay' = [relay EXCEPT !.out = RemoveAt(@, i), !.seen = Append(@, Datagram(relay.out[i].to, relay.out[i].data))]

FarFrame(d) ==
  CASE relay.kind = "udp" -> <<Size(Len(d.data))>> \o d.data
    [] relay.kind = "packetaddr" -> packetaddr_encode(relay, d).units
    [] relay.kind = "xudp" -> xudp_frame(STATUS_KEEP, IF d.to = None THEN <<>> ELSE <<d.to>>, <<>>, d.data)
    [] relay.kind = "trojan" -> <<d.to, Size(Len(d.data)), Crlf>> \o d.data
    [] relay.kind = "vmess" -> vmess_encode(relay, d).units
    [] relay.kind \in {"uot", "anytls"} -> uot_encode(relay, d).units
Rubbish ==
  CASE relay.kind = "xudp" -> {<<Size(1), Garbage>>, xudp_frame(STATUS_END, <<>>, <<>>, <<>>)}
    [] relay.kind = "packetaddr" -> {<<Size(1), Garbage>>, <<Size(0)>>}
    [] relay.kind = "trojan" -> {<<Garbage>>, <<Ip1, Size(1), Garbage, 1>>}
    [] relay.kind = "vmess" -> {<<Size(2), 1, Garbage>>}
    [] relay.kind \in {"uot", "anytls"} -> {<<Garbage>>}
    [] relay.kind = "udp" -> {<<Size(2), 1>>}
Sources == CASE relay.kind \in {"udp", "vmess"} -> {relay.dflt} [] relay.kind = "xudp" -> {Ip1, Ip2, None} [] OTHER -> {Ip1, Ip2}
FarReplies ==
  /\ relay.running /\ relay.far /\ Busy
  /\ \E from \in Sources, n \in 0 .. 1 :
       \E d \in {Datagram(from, Payload_(5 + relay.answered, n))} :
         \/ /\ Stream
            /\ relay' = [relay EXCEPT !.answered = @ + 1, !.in = @ \o FarFrame(d),
                           !.replies = IF n > 0 \/ relay.kind \in {"packetaddr", "trojan", "uot", "anytls"} THEN Append(@, d) ELSE @]
         \/ /\ ~Stream /\ from # None
            /\ \E client \in 0 .. 1, server \in 1 .. 2, id \in {0, 1, REPLAY_BITS + 1} :
                 /\ IF relay.kind = "ss2022" THEN n = 1 /\ from = Ip2 ELSE client = 0 /\ server = 1 /\ id = 0
                 /\ relay' = [relay EXCEPT !.answered = @ + 1, !.in = Append(@, Packet(from, d.data, client, server, id)), !.replies = Append(@, d)]
FarBreaks ==
  /\ relay.running /\ relay.far
  /\ \/ Stream /\ \E units \in Rubbish : relay' = [relay EXCEPT !.in = @ \o units, !.far = FALSE]
     \/ Stream /\ \E n \in 0 .. Len(relay.in) : relay' = [relay EXCEPT !.in = SubSeq(@, 1, n), !.far = FALSE]
     \/ ~Stream /\ Busy /\ relay' = [relay EXCEPT !.in = Append(@, Packet(Garbage, <<>>, 0, 1, 0)), !.answered = @ + 1]
AppLeaves == ~relay.cancel /\ relay.running /\ relay' = [relay EXCEPT !.cancel = TRUE]

(* A packet is lost or arrives twice.                                      *)
NetworkLoses == ~Stream /\ relay.running /\ \E i \in DOMAIN relay.out : relay' = [relay EXCEPT !.out = RemoveAt(@, i)]
NetworkRepeats ==
  /\ ~Stream /\ relay.running /\ ~relay.repeated
  /\ \E i \in DOMAIN relay.in : relay' = [relay EXCEPT !.in = Append(@, relay.in[i]), !.repeated = TRUE]

RelayNext ==
  /\ \/ vless_relay_datagrams \/ relay_packetaddr \/ relay_xudp \/ trojan_relay_datagrams \/ vmess_relay_datagrams
     \/ shadowtls_uot_relay \/ anytls_uot_relay \/ ss_relay_datagrams \/ socks_relay_datagrams
     \/ FarReads \/ FarReplies \/ FarBreaks \/ AppLeaves \/ NetworkLoses \/ NetworkRepeats
  /\ UNCHANGED quic

-----------------------------------------------------------------------------
(* Hysteria2 and TUIC: the sessions of one QUIC connection.  The far end   *)
(* is an echo: it returns the fragments it is sent, in any order, twice,   *)
(* or not at all.  A session whose packet ids come round to one that is    *)
(* still on its way or under reassembly is kept in "round" (history).      *)
Session == [state |-> "new", id |-> 0, packet |-> 0, sent |-> {}, inbox |-> <<>>]
NewQuic(kind) == [kind |-> kind, next |-> 1, table |-> <<>>, session |-> [h \in Handles |-> Session], air |-> {}, partial |-> <<>>,
                  asked |-> 0, repeated |-> FALSE, round |-> {}]

Fragment(s, index, count, to, data) == [session |-> s.id, packet |-> s.packet, index |-> index, count |-> count, to |-> to,
                                        data |-> data, copy |-> 0]
Chunks_(data) == IF data = <<>> THEN 1 ELSE (Len(data) + MAX_CHUNK - 1) \div MAX_CHUNK
Chunk(data, i) == SubSeq(data, i * MAX_CHUNK + 1, IF (i + 1) * MAX_CHUNK < Len(data) THEN (i + 1) * MAX_CHUNK ELSE Len(data))

(* Every Hysteria2 fragment names its destination, only the first of TUIC. *)
hysteria2_send_datagram(s, d) ==
  {Fragment(s, i, Chunks_(d.data), d.to, Chunk(d.data, i)) : i \in 0 .. Chunks_(d.data) - 1}
send_native(s, d) ==
  {Fragment(s, i, Chunks_(d.data), IF i = 0 THEN d.to ELSE None, Chunk(d.data, i)) : i \in 0 .. Chunks_(d.data) - 1}
send_stream_frame(s, d) == {Fragment(s, 0, 1, d.to, d.data)}

(* Mutant: fragments are collected by packet number alone. *)
KeyOf_packet(f) == <<0, f.packet>>
KeyOf(f) == <<f.session, f.packet>>
Missing == <<-1>>
fresh_partials(map) == [k \in {k \in DOMAIN map : ~map[k].old} |-> map[k]]
roomy(map, f) ==
  IF \/ MapThenSumSet(LAMBDA k : map[k].bytes, DOMAIN map) + Len(f.data) > MAX_REASSEMBLY
     \/ Cardinality(DOMAIN map) >= MAX_PARTIAL /\ KeyOf(f) \notin DOMAIN map
  THEN <<>> ELSE map
Reassembly(map, f) ==
  IF KeyOf(f) \in DOMAIN map THEN map[KeyOf(f)]
  ELSE [frags |-> [i \in 0 .. f.count - 1 |-> Missing], to |-> None, bytes |-> 0, old |-> FALSE]
placed(e, f) ==
  IF e.frags[f.index] # Missing THEN e
  ELSE [e EXCEPT !.frags[f.index] = f.data, !.bytes = @ + Len(f.data), !.to = IF f.index = 0 THEN f.to ELSE @]
without(map, key) == [k \in DOMAIN map \ {key} |-> map[k]]
joined(e) == FlattenSeq([i \in 1 .. Cardinality(DOMAIN e.frags) |-> e.frags[i - 1]])
Waiting(map) == [map |-> map, done |-> FALSE, to |-> None, data |-> <<>>]
stored(map, f, e) ==
  IF \E i \in DOMAIN e.frags : e.frags[i] = Missing
  THEN Waiting([k \in DOMAIN map \cup {KeyOf(f)} |-> IF k = KeyOf(f) THEN e ELSE map[k]])
  ELSE [map |-> without(map, KeyOf(f)), done |-> TRUE, to |-> e.to, data |-> joined(e)]

hysteria2_collect(map, f, e) ==
  IF Cardinality(DOMAIN e.frags) # f.count THEN Waiting(without(map, KeyOf(f))) ELSE stored(map, f, placed(e, f))
hysteria2_reassemble(map, f) ==
  hysteria2_collect(roomy(fresh_partials(map), f), f, Reassembly(roomy(fresh_partials(map), f), f))
tuic_collect(map, f, e) ==
  IF Cardinality(DOMAIN e.frags) # f.count \/ e.bytes + Len(f.data) > MAX_PAYLOAD THEN Waiting(without(map, KeyOf(f)))
  ELSE stored(map, f, placed(e, f))
tuic_reassemble(map, f) ==
  tuic_collect(roomy(fresh_partials(map), f), f, Reassembly(roomy(fresh_partials(map), f), f))

(* A reply for no session, or for one whose channel is full, is dropped.   *)
try_send(q, id, d) ==
  IF id \in DOMAIN q.table /\ Len(q.session[q.table[id]].inbox) < CHANNEL
  THEN [q EXCEPT !.session[q.table[id]].inbox = Append(@, d)] ELSE q
Demuxed(q, f, r, to) ==
  IF r.done THEN try_send([q EXCEPT !.partial = r.map], f.session, Datagram(to, r.data)) ELSE [q EXCEPT !.partial = r.map]
Whole(q, f) == [map |-> q.partial, done |-> TRUE, to |-> f.to, data |-> f.data]

hysteria2_open_session(h) ==
  quic' = [quic EXCEPT !.next = @ + 1, !.table = [i \in DOMAIN @ \cup {quic.next} |-> IF i = quic.next THEN h ELSE @[i]],
                       !.session[h].state = "open", !.session[h].id = quic.next]
hysteria2_demux_loop(f) ==
  \E r \in {IF f.count <= 1 THEN Whole(quic, f) ELSE hysteria2_reassemble(quic.partial, f)} :
    quic' = Demuxed([quic EXCEPT !.air = @ \ {f}], f, r, f.to)

(* The ids wrap and skip the sessions that are still open.                 *)
Vacant == {k \in 0 .. ASSOCIATION_IDS - 1 : (quic.next + k) % ASSOCIATION_IDS \notin DOMAIN quic.table}
(* Mutant: the id is taken whether a session holds it or not. *)
tuic_open_session_wraps(h) ==
  \E id \in {quic.next % ASSOCIATION_IDS} :
    quic' = [quic EXCEPT !.next = (id + 1) % ASSOCIATION_IDS, !.table = [i \in DOMAIN @ \cup {id} |-> IF i = id THEN h ELSE @[i]],
                         !.session[h].state = "open", !.session[h].id = id]
tuic_open_session(h) ==
  IF Cardinality(DOMAIN quic.table) >= MAX_ASSOCIATIONS THEN quic' = [quic EXCEPT !.session[h].state = "refused"]
  ELSE \E k \in Vacant :
    /\ \A j \in Vacant : k <= j
    /\ \E id \in {(quic.next + k) % ASSOCIATION_IDS} :
         quic' = [quic EXCEPT !.next = (id + 1) % ASSOCIATION_IDS, !.table = [i \in DOMAIN @ \cup {id} |-> IF i = id THEN h ELSE @[i]],
                              !.session[h].state = "open", !.session[h].id = id]
handle_frame(f) ==
  \E r \in {IF f.count = 1 THEN [Whole(quic, f) EXCEPT !.done = f.to # None] ELSE tuic_reassemble(quic.partial, f)} :
    quic' = Demuxed([quic EXCEPT !.air = @ \ {f}], f, [r EXCEPT !.done = @ /\ r.to # None], r.to)

OpenSession(h) ==
  /\ quic.session[h].state = "new" /\ \A g \in Handles : g < h => quic.session[g].state # "new"
  /\ \/ quic.kind = "hysteria2" /\ hysteria2_open_session(h)
     \/ quic.kind \in {"tuic_native", "tuic_quic"} /\ tuic_open_session(h)

(* A datagram that needs too many fragments ends its session.              *)
QuicFrame(s, d) ==
  CASE quic.kind = "hysteria2" -> hysteria2_send_datagram(s, d)
    [] quic.kind = "tuic_native" -> send_native(s, d)
    [] quic.kind = "tuic_quic" -> send_stream_frame(s, d)
Underway(key) ==
  (\E f \in quic.air : KeyOf(f) = key) \/ (key \in DOMAIN quic.partial /\ ~quic.partial[key].old)
QuicUplink(h) ==
  /\ quic.session[h].state = "open" /\ quic.asked < MaxQuicDatagrams
  /\ \E n \in {0, MAX_CHUNK * MAX_FRAGMENTS, MAX_CHUNK * MAX_FRAGMENTS + 1} :
       \E d \in {Datagram(Ip1, Payload_(quic.asked + 1, n))}, s \in {quic.session[h]} :
         quic' = IF quic.kind # "tuic_quic" /\ Chunks_(d.data) > MAX_FRAGMENTS
                 THEN [quic EXCEPT !.asked = @ + 1, !.session[h].state = "ending"]
                 ELSE [quic EXCEPT !.asked = @ + 1, !.session[h].sent = @ \cup {d}, !.air = @ \cup QuicFrame(s, d),
                                   !.session[h].packet = (@ + 1) % PACKET_IDS,
                                   !.round = IF Underway(<<s.id, s.packet>>) THEN @ \cup {h} ELSE @]
SessionEnds(h) ==
  /\ quic.session[h].state = "ending"
  /\ quic' = [quic EXCEPT !.session[h].state = "gone", !.table = without(@, quic.session[h].id)]

SessionDropped(h) == quic.session[h].state = "open" /\ quic' = [quic EXCEPT !.session[h].state = "ending"]
SessionRecv(h) ==
  /\ quic.session[h].inbox # <<>>
  /\ quic' = [quic EXCEPT !.session[h].inbox = Tail(@)]
QuicDemux ==
  \E f \in quic.air :
    \/ quic.kind = "hysteria2" /\ hysteria2_demux_loop(f)
    \/ quic.kind \in {"tuic_native", "tuic_quic"} /\ handle_frame(f)

(* The network loses a fragment, time passes, the far end repeats one or   *)
(* miscounts it.                                                           *)
FragmentLost == quic.kind # "tuic_quic" /\ \E f \in quic.air : quic' = [quic EXCEPT !.air = @ \ {f}]
PartialsAge ==
  /\ \E k \in DOMAIN quic.partial : ~quic.partial[k].old
  /\ quic' = [quic EXCEPT !.partial = [k \in DOMAIN @ |-> [@[k] EXCEPT !.old = TRUE]]]
FarRepeats ==
  /\ quic.kind # "tuic_quic" /\ ~quic.repeated
  /\ \E f \in quic.air : quic' = [quic EXCEPT !.air = @ \cup {[f EXCEPT !.copy = 1]}, !.repeated = TRUE]
FarMiscounts ==
  /\ quic.kind # "tuic_quic" /\ quic.asked = 1
  /\ \E f \in quic.air : f.count = 2 /\ quic' = [quic EXCEPT !.air = (@ \ {f}) \cup {[f EXCEPT !.count = 3]}]

QuicNext ==
  /\ \/ \E h \in Handles : OpenSession(h) \/ QuicUplink(h) \/ SessionEnds(h) \/ SessionDropped(h) \/ SessionRecv(h)
     \/ QuicDemux \/ FragmentLost \/ PartialsAge \/ FarRepeats \/ FarMiscounts
  /\ UNCHANGED relay

-----------------------------------------------------------------------------
Elements(s) == {s[i] : i \in DOMAIN s}

(* Safety: whatever the cuts of the stream, the losses, the repetition and *)
(* the order of the fragments, an end receives only whole datagrams that   *)
(* the other end sent to that session, each under its own address; a       *)
(* stream also keeps their order.  A reply that names no source is judged  *)
(* by its payload.  The ids of a QUIC session wrap at 2^16: one that comes *)
(* round inside the reassembly's TTL joins fragments of two datagrams      *)
(* (tuic udp.rs:354-368, hysteria2 udp.rs:256-267), and such a session is  *)
(* left out.                                                               *)
DatagramsWhole ==
  /\ Stream => /\ Len(relay.seen) <= Len(relay.carried)
               /\ \A i \in DOMAIN relay.seen :
                    /\ relay.seen[i].data = relay.carried[i].data
                    /\ relay.seen[i].to \in {relay.carried[i].to, None}
               /\ Len(relay.got) <= Len(relay.replies)
               /\ \A i \in DOMAIN relay.got :
                    /\ relay.got[i].data = relay.replies[i].data
                    /\ relay.replies[i].to \in {relay.got[i].to, None}
  /\ ~Stream => Elements(relay.seen) \subseteq Elements(relay.carried) /\ Elements(relay.got) \subseteq Elements(relay.replies)
  /\ \A h \in Handles \ quic.round : Elements(quic.session[h].inbox) \subseteq quic.session[h].sent

(* Safety: a Shadowsocks 2022 session takes no reply twice, and sends no   *)
(* two packets under one number, however packets are repeated and late.    *)
RepliesOnce ==
  /\ \A i, j \in DOMAIN relay.accepted : relay.accepted[i] = relay.accepted[j] => i = j
  /\ ~Stream => \A i, j \in DOMAIN relay.out : relay.out[i].id = relay.out[j].id => i = j

(* Safety: the table of a QUIC connection names exactly its open sessions, *)
(* each under an id of its own, and holds no more than it may; what is     *)
(* under reassembly stays within its limits.                               *)
SessionsApart ==
  /\ DOMAIN quic.table = {quic.session[h].id : h \in {g \in Handles : quic.session[g].state \in {"held", "open", "ending"}}}
  /\ \A i \in DOMAIN quic.table : quic.session[quic.table[i]].id = i
  /\ quic.kind \in {"tuic_native", "tuic_quic"} => Cardinality(DOMAIN quic.table) <= MAX_ASSOCIATIONS
  /\ Cardinality(DOMAIN quic.partial) <= MAX_PARTIAL
  /\ MapThenSumSet(LAMBDA k : quic.partial[k].bytes, DOMAIN quic.partial) <= MAX_REASSEMBLY
================================================================================
