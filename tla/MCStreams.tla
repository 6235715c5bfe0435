------------------------------ MODULE MCStreams ------------------------------
(***************************************************************************)
(* The outbounds' byte streams and datagram sessions, for TLC: `part` is   *)
(* which of them a behaviour is about, the others rest.                    *)
(***************************************************************************)
EXTENDS VisionRelay, Framing, Datagrams

VARIABLE part
MCVars == <<part, visionVars, firstVars, framingVars, datagramVars>>

MCAppBytes == <<1, 2, 3>>
MCPayload == <<1, 2, 3>>
MCUpScripts ==
  {ResponseHeader(0) \o FirstFrame(CONTINUE, <<Data(101, hello)>>, 1) \o Frame(END, <<Data(102, "rest13")>>, 1) \o <<Data(103, "plain")>> :
     hello \in {"hello13", "hello13_ccm8", "hello_open", "hello_short", "hello12", "plain"}}
MCDownScripts ==
  {ResponseHeader(1) \o FirstFrame(CONTINUE, <<Data(101, "hello12")>>, 1) \o Frame(END, <<Data(102, "plain"), Data(103, "plain")>>, 1) \o <<Data(104, "plain")>>,
   ResponseHeader(0) \o FirstFrame(CONTINUE, <<>>, 1) \o Frame(DIRECT, <<Data(102, "hello_open"), Data(103, "rest12")>>, 1) \o <<RawData(104)>>,
   ResponseHeader(0) \o <<Data(101, "hello_open"), Data(102, "rest13"), Data(103, "plain")>>}

VisionRests == VisionInit({<<>>})
FirstRests == first = NewFirst("rests")
LinkRests == link = NewLink("rests", "", <<>>)
DatagramRests == relay = NewRelay("rests") /\ quic = NewQuic("rests")

(* The adapters, with what the far end may send before its first byte; a   *)
(* head that no server of the protocol sends is marked.                    *)
Wrong(l) == [l EXCEPT !.cut = TRUE]
MCLinks ==
  {NewLink("vless", "", head) : head \in {<<Version, N(0)>>, <<Version, N(2), Pad, Pad>>}}
  \cup {Wrong(NewLink("vless", "", <<Mark, N(0)>>))}
  \cup {NewLink("hysteria2", "Reading", head) : head \in {<<RespOk, N(0), N(0)>>, <<RespOk, N(1), Field, N(1), Pad>>}}
  \cup {Wrong(NewLink("hysteria2", "Reading", head)) :
          head \in {<<RespBad, N(1), Field, N(0)>>, <<RespOk, N(MAX_HEAD + 1)>>, <<RespOk, N(0), N(MAX_HEAD + 1)>>}}
  \cup {NewLink("enc", "Header", <<>>), [NewLink("enc", "Padding", <<Pad>>) EXCEPT !.down.skip = 1]}
  \cup {[NewLink("enc", "ServerRandom", <<Random>>) EXCEPT !.down.on = FALSE, !.down.skip = 1],
        [NewLink("enc", "ServerRandom", <<>>) EXCEPT !.down.on = FALSE, !.down.skip = 1, !.up.skip = 1]}
  \cup {NewLink("vmess", "RespLength", <<RespLength, RespOk>>), Wrong(NewLink("vmess", "RespLength", <<RespLength, RespBad>>))}
  \cup {NewLink("obfs_http", "HttpHeader", <<HeadLine, HeadEnd>>),
        Wrong(NewLink("obfs_http", "HttpHeader", <<HeadLine, Field, Field, Field, Field, Field>>))}
  \cup {NewLink("obfs_tls", "TlsFirstResponse", <<>>), Wrong(NewLink("obfs_tls", "TlsFirstResponse", <<Alert>>))}
  \cup {NewLink(kind, "Hello", <<>>) : kind \in {"obfs_http_up", "obfs_tls_up"}}
  \cup {NewLink("grpc", "Head", <<HeadLine>>),
        [NewLink("grpc", "Head", <<HeadLine, Mark, N(6), Field, N(1), 1, Field, N(1), 2>>) EXCEPT !.ends = {1, 9}]}
  \cup {[Wrong(NewLink("grpc", "Head", head)) EXCEPT !.ends = {1, 5}] : head \in {<<BadLine>>, <<HeadLine, Mark, N(2), Mark, N(0)>>}}
  \cup {NewLink(kind, "Body", <<>>) : kind \in {"http2", "xhttp", "h2stream"}}
  \cup {NewLink("naive", "PayloadLength", <<>>)}
  \cup {NewLink("upgrade", "Head", <<HeadLine, Field, HeadEnd>>)}
  \cup {Wrong(NewLink("upgrade", "Head", head)) : head \in {<<HeadLine, HeadEnd>>, <<BadLine, Field, HeadEnd>>}}
  \cup {NewLink("connect", "Head", <<HeadLine, HeadEnd>>)}
  \cup {Wrong(NewLink("connect", "Head", head)) :
          head \in {<<HeadLine, Mark, HeadEnd>>, <<BadLine, HeadEnd>>, <<HeadLine, Field, Field, Field, Field>>}}
  \cup {NewLink("shadowtls", "Record", head) : head \in {<<>>, <<Mark, N(2), ProofTag(0), Pad>> \o <<ChangeCipher, N(1), Pad>>}}
  \cup {Wrong(NewLink("shadowtls", "Record", <<Mark, N(2), Pad, Pad>>))}
  \cup {NewLink("websocket", "Message", head) : head \in {<<>>, Message(Pad, <<>>)}}
  \cup {Wrong(NewLink("websocket", "Message", Message(Field, <<>>)))}

MCRelays ==
  {NewRelay(kind) : kind \in {"udp", "packetaddr", "xudp", "trojan", "uot", "anytls", "ss", "ss2022", "socks"}}
  \cup {[NewRelay("vmess") EXCEPT !.in = <<u>>] : u \in {STATUS_NEW, Garbage}}
MCOffers == {<<None, 1>>, <<Ip2, 2>>, <<Name, 1>>, <<LongName, 1>>, <<Ip1, 0>>, <<Ip2, 3>>}
(* A TUIC connection whose ids have come round to a session still open.    *)
MCQuics ==
  {NewQuic(kind) : kind \in {"hysteria2", "tuic_native", "tuic_quic"}}
  \cup {[NewQuic(kind) EXCEPT !.next = 2, !.table = (2 :> 1), !.session[1].state = "held", !.session[1].id = 2] : kind \in {"tuic_native"}}

MCInit ==
  \/ part = "vision_up" /\ VisionInit(MCUpScripts) /\ FirstRests /\ LinkRests /\ DatagramRests
  \/ part = "vision_down" /\ VisionInit(MCDownScripts) /\ FirstRests /\ LinkRests /\ DatagramRests
  \/ part = "first" /\ VisionRests /\ LinkRests /\ DatagramRests /\ \E kind \in {"trojan", "shadowsocks"} : first = NewFirst(kind)
  \/ part = "framing" /\ VisionRests /\ FirstRests /\ DatagramRests /\ link \in MCLinks
  \/ part = "relay" /\ VisionRests /\ FirstRests /\ LinkRests /\ quic = NewQuic("rests") /\ relay \in MCRelays
  \/ part = "quic" /\ VisionRests /\ FirstRests /\ LinkRests /\ relay = NewRelay("rests") /\ quic \in MCQuics

(* up: the application writes all it can, against a server that sends each *)
(* frame in a record of its own and never hands over.  down: the           *)
(* application only reads, and the server cuts its bytes anywhere; nothing *)
(* is claimed of a reader that was misled, and it is followed no further.  *)
VisionUpNext ==
  \/ PollApp \/ ReadAppIdle \/ \E n \in 1 .. 2 : ReadNetwork(n) /\ n = Len(peer.wire)
  \/ ReadApp /\ (Head(app.sent).big => vision.tls12 \/ vision.budget > 2)
  \/ \E tls \in {"plain", "client_hello", "app_data", "app_part"}, big \in BOOLEAN, cut \in {"boundary", "middle"} :
       /\ (cut = "middle" => big)
       /\ AppWrite(tls, big, cut)
  \/ \E n \in 1 .. Len(peer.todo) :
       /\ peer.wire = <<>>
       /\ n < Len(peer.todo) => peer.todo[n + 1].k \in {"uuid", "command"} \/ peer.todo[n + 1].raw
       /\ peer.todo[n].k # "uuid"
       /\ PeerRecord(n)
VisionDownNext ==
  /\ ~peer.misled
  /\ \/ PollApp \/ ReadAppIdle \/ ReadAppEof \/ ReadNetworkEof \/ \E n \in 1 .. 4 : ReadNetwork(n)
     \/ peer.received # <<>> /\ AppClose
     \/ PeerTicket \/ PeerClose
     \/ Len(peer.wire) <= 2 /\ PeerRaw
     \/ Len(peer.wire) <= 2 /\ \E n \in 1 .. Len(peer.todo) : PeerRecord(n)

(* A third session opens next to two others only, no session leaves before *)
(* a datagram was sent, and ids that come round and a repeated fragment    *)
(* are followed in a session alone, one of the two at a time.              *)
QuicScope ==
  /\ quic'.session[3].state # quic.session[3].state => Cardinality(DOMAIN quic.table) = 2
  /\ quic.asked = 0 => \A h \in Handles : quic'.session[h].state # "ending"
  /\ quic'.asked > 2 \/ quic'.repeated => quic'.session[2].state = "new" /\ quic'.session[1].state = "open"
  /\ quic'.asked > 2 => ~quic'.repeated

MCNext ==
  /\ UNCHANGED part
  /\ \/ part = "vision_up" /\ VisionUpNext /\ UNCHANGED <<firstVars, framingVars, datagramVars>>
     \/ part = "vision_down" /\ VisionDownNext /\ UNCHANGED <<firstVars, framingVars, datagramVars>>
     \/ part = "first" /\ FirstNext /\ UNCHANGED <<visionVars, framingVars, datagramVars>>
     \/ part = "framing" /\ FramingNext /\ UNCHANGED <<visionVars, firstVars, datagramVars>>
     \/ part = "relay" /\ RelayNext /\ UNCHANGED <<visionVars, firstVars, framingVars>>
     \/ part = "quic" /\ QuicNext /\ QuicScope /\ UNCHANGED <<visionVars, firstVars, framingVars>>

MCSpec == MCInit /\ [][MCNext]_MCVars /\ FirstFairness

MCHeaderReaches == part = "first" => HeaderReaches

(* The uplink with any write whatever the sniffer knows.                   *)
UncutNext ==
  \/ ReadApp
  \/ \E tls \in {"plain", "client_hello"}, big \in BOOLEAN : AppWrite(tls, big, "middle")
UncutSpec == part = "vision_up" /\ MCInit /\ [][UncutNext /\ UNCHANGED <<part, firstVars, framingVars, datagramVars>>]_MCVars

(* An application that waits for the server to speak, with the fairness of *)
(* the relay's task: a read that is waiting is polled, its deadline comes, *)
(* and bytes that arrived are read.                                        *)
ServerFirstNext ==
  PollApp \/ ReadAppIdle \/ PeerTicket \/ \E n \in 1 .. 2 : ReadNetwork(n)
ServerFirstSpec ==
  /\ part = "vision_down" /\ MCInit /\ [][ServerFirstNext /\ UNCHANGED <<part, firstVars, framingVars, datagramVars>>]_MCVars
  /\ WF_visionVars(PollApp) /\ WF_visionVars(ReadAppIdle) /\ WF_visionVars(\E n \in 1 .. 2 : ReadNetwork(n))

-----------------------------------------------------------------------------
(* Every byte stream gives what was written, in order and once: Vision's   *)
(* relay, over any cut but the two inside a frame header that              *)
(* DownlinkIntact leaves out; a header that rides on the first write; each *)
(* framing over its carrier, over any cut.  A stream that was cut does not *)
(* pass for one that ended, where the framing can tell; and no nonce of an *)
(* encrypted framing is used twice under one key.                          *)
StreamsWhole == SpliceIntact /\ HeaderThenBytes /\ ReadsWhatWasWritten /\ EndsHonestly /\ NoncesFresh

(* The datagram sessions of every protocol: a datagram is delivered whole  *)
(* or not at all, and none to another session, while fragments are lost,   *)
(* repeated or reordered and session ids wrap; packet ids may wrap too, as *)
(* long as none comes round to a datagram that is still under way.  Of     *)
(* Shadowsocks 2022 also: no reply is taken twice.                         *)
DatagramsSound == DatagramsWhole /\ RepliesOnce /\ SessionsApart
=============================================================================
