----------------------------- MODULE Dialogues ------------------------------
(***************************************************************************)
(* What an outbound says to its server, and what it must hear back, before *)
(* it hands a stream to the relay.                                         *)
(*                                                                         *)
(* A profile p decides the layers of one connection: TLS or REALITY, a     *)
(* transport (WebSocket, HTTPUpgrade, HTTP/2, XHTTP, gRPC), VLESS          *)
(* encryption, and the protocol's own dialogue.  Each layer is a script: a *)
(* sequence of steps that send something, wait for one of the answers the  *)
(* code tells apart, or mark a layer as entered.  The connect functions of *)
(* the crates put the scripts together; the server may answer anything,    *)
(* close, or say nothing.                                                  *)
(***************************************************************************)
EXTENDS Integers, Sequences, FiniteSets, FiniteSetsExt

VARIABLES
  talk,     \* one connection attempt: its profile, the steps left, what was heard and told
  shadow,   \* one ShadowTLS handshake, record by record
  driver    \* the task that drives one gRPC connection

talkVars == <<talk, shadow, driver>>

(***************************************************************************)
(* Steps.                                                                  *)
(***************************************************************************)
Say(what) == [do |-> "say", what |-> what, good |-> {}, bad |-> {}, timed |-> TRUE]
Hear(what, good, bad) == [do |-> "hear", what |-> what, good |-> good, bad |-> bad, timed |-> TRUE]
Enter(layer) == [do |-> "enter", what |-> layer, good |-> {}, bad |-> {}, timed |-> TRUE]
Untimed(script) == [i \in DOMAIN script |-> [script[i] EXCEPT !.timed = FALSE]]
When(condition, script) == IF condition THEN script ELSE <<>>
Refused(kind) == [kind |-> kind, script |-> <<>>]
Script(script) == [kind |-> "ok", script |-> script]

(***************************************************************************)
(* TLS.  A server is known by its certificate (one of the pinned ones, the *)
(* pinned key, a valid chain, or neither), its version and what it did     *)
(* with the encrypted ClientHello.                                         *)
(***************************************************************************)
Servers == [cert : {"certificate", "spki", "chain", "other"}, version : {12, 13}, ech : {"accepted", "rejected"}]

(* ConfiguredVerifier::verify_server_cert: a pin replaces every other      *)
(* check, then `insecure`, then the web roots.                             *)
(* Mutant: `insecure` outranks a pin.                                      *)
InsecureFirst(tls, server) == tls.insecure \/ (tls.pin = "none" /\ server.cert = "chain") \/ server.cert = tls.pin
verify_server_cert(tls, server) ==
  CASE tls.pin = "certificate" -> server.cert = "certificate"
    [] tls.pin = "spki" -> server.cert = "spki"
    [] tls.insecure -> TRUE
    [] OTHER -> server.cert = "chain"

(* decode_pin: a pin that is not 32 bytes of base64 is refused.            *)
decode_pin(pin) == pin # "short"

(* protocol_versions: the versions between the configured bounds.          *)
protocol_versions(tls) == {v \in {12, 13} : tls.min <= v /\ v <= tls.max}

(* ech_mode: a required config list must parse; else ECH is greased.       *)
ech_mode(tls) == CASE tls.ech = "garbled" -> "InvalidInput" [] tls.ech = "required" -> "enable" [] OTHER -> "grease"

(* The versions the builder is left with: ECH leaves TLS 1.3 only.         *)
OfferedVersions(tls) == IF tls.ech = "off" THEN protocol_versions(tls) ELSE {13}

(* enforce_ech: a required ECH that the server did not accept ends it.     *)
enforce_ech(tls, server) == tls.ech = "required" => server.ech = "accepted"

(* crypto_provider: the hybrid group comes first unless the profile lists  *)
(* classical groups and allows them alone.                                 *)
Hybrid == "X25519MlKem768"
crypto_provider(tls) ==
  IF tls.curves = <<>> THEN <<Hybrid, "X25519", "Secp256r1", "Secp384r1">>
  ELSE IF (\A i \in DOMAIN tls.curves : tls.curves[i] # Hybrid) /\ ~ tls.classical THEN <<Hybrid>> \o tls.curves
  ELSE tls.curves

(* build_client_config_with_roots: a fingerprint fixes ECH, the versions   *)
(* and the curves; two kinds of pin are ambiguous.                         *)
build_client_config_with_roots(tls) ==
  /\ tls.fingerprint => tls.ech = "off" /\ tls.min = 12 /\ tls.max = 13 /\ tls.curves = <<>>
  /\ tls.pin # "both"
  /\ decode_pin(tls.pin)
  /\ tls.ech # "off" => ech_mode(tls) # "InvalidInput"
  /\ OfferedVersions(tls) # {}

(* wrap_tls_with_alpn: a disabled TLS block with pins or a fingerprint is  *)
(* refused, else the stream stays as it is; the handshake has 15 seconds.  *)
TlsAnswers(tls) == {s \in Servers : s.version \in OfferedVersions(tls) /\ verify_server_cert(tls, s) /\ enforce_ech(tls, s)}
wrap_tls_with_alpn(tls) ==
  IF ~ tls.enabled THEN (IF tls.pin # "none" \/ tls.fingerprint THEN Refused("InvalidInput") ELSE Script(<<>>))
  ELSE IF ~ build_client_config_with_roots(tls) THEN Refused("InvalidInput")
  ELSE Script(<<Say("client_hello"), Hear("tls", TlsAnswers(tls), Servers \ TlsAnswers(tls)), Enter("tls")>>)

(* wrap_tls_spliced: the Vision path; TLS must be on, and 1.3 be agreed.   *)
wrap_tls_spliced(tls) ==
  IF ~ tls.enabled \/ ~ build_client_config_with_roots(tls) THEN Refused("InvalidInput")
  ELSE Script(<<Say("client_hello"),
                Hear("tls", {s \in TlsAnswers(tls) : s.version = 13}, {s \in Servers : s \notin TlsAnswers(tls) \/ s.version # 13}), Enter("tls")>>)

(***************************************************************************)
(* Transports.                                                             *)
(***************************************************************************)
connect_websocket == <<Say("upgrade"), Hear("websocket", {"101"}, {"200", "bad_accept"}), Enter("ws")>>
connect_http_upgrade == <<Say("upgrade"), Hear("upgrade", {"101"}, {"200", "no_upgrade"}), Enter("httpupgrade")>>
connect_http2 == <<Say("h2_preface"), Say("h2_request"), Hear("h2", {"200"}, {"404", "reset"}), Enter("http2")>>
connect_xhttp == <<Say("h2_preface"), Say("h2_request"), Hear("xhttp", {"200"}, {"404", "reset"}), Enter("xhttp")>>
(* connect_grpc_inner: the stream is handed out before the response        *)
(* headers; the driver below answers for them.                             *)
connect_grpc_inner == <<Say("h2_preface"), Say("h2_request"), Enter("grpc")>>
(* connect_grpc_with_options: windows and timers out of range are refused. *)
connect_grpc_with_options(p) == IF p.timers THEN Script(connect_grpc_inner) ELSE Refused("InvalidInput")

(* wrap_stream_transport: one transport over what is already there.        *)
wrap_stream_transport(p) ==
  CASE p.transport = "ws" -> Script(connect_websocket)
    [] p.transport = "httpupgrade" -> Script(connect_http_upgrade)
    [] p.transport = "http2" -> Script(connect_http2)
    [] p.transport = "xhttp" -> Script(connect_xhttp)
    [] p.transport = "grpc" -> connect_grpc_with_options(p)
    [] OTHER -> Script(<<>>)

(* Two layers, the second over the first; the first refusal ends it.       *)
Over(first, second) ==
  IF first.kind = "ok" THEN [second EXCEPT !.script = first.script \o @] ELSE first

(* establish_stream: TLS, then the transport.                              *)
establish_stream(p) == Over(wrap_tls_with_alpn(p.tls), wrap_stream_transport(p))

(***************************************************************************)
(* SOCKS5.                                                                 *)
(***************************************************************************)
read_method_selection == Hear("method", {"offered"}, {"none_acceptable", "another", "bad_version"})
read_auth_status == Hear("auth", {"auth_ok"}, {"auth_denied"})
read_reply == Hear("reply", {"succeeded"}, {"rejected", "bad_version"})
read_address == Hear("bound", {"address"}, {"bad_type"})
encode_auth(p) == IF p.user = "long" THEN Refused("InvalidInput") ELSE Script(<<Say("secret"), read_auth_status>>)
credentials(p) == p.user # "none"
handshake(p) ==
  Over(Script(<<Say("greeting"), read_method_selection>>),
       Over(IF credentials(p) THEN encode_auth(p) ELSE Script(<<>>), Script(<<Say("destination"), read_reply, read_address>>)))
SocksOutbound_new(p) == p.user # "half" /\ p.timers
SocksOutbound_connect_stream(p) == IF SocksOutbound_new(p) THEN handshake(p) ELSE Refused("InvalidInput")

(***************************************************************************)
(* I2P: SOCKS5 to a router on this device, `.i2p` names only.              *)
(***************************************************************************)
normalized_i2p_host(host) ==
  CASE host = "i2p" -> "ok" [] host = "clear" -> "PermissionDenied" [] OTHER -> "InvalidData"
validate_proxy_endpoint(p) == p.loopback
validate_credentials(p) == p.user \in {"none", "named"}
socks5_authenticate == <<Say("secret"), Hear("auth", {"auth_ok"}, {"auth_denied"})>>
socks5_connect(p) ==
  <<Say("greeting"), Hear("method", {"offered"}, {"none_acceptable", "another", "bad_version"})>>
    \o When(credentials(p), socks5_authenticate)
    \o <<Say("destination"), Hear("reply", {"succeeded"}, {"rejected", "bad_version"}), Hear("bound", {"address"}, {"bad_type"})>>
I2pOutbound_connect_stream(p) ==
  IF ~ validate_proxy_endpoint(p) \/ ~ validate_credentials(p) THEN Refused("InvalidData")
  ELSE IF normalized_i2p_host(p.host) # "ok" THEN Refused(normalized_i2p_host(p.host))
  ELSE Script(socks5_connect(p))

(***************************************************************************)
(* HTTP CONNECT and NaiveProxy.                                            *)
(***************************************************************************)
(* encode_connect: a user name with a colon would be read as another one.  *)
encode_connect(p) == IF p.user = "colon" THEN Refused("InvalidInput") ELSE Script(<<Say(IF credentials(p) THEN "secret" ELSE "destination")>>)
HttpConnectOutbound_new(p) == p.user # "half" /\ p.timers
(* Mutant: the status line is awaited without the handshake timeout.       *)
Unbounded(p) == Over(encode_connect(p), Script(Untimed(<<Hear("status", {"2xx"}, {"407", "malformed", "too_long"})>>)))
HttpConnectOutbound_connect(p) == Over(encode_connect(p), Script(<<Hear("status", {"2xx"}, {"407", "malformed", "too_long"})>>))
(* Mutant: the request goes out before the TLS handshake.                  *)
RequestFirst(p) == Over(HttpConnectOutbound_connect(p), wrap_tls_with_alpn(p.tls))
HttpConnectOutbound_connect_stream(p) == Over(wrap_tls_with_alpn(p.tls), HttpConnectOutbound_connect(p))

negotiate_padding(reply) ==
  CASE reply \in {"type1", "padding"} -> "variant1" [] reply \in {"type0", "none"} -> "none" [] OTHER -> "unknown"
NaiveReplies == {"type0", "type1", "padding", "none", "type7"}
(* open_stream: 2xx, a padding type the client knows, and padding at all   *)
(* when the profile requires it.                                           *)
AcceptedPadding(p) == {r \in NaiveReplies : negotiate_padding(r) # "unknown" /\ (p.padding => negotiate_padding(r) = "variant1")}
build_request(p) == encode_connect(p)
NaiveOutbound_new(p) == p.tls.enabled /\ p.alpn /\ p.user # "half" /\ p.timers
NaiveOutbound_connect_stream(p) ==
  IF ~ NaiveOutbound_new(p) THEN Refused("InvalidInput")
  ELSE Over(Over(wrap_tls_with_alpn(p.tls), Script(<<Say("h2_preface")>>)),
            Over(build_request(p), Script(<<Hear("status", {"2xx"}, {"407", "reset"}), Hear("padding", AcceptedPadding(p), NaiveReplies \ AcceptedPadding(p))>>)))

(***************************************************************************)
(* Trojan, VMess, Shadowsocks, AnyTLS: a header and nothing to wait for.   *)
(***************************************************************************)
TrojanOutbound_new(p) == p.tls.enabled
TrojanOutbound_connect_stream(p) ==
  IF ~ TrojanOutbound_new(p) THEN Refused("InvalidInput") ELSE Over(establish_stream(p), Script(<<Say("secret")>>))
VmessOutbound_new(p) == p.alter_id = 0
VmessOutbound_connect_stream(p) ==
  IF ~ VmessOutbound_new(p) THEN Refused("Unsupported") ELSE Over(establish_stream(p), Script(<<Say("secret")>>))
VmessOutbound_connect_datagram(p) == VmessOutbound_connect_stream(p)
ShadowsocksOutbound_connect_stream(p) == Over(establish_stream(p), Script(<<Say("secret")>>))
ShadowsocksOutbound_connect_datagram(p) == IF ~ p.udp \/ p.transport # "raw" \/ p.tls.enabled THEN Refused("Unsupported") ELSE Script(<<>>)
anytls_validate_runtime_config(p) == p.tls.enabled /\ p.timers
(* AnyTlsSession::connect_first: the session authenticates itself once.    *)
AnyTlsSession_connect_first(p) ==
  IF ~ anytls_validate_runtime_config(p) THEN Refused("InvalidInput") ELSE Over(wrap_tls_with_alpn(p.tls), Script(<<Say("secret"), Say("settings")>>))

(***************************************************************************)
(* VLESS.                                                                  *)
(***************************************************************************)
Vision(p) == p.flow = "xtls-rprx-vision"
VlessOutbound_new(p) ==
  /\ ~ (p.reality /\ p.tls.enabled)
  /\ p.flow \in {"none", "xtls-rprx-vision"}
  /\ Vision(p) => p.transport = "raw" /\ (p.reality \/ p.tls.enabled) /\ p.packets = "xudp" /\ p.enc = "none"
reality_layer == <<Say("client_hello"), Hear("reality", {"authenticated"}, {"decoy", "alert"}), Enter("reality")>>
(* handshake_inner of the encryption.  With a ticket nothing is read       *)
(* before the stream is handed out.                                        *)
zero_rtt == <<Say("ticket"), Enter("encryption")>>
(* Without one the server's answer is; none of the reads has a timer.      *)
one_rtt == Untimed(<<Say("offer"), Hear("server_hello", {"opened"}, {"not_opened", "long_padding"}), Enter("encryption")>>)
handshake_inner(p) == IF p.enc = "ticket" THEN zero_rtt ELSE one_rtt
(* connect_vision: its own TLS path, so that records can be passed on.     *)
connect_vision(p) ==
  Over(IF p.reality THEN Script(reality_layer) ELSE wrap_tls_spliced(p.tls), Script(<<Say("secret")>>))
VlessOutbound_connect(p) ==
  Over(Over(IF p.reality THEN Over(Script(reality_layer), wrap_stream_transport(p)) ELSE establish_stream(p),
            Script(When(p.enc # "none", handshake_inner(p)))),
       Script(<<Say("secret")>>))
VlessOutbound_connect_stream(p) ==
  IF ~ VlessOutbound_new(p) THEN Refused("InvalidInput") ELSE IF Vision(p) THEN connect_vision(p) ELSE VlessOutbound_connect(p)
VlessOutbound_connect_datagram(p) ==
  IF ~ VlessOutbound_new(p) THEN Refused("InvalidInput")
  ELSE IF Vision(p) /\ p.host = "quic" THEN Refused("Unsupported")
  ELSE IF p.packets = "packetaddr" /\ p.host = "clear" THEN Refused("InvalidInput")
  ELSE IF Vision(p) THEN connect_vision(p) ELSE VlessOutbound_connect(p)

(***************************************************************************)
(* Hysteria2 and TUIC: QUIC, then an authentication of the connection.     *)
(***************************************************************************)
(* parse_auth_response: status 233 with a receive limit that parses.       *)
parse_auth_response == Hear("h3_auth", {"233"}, {"404", "bad_limit", "not_headers"})
hysteria2_authenticate == <<Say("secret"), parse_auth_response>>
hysteria2_connect(p) ==
  IF ~ p.timers THEN Refused("InvalidInput") ELSE Over(wrap_tls_with_alpn(p.tls), Script(<<Say("settings")>> \o hysteria2_authenticate))
(* TUIC authenticates with a one-way message: the server closes on a       *)
(* wrong one, it never says yes.                                           *)
tuic_authenticate == <<Say("secret")>>
tuic_connect(p) == IF ~ p.timers THEN Refused("InvalidInput") ELSE Over(wrap_tls_with_alpn(p.tls), Script(tuic_authenticate))

(***************************************************************************)
(* Tor: Arti builds the circuits; the core builds its configuration and    *)
(* bounds its bootstrap.                                                   *)
(***************************************************************************)
build_arti_config(p) == p.bridge # "garbled" /\ (p.bridge = "obfs4" => p.pt)
TorOutbound_new(p) ==
  IF ~ build_arti_config(p) THEN Refused("InvalidInput") ELSE Script(<<Hear("bootstrap", {"bootstrapped"}, {"fs_permissions", "tor_unreachable"})>>)
TorOutbound_connect_stream(p) == Over(TorOutbound_new(p), Script(<<Enter("tor"), Say("destination"), Hear("circuit", {"connected"}, {"rejected"})>>))
Connect(p) ==
  CASE p.proto = "socks" -> SocksOutbound_connect_stream(p)
    [] p.proto = "i2p" -> I2pOutbound_connect_stream(p)
    [] p.proto = "http" -> IF HttpConnectOutbound_new(p) THEN HttpConnectOutbound_connect_stream(p) ELSE Refused("InvalidInput")
    [] p.proto = "naive" -> NaiveOutbound_connect_stream(p)
    [] p.proto = "trojan" -> TrojanOutbound_connect_stream(p)
    [] p.proto = "vmess" -> IF p.datagram THEN VmessOutbound_connect_datagram(p) ELSE VmessOutbound_connect_stream(p)
    [] p.proto = "shadowsocks" -> IF p.datagram THEN ShadowsocksOutbound_connect_datagram(p) ELSE ShadowsocksOutbound_connect_stream(p)
    [] p.proto = "vless" -> IF p.datagram THEN VlessOutbound_connect_datagram(p) ELSE VlessOutbound_connect_stream(p)
    [] p.proto = "anytls" -> AnyTlsSession_connect_first(p)
    [] p.proto = "hysteria2" -> hysteria2_connect(p)
    [] p.proto = "tuic" -> tuic_connect(p)
    [] p.proto = "tor" -> TorOutbound_connect_stream(p)

(***************************************************************************)
(* Playing a script.                                                       *)
(***************************************************************************)
Begin(p, plan) ==
  [p |-> p, todo |-> plan.script, ends |-> plan.kind, heard |-> {}, inside |-> {}, told |-> {}, pc |-> "open"]

Now == Head(talk.todo)
Playing(do) == talk.pc = "open" /\ talk.todo # <<>> /\ Now.do = do
Rest == Tail(talk.todo)

(* A write; what it carries is remembered with the layers around it.       *)
Sends ==
  /\ Playing("say")
  /\ talk' = [talk EXCEPT !.todo = Rest, !.told = @ \cup {<<Now.what, talk.inside>>}]
Enters == Playing("enter") /\ talk' = [talk EXCEPT !.todo = Rest, !.inside = @ \cup {Now.what}]
Hears(answer) ==
  /\ Playing("hear")
  /\ answer \in Now.good \cup Now.bad
  /\ talk' = [talk EXCEPT !.heard = @ \cup {<<Now.what, answer>>}, !.todo = IF answer \in Now.good THEN Rest ELSE <<>>,
                          !.pc = IF answer \in Now.good THEN "open" ELSE "failed"]
(* The server closes, or its time is over: an error either way.            *)
ServerCloses == Playing("hear") /\ talk' = [talk EXCEPT !.pc = "failed", !.todo = <<>>]
TimesOut == Playing("hear") /\ Now.timed /\ talk' = [talk EXCEPT !.pc = "failed", !.todo = <<>>]
(* The script is played: a stream, or the refusal the plan ends with.      *)
Ends ==
  /\ talk.pc = "open" /\ talk.todo = <<>>
  /\ talk' = [talk EXCEPT !.pc = IF talk.ends = "ok" THEN "stream" ELSE "failed"]

TalkGoes == (Sends \/ Enters \/ TimesOut \/ Ends) /\ UNCHANGED <<shadow, driver>>
TalkNext ==
  \/ TalkGoes
  \/ (ServerCloses \/ (Playing("hear") /\ \E answer \in Now.good \cup Now.bad : Hears(answer))) /\ UNCHANGED <<shadow, driver>>

(***************************************************************************)
(* ShadowTLS v3: a TLS handshake with somebody else's server, relayed.     *)
(* Once the ServerHello is seen, every application-data record must carry  *)
(* the next link of a keyed chain; a server that has never shown one is    *)
(* taken for the real site, and one that stops showing them is an error.   *)
(***************************************************************************)
NewHandshake(p) ==
  [p |-> p, signed |-> FALSE, unsent |-> FALSE, server_random |-> FALSE, authenticated |-> FALSE, hijacked |-> FALSE,
   read |-> <<>>, muddled |-> FALSE, pc |-> IF p THEN "handshake" ELSE "failed"]
(* validate_runtime_config: TLS 1.3, no ALPN but http/1.1, a timeout.      *)
validate_runtime_config(p) == p.tls.enabled /\ p.tls.min # 12 /\ p.tls.max # 12 /\ p.alpn /\ p.timers

Shaking == shadow.pc = "handshake"
ShadowFails == [shadow EXCEPT !.pc = "failed"]
(* authenticated: proven at least once, and never taken for the real site. *)
authenticated(s) == s.authenticated /\ ~ s.hijacked

(* process_client_hello: the first record is signed on its way out.        *)
process_client_hello == Shaking /\ ~ shadow.signed /\ shadow' = [shadow EXCEPT !.signed = TRUE, !.unsent = TRUE]
(* poll_write and poll_flush: later bytes are held until the socket takes  *)
(* them.                                                                   *)
poll_write == Shaking /\ shadow.signed /\ shadow.server_random /\ ~ shadow.unsent /\ shadow' = [shadow EXCEPT !.unsent = TRUE]
poll_flush == Shaking /\ shadow.unsent /\ shadow' = [shadow EXCEPT !.unsent = FALSE]

(* Mutant: the first unproven record leaves no mark.                       *)
NotMarked(s) == IF s.authenticated THEN [s EXCEPT !.pc = "failed"] ELSE s
reject_or_mark_hijacked(s) == IF s.authenticated THEN [s EXCEPT !.pc = "failed"] ELSE [s EXCEPT !.hijacked = TRUE]
process_proof_record(s, record) == IF record = "proven" THEN [s EXCEPT !.authenticated = TRUE] ELSE reject_or_mark_hijacked(s)
(* collect_server_hello: the first ServerHello starts the chain; too short *)
(* or too long a message is an error.                                      *)
collect_server_hello(s, record) ==
  IF record = "server_hello" THEN [s EXCEPT !.server_random = TRUE] ELSE IF record = "short_hello" THEN [s EXCEPT !.pc = "failed"] ELSE s
(* process_read_records, for one record.  What it passes on the TLS        *)
(* library reads; application data before a ServerHello it refuses.        *)
process_read_records(record) ==
  /\ Shaking /\ shadow.signed /\ ~ (shadow.unsent /\ ~ shadow.server_random)
  /\ shadow' =
       IF record = "huge" THEN ShadowFails
       ELSE IF record \in {"server_hello", "short_hello", "other"}
       THEN (IF shadow.server_random THEN shadow ELSE collect_server_hello(shadow, record))
       ELSE IF shadow.server_random /\ ~ shadow.hijacked
       THEN process_proof_record([shadow EXCEPT !.read = Append(@, record)], record)
       ELSE IF shadow.server_random THEN [shadow EXCEPT !.read = Append(@, record)]
       ELSE ShadowFails

(* The TLS library finishes once it has read the server's flight: at least *)
(* one application-data record after the ServerHello.                      *)
TlsFinishes == Shaking /\ shadow.server_random /\ shadow.read # <<>> /\ shadow' = [shadow EXCEPT !.pc = "finished"]
ShadowTimesOut == Shaking /\ shadow' = ShadowFails
(* into_switch_state: nothing may be left unsent.                          *)
into_switch_state(s) == [s EXCEPT !.pc = IF s.unsent \/ ~ s.server_random THEN "failed" ELSE "switched"]
(* muddled_request: the real site is asked for a page, for a while.        *)
muddled_request(s) == [s EXCEPT !.muddled = TRUE, !.pc = "failed"]
(* The rest of connect.                                                    *)
ShadowConnect ==
  /\ shadow.pc = "finished"
  /\ shadow' = IF authenticated(shadow) THEN into_switch_state(shadow) ELSE muddled_request(shadow)

ShadowNext ==
  /\ UNCHANGED <<talk, driver>>
  /\ \/ process_client_hello \/ poll_write \/ poll_flush \/ TlsFinishes \/ ShadowTimesOut \/ ShadowConnect
     \/ Len(shadow.read) < 3 /\ \E record \in {"server_hello", "short_hello", "other", "huge", "proven", "forged"} : process_read_records(record)

(***************************************************************************)
(* The task behind a gRPC stream.  A timer is the time left, or Off.  Time *)
(* does not pass while an arm of the driver's select is ready.             *)
(***************************************************************************)
Off == -1
HANDSHAKE_TIMEOUT == 3
IdleTime == 2
HealthTime == 2
(* How long an answering peer takes to answer a ping.                      *)
PongTime == 1

NewDriver(idle, permit) ==
  [idles |-> idle, permit |-> permit, job |-> "none", headers |-> Off, idle |-> IF idle THEN IdleTime ELSE Off, ping |-> Off,
   pong |-> Off, active |-> TRUE, silent |-> FALSE, touched |-> FALSE, seen |-> FALSE, failure |-> "none", up |-> TRUE]
(* A return: the job's reply is dropped with the task, which its reader    *)
(* sees as an error.                                                       *)
Gone(d) == [d EXCEPT !.up = FALSE, !.job = IF @ = "waiting" THEN "told" ELSE @]
Failing(d, failure) == [Gone(d) EXCEPT !.failure = failure]
Rearm(d) == IF d.idles THEN IdleTime ELSE Off

ConnectionEnds(error) ==
  /\ driver.up
  /\ driver' = IF error \/ driver.job # "answered" THEN Failing(driver, "Http2") ELSE Gone(driver)
JobReceived == driver.up /\ driver.job = "none" /\ driver' = [driver EXCEPT !.job = "waiting", !.headers = HANDSHAKE_TIMEOUT]
(* The stream is dropped before it asked for its headers.                  *)
JobDropped == driver.up /\ driver.job = "none" /\ driver' = Gone(driver)
(* The response, valid or not, is passed on; no one there to take it ends  *)
(* the task.                                                               *)
ResponseArrives(taken) ==
  /\ driver.up /\ driver.job = "waiting" /\ ~ driver.silent
  /\ driver' = IF taken THEN [driver EXCEPT !.job = "answered", !.headers = Off, !.touched = TRUE] ELSE Gone(driver)
HeadersTimedOut == driver.up /\ driver.headers = 0 /\ driver' = Failing(driver, "HeadersTimedOut")
(* Bytes of the peer, once per unit of time; ObservedIo notes them.        *)
ObservedIo == driver.up /\ driver.idles /\ ~ driver.silent /\ ~ driver.seen /\ driver' = [driver EXCEPT !.touched = TRUE, !.seen = TRUE]
ActivityNoted ==
  /\ driver.up /\ driver.idles /\ driver.touched
  /\ driver' = [driver EXCEPT !.touched = FALSE, !.idle = IF driver.ping = Off THEN Rearm(driver) ELSE @]
IdleFires ==
  /\ driver.up /\ driver.idle = 0 /\ driver.ping = Off
  /\ driver' = IF driver.permit \/ driver.active
               THEN [driver EXCEPT !.ping = HealthTime, !.pong = IF driver.silent THEN Off ELSE PongTime]
               ELSE [driver EXCEPT !.idle = Rearm(driver)]
(* Mutant: an answered ping leaves its deadline running.                   *)
PongLeavesDeadline ==
  /\ driver.up /\ driver.ping # Off /\ driver.pong = 0
  /\ driver' = [driver EXCEPT !.pong = Off, !.idle = Rearm(driver)]
PongArrives ==
  /\ driver.up /\ driver.ping # Off /\ driver.pong = 0
  /\ driver' = [driver EXCEPT !.ping = Off, !.pong = Off, !.idle = Rearm(driver)]
(* Mutant: the health deadline is checked only while the idle timer runs.  *)
HealthUnwatched == driver.up /\ driver.ping = 0 /\ driver.idle > 0 /\ driver' = Failing(driver, "HealthTimedOut")
HealthTimedOut == driver.up /\ driver.ping = 0 /\ driver' = Failing(driver, "HealthTimedOut")
(* The peer stops answering; both halves of the stream have ended.         *)
FallsSilent == driver.up /\ ~ driver.silent /\ driver' = [driver EXCEPT !.silent = TRUE, !.pong = Off]
StreamDropped == driver.up /\ driver.active /\ driver.job = "answered" /\ driver' = [driver EXCEPT !.active = FALSE]

Passing(timer) == IF timer > 0 THEN timer - 1 ELSE timer
Due(d) == d.headers = 0 \/ (d.idle = 0 /\ d.ping = Off) \/ d.ping = 0 \/ d.pong = 0 \/ (d.idles /\ d.touched)
TimePasses ==
  /\ driver.up /\ ~ Due(driver)
  /\ \E t \in {"headers", "idle", "ping"} : driver[t] > 0
  /\ driver' = [driver EXCEPT !.headers = Passing(@), !.idle = Passing(@), !.ping = Passing(@), !.pong = Passing(@), !.seen = FALSE]

drive_connection ==
  \/ JobReceived \/ HeadersTimedOut \/ ActivityNoted \/ IdleFires \/ PongArrives \/ HealthTimedOut
DriverGoes == (drive_connection \/ TimePasses) /\ UNCHANGED <<talk, shadow>>
DriverNext ==
  \/ DriverGoes
  \/ UNCHANGED <<talk, shadow>> /\ (JobDropped \/ ObservedIo \/ FallsSilent \/ StreamDropped \/ \E b \in BOOLEAN : ConnectionEnds(b) \/ ResponseArrives(b))

(***************************************************************************)
(* Properties.                                                             *)
(***************************************************************************)
DialogueFairness == WF_talkVars(TalkGoes) /\ WF_talkVars(DriverGoes)

Refusals ==
  {"none_acceptable", "another", "bad_version", "auth_denied", "rejected", "bad_type", "407", "404", "200", "malformed", "too_long", "reset",
   "bad_accept", "no_upgrade", "decoy", "alert", "not_opened", "long_padding", "bad_limit", "not_headers", "fs_permissions", "tor_unreachable", "type7"}
Over2xx == {"h2", "xhttp"}
Trusted(p, s) ==
  /\ p.tls.pin # "none" => s.cert = p.tls.pin
  /\ p.tls.pin = "none" /\ ~ p.tls.insecure => s.cert = "chain"
  /\ p.tls.ech = "required" => s.ech = "accepted"
  /\ p.tls.min <= s.version \/ p.tls.ech # "off"
  /\ Vision(p) => s.version = 13
Musts(p) ==
  CASE p.proto \in {"socks", "i2p"} -> {"method", "reply", "bound"} \cup (IF p.user = "none" THEN {} ELSE {"auth"})
    [] p.proto = "http" -> {"status"}
    [] p.proto = "naive" -> {"status", "padding"}
    [] p.proto = "hysteria2" -> {"h3_auth"}
    [] p.proto = "tor" -> {"bootstrap", "circuit"}
    [] OTHER -> {}

(* A stream is handed to the relay only when every question the dialogue   *)
(* asks was answered, no answer was a refusal, and the TLS server is the   *)
(* one the profile's pins, ECH and versions allow, `insecure` or not; the  *)
(* key exchange offered is hybrid unless classical groups alone were       *)
(* allowed (SocksOutbound, HttpConnectOutbound, wrap_tls_with_alpn ...).   *)
HandedAfterYes ==
  talk.pc = "stream" =>
    /\ \A h \in talk.heard :
         IF h[1] = "tls" THEN Trusted(talk.p, h[2]) ELSE h[2] \notin Refusals \ (IF h[1] \in Over2xx THEN {"200"} ELSE {})
    /\ Musts(talk.p) \subseteq {h[1] : h \in talk.heard}
    /\ talk.p.tls.enabled /\ ~ talk.p.tls.classical => \E i \in DOMAIN crypto_provider(talk.p.tls) : crypto_provider(talk.p.tls)[i] = Hybrid
    /\ talk.p.padding => <<"padding", "type1">> \in talk.heard \/ <<"padding", "padding">> \in talk.heard

Configured(p) ==
  (IF p.tls.enabled THEN {"tls"} ELSE {}) \cup (IF p.reality THEN {"reality"} ELSE {})
    \cup (IF p.transport = "raw" THEN {} ELSE {p.transport}) \cup (IF p.enc = "none" THEN {} ELSE {"encryption"})

(* The password, user id or destination of a profile leaves the device     *)
(* only inside every layer the profile configured, whatever the server     *)
(* answered and wherever the connection was cut.                           *)
SecretsInside == \A t \in talk.told : t[1] \in {"secret", "destination"} => Configured(talk.p) \subseteq t[2]

(* A ShadowTLS connection carries data only if every application-data      *)
(* record of its handshake was proven; the decoy request goes only to a    *)
(* server that never proved anything (connect, process_proof_record).      *)
OnlyProvenSwitches ==
  /\ shadow.pc = "switched" => shadow.read # <<>> /\ ~ shadow.unsent /\ \A i \in DOMAIN shadow.read : shadow.read[i] = "proven"
  /\ shadow.muddled => Head(shadow.read) = "forged"

(* A peer that answers its pings in time is never failed for its health    *)
(* (drive_connection).                                                     *)
LivePeerKept == driver.failure = "HealthTimedOut" => driver.silent

(* A connect whose waits the code bounds ends, however the server behaves; *)
(* the reads of the VLESS encryption handshake have no bound of their own. *)
Bounded(t) == ~ (t.p.proto = "vless" /\ t.p.enc = "fresh")
ConnectsEnd == (talk.pc = "open" /\ Bounded(talk)) ~> (talk.pc # "open")

(* A stream waiting for its headers is told, and a connection whose peer   *)
(* fell silent is given up when it is watched and in use.                  *)
DriverTells ==
  /\ (driver.job = "waiting") ~> (driver.job # "waiting")
  /\ (driver.up /\ driver.silent /\ driver.idles /\ driver.permit) ~> ~ driver.up

-----------------------------------------------------------------------------
(***************************************************************************)
(* What Hysteria2 puts between QUIC and the socket: the upload rate agreed *)
(* with the server, the Brutal controller that compensates for loss, the   *)
(* socket that paces, and the Salamander obfuscation of datagrams.         *)
(*                                                                         *)
(* Rates are in bytes per unit of time and the ack rate is a fraction      *)
(* <<acked, total>>.  The sample counts are scaled down.                   *)
(***************************************************************************)

CONSTANTS
  SAMPLE_SECONDS,      \* slots of the controller's ring
  MIN_SAMPLE_PACKETS,  \* fewer packets than this say nothing about loss
  SALT_LEN             \* bytes of salt before each datagram

VARIABLES
  control,  \* UploadControl: target and pacing
  ctl,      \* the congestion controller of the connection
  budget,   \* PacedSocket: when the next datagram may leave, Free when now
  clock     \* [now, since, sent, log]: time, when pacing began, bytes sent since, packets the controller was told of

shapingVars == <<control, ctl, budget, clock>>

Free == -1
Ceil(a, b) == (a + b - 1) \div b

(***************************************************************************)
(* The rate both sides agree on.                                           *)
(***************************************************************************)
Automatic == -1
Unlimited == 0
(* ReceiveLimit::parse: the limit in the server's header, none when it is  *)
(* no number or one that overflows.                                        *)
Digits == [zero |-> 0, two |-> 2, nine |-> 9, overflow |-> 2^30]
ReceiveLimit_parse(text) ==
  IF text = "auto" THEN {Automatic} ELSE {Digits[t] : t \in {t \in DOMAIN Digits : t = text /\ Digits[t] < 2^30}}
upload_mode(local, server) ==
  IF local = 0 \/ server = Automatic THEN 0 ELSE IF server = Unlimited THEN local ELSE Min({local, server})

(* UploadControl::apply, once the server has answered.                     *)
apply(local, header) == \E server \in ReceiveLimit_parse(header) :
  /\ clock.since = Free
  /\ control' = [target |-> upload_mode(local, server), pacing |-> upload_mode(local, server)]
  /\ clock' = [clock EXCEPT !.since = clock.now]
  /\ UNCHANGED <<ctl, budget>>

(* UploadControl::compensate: the rate is raised for lost packets, at most *)
(* to what four fifths acknowledged call for.                              *)
compensated(target, rate) == IF rate[1] * 10 < rate[2] * 8 THEN (target * 10) \div 8 ELSE (target * rate[2]) \div rate[1]
compensate(target, rate) ==
  control' = IF control.target = target /\ target # 0 THEN [control EXCEPT !.pacing = compensated(target, rate)] ELSE control

(***************************************************************************)
(* BrutalController.                                                       *)
(***************************************************************************)
NoSample == [second |-> 0, acked |-> 0, lost |-> 0]
BrutalController_new(target) == [kind |-> "brutal", target |-> target, rate |-> <<1, 1>>, samples |-> [s \in 0 .. SAMPLE_SECONDS - 1 |-> NoSample]]
Cubic == [kind |-> "cubic", target |-> 0, rate |-> <<1, 1>>, samples |-> [s \in 0 .. SAMPLE_SECONDS - 1 |-> NoSample]]

(* NegotiatedController::update: the controller follows the target, and a  *)
(* new one starts with nothing reported.                                   *)
update == IF control.target = ctl.target THEN ctl ELSE IF control.target = 0 THEN Cubic ELSE BrutalController_new(control.target)
LogOfController == IF update = ctl THEN clock.log ELSE <<>>
on_sent == ctl' = update /\ clock' = [clock EXCEPT !.log = LogOfController] /\ UNCHANGED <<control, budget>>

(* The ring: a slot of another second starts anew.                         *)
(* Mutant: what an old second left in the slot is added to.               *)
recorded_on(samples, second, acked, lost) ==
  [samples EXCEPT ![second % SAMPLE_SECONDS] = [second |-> second, acked |-> @.acked + acked, lost |-> @.lost + lost]]
recorded(samples, second, acked, lost) ==
  [samples EXCEPT ![second % SAMPLE_SECONDS] =
     IF @.second # second THEN [second |-> second, acked |-> acked, lost |-> lost] ELSE [@ EXCEPT !.acked = @ + acked, !.lost = @ + lost]]
Recent(samples, second) == {s \in DOMAIN samples : samples[s].second >= second - (SAMPLE_SECONDS - 1) /\ samples[s].second <= second}
TotalAcked(samples, second) == MapThenSumSet(LAMBDA s : samples[s].acked, Recent(samples, second))
TotalLost(samples, second) == MapThenSumSet(LAMBDA s : samples[s].lost, Recent(samples, second))
update_ack_rate(acked, lost) == IF acked + lost < MIN_SAMPLE_PACKETS THEN <<1, 1>> ELSE <<acked, acked + lost>>

(* record, for a controller that is brutal; cubic keeps its own counsel.   *)
record(c, acked, lost) ==
  \E samples \in {recorded(c.samples, clock.now, acked, lost)} :
    \E rate \in {update_ack_rate(TotalAcked(samples, clock.now), TotalLost(samples, clock.now))} :
      /\ ctl' = [c EXCEPT !.samples = samples, !.rate = rate]
      /\ compensate(c.target, rate)
Reports(acked, lost) ==
  /\ acked + lost > 0
  /\ clock' = [clock EXCEPT !.log = Append(LogOfController, <<clock.now, acked, lost>>)]
  /\ UNCHANGED budget
  /\ IF update.kind = "brutal" THEN record(update, acked, lost) ELSE ctl' = update /\ UNCHANGED control
on_ack(packets) == Reports(packets, 0)
on_congestion_event(packets) == Reports(0, packets)

(***************************************************************************)
(* PacedSocket.                                                            *)
(***************************************************************************)
(* Budget::deadline and Budget::sent.                                      *)
deadline(rate) == IF rate = 0 THEN Free ELSE IF budget > clock.now THEN budget ELSE Free
sent(bytes, rate) == IF rate = 0 THEN Free ELSE clock.now + Ceil(bytes, rate)
(* try_send: WouldBlock while the budget lasts.                            *)
try_send(bytes) ==
  /\ deadline(control.pacing) = Free
  /\ budget' = sent(bytes, control.pacing)
  /\ clock' = [clock EXCEPT !.sent = IF control.pacing = 0 THEN @ ELSE @ + bytes]
  /\ UNCHANGED <<control, ctl>>
TimeGoes == clock' = [clock EXCEPT !.now = @ + 1] /\ UNCHANGED <<control, ctl, budget>>

ShapingInit ==
  /\ control = [target |-> 0, pacing |-> 0] /\ ctl = Cubic /\ budget = Free
  /\ clock = [now |-> 0, since |-> Free, sent |-> 0, log |-> <<>>]

(***************************************************************************)
(* Salamander: each datagram is its salt and the payload under it.         *)
(***************************************************************************)
Salt(n) == [i \in 1 .. SALT_LEN |-> <<"salt", n>>]
xor_payload(salt, payload) == [i \in DOMAIN payload |-> <<salt, payload[i]>>]
encode_with_salt(n, payload) == Salt(n) \o xor_payload(Salt(n), payload)
Unxored(salt, coded) == [i \in DOMAIN coded |-> IF coded[i][1] = salt THEN coded[i][2] ELSE "noise"]
Broken == [ok |-> FALSE, bytes |-> <<>>, stride |-> 1]
SegmentLength(encoded, stride, at) == Min({stride, Len(encoded) - at})
(* decode_segments: `stride` bytes at a time, the last one may be shorter; *)
(* a piece too short for its salt spoils the batch.                        *)
Segments(encoded, stride) == Ceil(Len(encoded), stride)
Piece(encoded, stride, k) == SubSeq(encoded, (k - 1) * stride + 1, (k - 1) * stride + SegmentLength(encoded, stride, (k - 1) * stride))
Revealed(piece) == Unxored(SubSeq(piece, 1, SALT_LEN), SubSeq(piece, SALT_LEN + 1, Len(piece)))
RECURSIVE Plains(_, _, _)
Plains(encoded, stride, k) == IF k > Segments(encoded, stride) THEN <<>> ELSE Revealed(Piece(encoded, stride, k)) \o Plains(encoded, stride, k + 1)
(* Mutant: a last piece too short for its salt is skipped.                 *)
decode_segments_loose(encoded, stride) ==
  IF encoded = <<>> \/ stride < SALT_LEN \/ stride > Len(encoded) THEN Broken
  ELSE [ok |-> TRUE, bytes |-> Plains(encoded, stride, 1), stride |-> IF Len(encoded) <= stride THEN Len(encoded) - SALT_LEN ELSE stride - SALT_LEN]
decode_segments(encoded, stride) ==
  IF encoded = <<>> \/ stride < SALT_LEN \/ stride > Len(encoded) THEN Broken
  ELSE IF \E k \in 1 .. Segments(encoded, stride) : Len(Piece(encoded, stride, k)) < SALT_LEN THEN Broken
  ELSE [ok |-> TRUE, bytes |-> Plains(encoded, stride, 1),
        stride |-> IF Len(encoded) <= stride THEN Len(encoded) - SALT_LEN ELSE stride - SALT_LEN]
(* poll_recv: what does not decode, or does not fit, is an empty datagram. *)
salamander_poll_recv(encoded, stride, room) ==
  IF decode_segments(encoded, stride).ok /\ Len(decode_segments(encoded, stride).bytes) <= room THEN decode_segments(encoded, stride) ELSE Broken

(***************************************************************************)
(* Properties.                                                             *)
(***************************************************************************)
Reported(i) == MapThenSumSet(LAMBDA k : IF clock.log[k][1] > clock.now - SAMPLE_SECONDS THEN clock.log[k][i] ELSE 0, DOMAIN clock.log)
RateOfLastSeconds ==
  ctl.kind = "brutal" /\ clock.log # <<>> /\ clock.log[Len(clock.log)][1] = clock.now => ctl.rate = update_ack_rate(Reported(2), Reported(3))
(* However loss, time and the server's answer interleave, the ack rate is  *)
(* that of the packets reported in the last seconds and of no others, and  *)
(* Brutal, compensating for it, never has the socket send more than five   *)
(* quarters of the agreed rate and one datagram (record, Budget::sent,     *)
(* UploadControl::compensate).                                             *)
UploadWithinAgreement(largest) ==
  /\ RateOfLastSeconds
  /\ 4 * control.pacing <= 5 * control.target
  /\ control.target > 0 /\ clock.since # Free => 4 * clock.sent <= 5 * control.target * (clock.now - clock.since) + 4 * largest

(* Salamander gives back the datagrams of a batch, each with its own salt, *)
(* in their order and with the stride that tells them apart; a batch whose *)
(* last piece is no datagram is dropped whole (decode_segments).           *)
SalamanderGivesBack(first, second) ==
  /\ Len(first) >= Len(second) =>
       salamander_poll_recv(encode_with_salt(1, first) \o encode_with_salt(2, second), SALT_LEN + Len(first), Len(first) + Len(second))
         = [ok |-> TRUE, bytes |-> first \o second, stride |-> Len(first)]
  /\ salamander_poll_recv(encode_with_salt(1, first) \o <<"stray">>, SALT_LEN + Len(first), 9) = Broken
=============================================================================
