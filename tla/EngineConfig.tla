---------------------------- MODULE EngineConfig ----------------------------
(***************************************************************************)
(* What a configuration must satisfy: the outbound profiles, and below     *)
(* them the document an engine starts from and the policies it reloads.    *)
(*                                                                         *)
(* An outbound profile must pass its validator before it is built          *)
(* (foxcore-api/src/config: outbound.rs, vless.rs, vless_encryption.rs,    *)
(* transport.rs, tls.rs, ss.rs, quic.rs, wireguard.rs, selector.rs).       *)
(*                                                                         *)
(* A profile is a record with its kind and the fields the validators look  *)
(* at.  Of a text the model keeps whether it is blank (""), breaks the     *)
(* rule its field has ("bad": a character, a length or an encoding that is *)
(* refused) or keeps it.  Numbers are the code's.  Every validator is the  *)
(* predicate that it returns Ok: the wording of the error is left out.     *)
(***************************************************************************)
EXTENDS Integers, Sequences, FiniteSets, SequencesExt

CONSTANTS
  None,        \* an option that is absent
  Malformed    \* a list element that does not parse

Text(t) == t \notin {"", "bad"}
Optional(t) == t = None \/ Text(t)
Within(low, value, high) == low <= value /\ value <= high
NoRepeat(s) == Cardinality(ToSet(s)) = Len(s)
Total(numbers) == FoldLeft(LAMBDA sum, n : sum + n, 0, numbers)

validate_server(c) == c.server # "" /\ c.port # 0
validate_uuid(c) == Text(c.uuid)
require_secret(secret) == secret # ""
validate_outbound_id(id) == Text(id)
validate_proxy_credentials(c) == (c.username # None) = (c.password # None) /\ c.username # ""
validate_proxy_handshake_timeout(c) == Within(1, c.handshake_timeout_ms, 120000)

-----------------------------------------------------------------------------
TlsDefault ==
  [enabled |-> FALSE, fingerprint |-> None, server_name |-> None, insecure |-> FALSE, spki |-> None,
   certificate |-> None, alpn |-> <<>>, min |-> None, max |-> None, curves |-> <<>>, ech |-> None]
ChromeGroups == <<"X25519MlKem768", "X25519", "Secp256r1", "Secp384r1">>

(* ech is None, "grease" or the class of the config list of Required.      *)
TlsValidate(t) ==
  /\ t.enabled \/ t = TlsDefault
  /\ t.server_name # "" /\ \A i \in DOMAIN t.alpn : Text(t.alpn[i])
  /\ Optional(t.spki) /\ Optional(t.certificate) /\ None \in {t.spki, t.certificate}
  /\ ~(t.min = "1.3" /\ t.max = "1.2") /\ NoRepeat(t.curves)
  /\ t.fingerprint # None =>
       t.ech = None /\ t.min # "1.3" /\ t.max # "1.2" /\ t.curves \in {<<>>, ChromeGroups}
  /\ t.ech # None => t.max # "1.2" /\ Text(t.ech)

reject_ech(t) == t.ech = None

Raw == [type |-> "raw"]
validate_grpc(t) ==
  /\ t.service_name # "bad" /\ Optional(t.rpc_path) /\ Optional(t.authority) /\ t.user_agent # "bad"
  /\ t.idle_timeout_ms <= 86400000 /\ t.health_check_timeout_ms <= 86400000
  /\ t.initial_windows_size # "over 31 bits"
validate_http2(t) == Text(t.path) /\ (\A i \in DOMAIN t.host : Text(t.host[i])) /\ Text(t.method)
validate_xhttp(t) == t.mode = "stream-one" /\ Text(t.path) /\ Optional(t.host)

(* A custom header is its name's class ("reserved" for one that the        *)
(* upgrade itself sends), its value's class and the bytes of both.         *)
validate_headers(headers) ==
  /\ Len(headers) <= 32
  /\ \A i \in DOMAIN headers : Text(headers[i].name) /\ headers[i].name # "reserved" /\ headers[i].value # "bad"
  /\ Total([i \in DOMAIN headers |-> headers[i].bytes]) <= 8192

TransportValidate(t) ==
  CASE t.type = "raw" -> TRUE
    [] t.type = "grpc" -> validate_grpc(t)
    [] t.type = "http2" -> validate_http2(t)
    [] t.type = "xhttp" -> validate_xhttp(t)
    [] t.type \in {"websocket", "httpupgrade"} -> Text(t.path) /\ Optional(t.host) /\ validate_headers(t.headers)

-----------------------------------------------------------------------------
(* The padding parameters alternate a length and a gap; the first length   *)
(* must hold the first frame.                                              *)
parse_vless_encryption_padding(fields) ==
  /\ \A i \in DOMAIN fields : fields[i] # Malformed
  /\ fields # <<>> => fields[1].probability >= 100 /\ fields[1].from >= 35 /\ fields[1].to >= 35
  /\ Total([i \in DOMAIN fields |-> IF i % 2 = 0 THEN 0
                                    ELSE LET f == fields[i] IN IF f.from > f.to THEN f.from ELSE f.to])
       <= 65553

(* A spec is its suite, mode, RTT and the fields after them: a short field *)
(* is a padding parameter, a long one a key with the bytes it decodes to.  *)
(* The short fields that come first are the padding.                       *)
IsKey(field) == "key" \in DOMAIN field
parse_vless_encryption(spec) ==
  LET keys == {i \in DOMAIN spec.rest : IsKey(spec.rest[i])}
      n == IF keys = {} THEN Len(spec.rest) ELSE (CHOOSE i \in keys : \A j \in keys : i <= j) - 1
  IN  /\ spec.suite = "mlkem768x25519plus" /\ spec.mode \in {"native", "xorpub", "random"}
      /\ spec.rtt \in {"1rtt", "0rtt"}
      /\ keys = (n + 1)..Len(spec.rest) /\ keys # {}
      /\ parse_vless_encryption_padding([i \in 1..n |-> spec.rest[i].padding])
      /\ \A i \in keys : spec.rest[i].key \in {32, 1184}

RealityValidate(r) ==
  /\ Text(r.server_name) /\ Text(r.public_key) /\ r.short_id # "bad"
  /\ Within(1000, r.handshake_timeout_ms, 60000) /\ r.spider_x # "bad"

validate_vless_flow(c) ==
  c.flow # None =>
    /\ c.flow = "xtls-rprx-vision" /\ c.transport = Raw
    /\ c.reality = None => c.tls.enabled /\ c.tls.max # "1.2"
    /\ c.packet_encoding = "xudp"
validate_vless(c) ==
  /\ c.encryption # None => parse_vless_encryption(c.encryption) /\ c.flow = None
  /\ validate_vless_flow(c)

-----------------------------------------------------------------------------
(* server_ports is a sequence of inclusive ranges.                         *)
validate_hysteria2_hopping(c) ==
  c.server_ports # <<>> =>
    /\ \A i \in DOMAIN c.server_ports : 0 # c.server_ports[i].start /\ c.server_ports[i].start <= c.server_ports[i].end
    /\ Total([i \in DOMAIN c.server_ports |-> c.server_ports[i].end - c.server_ports[i].start + 1]) <= 4096
    /\ Within(5000, c.hop_interval_ms, 600000)
validate_hysteria2_timing(c) ==
  /\ Within(1000, c.keepalive_ms, 120000) /\ Within(5000, c.idle_timeout_ms, 600000)
  /\ 2 * c.keepalive_ms < c.idle_timeout_ms

SimpleObfsValidate(o) == Text(o.host) /\ (o.mode = "http" => Text(o.uri) /\ Text(o.method))
validate_shadowsocks_carriers(c) ==
  /\ c.obfs # None => SimpleObfsValidate(c.obfs) /\ c.transport = Raw /\ ~c.tls.enabled /\ ~c.udp
  /\ c.outline_prefix # None => Text(c.outline_prefix) /\ c.transport = Raw /\ ~c.tls.enabled /\ c.obfs = None

(* header_protection_key is None, "zero" (32 zero bytes: off), "key" or    *)
(* "bad"; a header is a range; init_packets are the lengths they render.   *)
validate_header_protection_key(a) ==
  /\ a.header_protection_key # "bad"
  /\ a.header_protection_key = "key" =>
       \A size \in {a.init_junk, a.response_junk, a.cookie_junk, a.transport_junk} : size >= 12
Overlap(r, s) == r.start <= s.end /\ s.start <= r.end
AmneziaValidate(a, mtu) ==
  /\ validate_header_protection_key(a)
  /\ \A size \in {a.junk_max, a.init_junk, a.response_junk, a.cookie_junk, a.transport_junk} : size <= 1280
  /\ Len(a.init_packets) <= 5
  /\ \A i \in DOMAIN a.init_packets : a.init_packets[i] # Malformed /\ Within(1, a.init_packets[i], 1280)
  /\ a.junk_count <= 128
  /\ a.junk_count > 0 => a.junk_min <= a.junk_max /\ a.junk_max # 0 /\ a.junk_max < mtu
  /\ \A i, j \in DOMAIN a.headers : i < j => ~Overlap(a.headers[i], a.headers[j])

(* probe is None or the class of its URL, its interval and its tolerance.  *)
UrlTestValidate(p) == p.url = "http" /\ Within(5000, p.interval_ms, 3600000) /\ p.tolerance_ms <= 10000

-----------------------------------------------------------------------------
(* OutboundConfig::validate, one operator per arm.                         *)
VlessValidate(c) ==
  /\ validate_server(c) /\ validate_uuid(c) /\ TlsValidate(c.tls) /\ TransportValidate(c.transport)
  /\ c.reality # None => c.tls = TlsDefault /\ RealityValidate(c.reality)
  /\ validate_vless(c)
VmessValidate(c) ==
  /\ validate_server(c) /\ validate_uuid(c) /\ c.alter_id = 0
  /\ TlsValidate(c.tls) /\ TransportValidate(c.transport)
Hysteria2Validate(c) ==
  /\ validate_server(c) /\ require_secret(c.password) /\ Optional(c.obfs) /\ c.tls.enabled
  /\ validate_hysteria2_hopping(c) /\ validate_hysteria2_timing(c) /\ reject_ech(c.tls) /\ TlsValidate(c.tls)
TuicValidate(c) ==
  /\ validate_server(c) /\ validate_uuid(c) /\ require_secret(c.password) /\ (c.tcp \/ c.udp) /\ ~c.zero_rtt
  /\ Within(1000, c.heartbeat_ms, 120000) /\ Within(5000, c.idle_timeout_ms, 600000)
  /\ c.tls.enabled /\ reject_ech(c.tls) /\ TlsValidate(c.tls)
TrojanValidate(c) ==
  /\ validate_server(c) /\ require_secret(c.password) /\ c.tls.enabled
  /\ TransportValidate(c.transport) /\ TlsValidate(c.tls)
ShadowsocksValidate(c) ==
  /\ validate_server(c) /\ TlsValidate(c.tls) /\ TransportValidate(c.transport)
  /\ c.udp => c.transport = Raw
  /\ require_secret(c.password) /\ c.method # "" /\ validate_shadowsocks_carriers(c)
WireguardValidate(c) ==
  /\ validate_server(c) /\ Text(c.private_key) /\ Text(c.peer_public_key) /\ Optional(c.preshared_key)
  /\ c.address # {} /\ c.allowed_ips # {} /\ (c.amnezia # None => AmneziaValidate(c.amnezia, c.mtu))
SocksValidate(c) == validate_server(c) /\ validate_proxy_credentials(c) /\ validate_proxy_handshake_timeout(c)
HttpValidate(c) ==
  /\ validate_server(c) /\ validate_proxy_credentials(c) /\ validate_proxy_handshake_timeout(c)
  /\ Len(c.headers) <= 32 /\ \A i \in DOMAIN c.headers : Text(c.headers[i].name) /\ c.headers[i].value # "bad"
  /\ TlsValidate(c.tls)
NaiveValidate(c) ==
  /\ validate_server(c) /\ validate_proxy_credentials(c) /\ validate_proxy_handshake_timeout(c)
  /\ c.tls.enabled /\ c.tls.alpn \in {<<>>, <<"h2">>} /\ TlsValidate(c.tls)
AnyTlsValidate(c) ==
  /\ validate_server(c) /\ require_secret(c.password) /\ validate_proxy_handshake_timeout(c) /\ c.tls.enabled
  /\ Within(1000, c.idle_check_ms, 3600000) /\ Within(1000, c.idle_timeout_ms, 3600000)
  /\ c.min_idle_session <= 32 /\ TlsValidate(c.tls)
ShadowTlsValidate(c) ==
  /\ validate_server(c) /\ require_secret(c.password) /\ validate_proxy_handshake_timeout(c)
  /\ c.tls.enabled /\ "1.2" \notin {c.tls.min, c.tls.max} /\ c.tls.alpn \in {<<>>, <<"http/1.1">>}
  /\ reject_ech(c.tls) /\ c.inner.method # "" /\ require_secret(c.inner.password) /\ TlsValidate(c.tls)
I2pValidate(c) ==
  /\ c.loopback /\ c.port # 0 /\ validate_proxy_credentials(c) /\ c.username # "bad"
  /\ Optional(c.password) /\ Within(100, c.connect_timeout_ms, 60000) /\ Within(100, c.handshake_timeout_ms, 60000)

(* A bridge line is the transport it names, None for one that starts with  *)
(* an address; a pluggable transport is its protocols, path and arguments. *)
TorOwnValidate(c) ==
  /\ c.state_dir # "" /\ c.cache_dir # "" /\ Within(10, c.bootstrap_timeout_s, 600)
  /\ Within(5, c.stream_connect_timeout_s, 120) /\ Within(60, c.max_dirtiness_s, 3600)
  /\ Within(10, c.request_timeout_s, 300) /\ Within(1, c.request_max_retries, 32)
  /\ Len(c.bridges) <= 16 /\ (\A i \in DOMAIN c.bridges : Optional(c.bridges[i])) /\ Len(c.transports) <= 8
  /\ \A i \in DOMAIN c.transports :
       LET t == c.transports[i] IN
         /\ Within(1, Len(t.protocols), 16) /\ (\A j \in DOMAIN t.protocols : Text(t.protocols[j]))
         /\ Text(t.path) /\ Len(t.arguments) <= 32 /\ \A j \in DOMAIN t.arguments : Text(t.arguments[j])
  /\ LET protocols == FlattenSeq([i \in DOMAIN c.transports |-> c.transports[i].protocols]) IN
       /\ NoRepeat(protocols)
       /\ \A i \in DOMAIN c.bridges : c.bridges[i] = None \/ c.bridges[i] \in ToSet(protocols)

StreamProxyValidate(c) ==
  CASE c.kind = "Direct" -> TRUE
    [] c.kind = "Vless" -> VlessValidate(c)
    [] c.kind = "Vmess" -> VmessValidate(c)
    [] c.kind = "Hysteria2" -> Hysteria2Validate(c)
    [] c.kind = "Tuic" -> TuicValidate(c)
    [] c.kind = "Trojan" -> TrojanValidate(c)
    [] c.kind = "Shadowsocks" -> ShadowsocksValidate(c)
    [] c.kind = "Socks" -> SocksValidate(c)
    [] c.kind = "Http" -> HttpValidate(c)
    [] c.kind = "Naive" -> NaiveValidate(c)
    [] c.kind = "AnyTls" -> AnyTlsValidate(c)
    [] c.kind = "ShadowTls" -> ShadowTlsValidate(c)

TorValidate(c) ==
  /\ TorOwnValidate(c)
  /\ c.upstream # None =>
       /\ c.upstream.kind \notin {"Direct", "I2p", "Tor", "Wireguard", "Selector"}
       /\ StreamProxyValidate(c.upstream)

(* members are [id, outbound] in preference order.                         *)
SelectorValidate(c) ==
  LET ids == [i \in DOMAIN c.members |-> c.members[i].id] IN
    /\ Within(1, Len(c.members), 64)
    /\ c.member_timeout_ms = None \/ Within(1, c.member_timeout_ms, 120000)
    /\ NoRepeat(ids)
    /\ \A i \in DOMAIN c.members :
         /\ validate_outbound_id(ids[i]) /\ ids[i] \notin {"default", "primary", "direct", "block", "tor", "i2p"}
         /\ c.members[i].outbound.kind \notin {"Selector", "Tor", "I2p", "Wireguard"}
         /\ StreamProxyValidate(c.members[i].outbound)
    /\ c.default = None \/ c.default \in ToSet(ids)
    /\ c.probe # None => UrlTestValidate(c.probe)

OutboundValidate(c) ==
  CASE c.kind = "Wireguard" -> WireguardValidate(c)
    [] c.kind = "Selector" -> SelectorValidate(c)
    [] c.kind = "I2p" -> I2pValidate(c)
    [] c.kind = "Tor" -> TorValidate(c)
    [] OTHER -> StreamProxyValidate(c)

is_packet_tunnel(c) == c.kind = "Wireguard"

-----------------------------------------------------------------------------
(***************************************************************************)
(* The document an engine starts from and the policies reloaded onto it    *)
(* (foxcore-api/src/config: engine.rs, policy.rs, dns.rs, rt.rs,           *)
(* bootstrap_dns.rs, validate.rs; foxcore-runtime: start.rs, control.rs).  *)
(*                                                                         *)
(* EngineConfig::validate and reload_policy state the same rules twice,    *)
(* over a whole document and over a policy whose engine is already         *)
(* running.  A behaviour starts one engine and reloads policies onto it.   *)
(***************************************************************************)

CONSTANTS
  Policies,     \* policies it may reload
  MaxReloads    \* reloads per engine: none looks at the policy before it

VARIABLES
  document,     \* the document being started, then what the engine runs
  attribution,  \* a flow's application can be told (attributor.is_available)
  phase,        \* "document", "running" or "refused"
  reloads,
  refusal       \* of the last reload, None for one that was applied

configVars == <<document, attribution, phase, reloads, refusal>>

-----------------------------------------------------------------------------
(* A blocklist is the chain of its names, the categories of its groups and *)
(* the packages that bypass it.                                            *)
BlocklistIsEmpty(b) == b.names = <<>> /\ b.bypass = <<>>
BlocklistValidate(b) ==
  /\ Len(b.names) <= 65536 /\ NoRepeat(b.categories)
  /\ Len(b.bypass) <= 4096 /\ NoRepeat(b.bypass) /\ \A i \in DOMAIN b.bypass : Text(b.bypass[i])
  /\ \A i \in DOMAIN b.names : Text(b.names[i])
RuleSetValidate(r) ==
  /\ Text(r.name) /\ Text(r.public_key)
  /\ r.enabled_categories # None => Len(r.enabled_categories) <= 4 /\ NoRepeat(r.enabled_categories)

intercepts(dns) ==
  dns.upstreams # <<>> \/ dns.upstream # None \/ dns.advertise # None \/ dns.mode = "FakeIp"

(* The url of DoH is "https", "https:0" (port zero), "https?" (with a      *)
(* query) or "bad"; server_ip is None, "ip" or "unroutable".               *)
UpstreamValidate(u) ==
  CASE u.type \in {"Udp", "Tcp"} -> Text(u.address)
    [] u.type \in {"Dot", "Doq"} -> u.host # "" /\ u.port # 0 /\ (u.type = "Doq" => u.port # 53) /\ Optional(u.pin)
    [] u.type \in {"Doh", "Doh3"} -> Text(u.url) /\ (u.type = "Doh3" => u.url # "https:0") /\ Optional(u.pin)

Capacity(bits) == IF bits > 30 THEN 2 ^ 30 ELSE 2 ^ bits
DnsValidate(dns) ==
  LET filters == ~BlocklistIsEmpty(dns.blocklist) \/ dns.rule_sets # <<>> IN
    /\ BlocklistValidate(dns.blocklist)
    /\ Len(dns.rule_sets) <= 16 /\ NoRepeat([i \in DOMAIN dns.rule_sets |-> dns.rule_sets[i].name])
    /\ \A i \in DOMAIN dns.rule_sets : RuleSetValidate(dns.rule_sets[i])
    /\ filters => intercepts(dns) /\ (dns.mode # "FakeIp" => dns.advertise # None)
    /\ Optional(dns.advertise) /\ Within(1, dns.cache_size, 65536) /\ Within(100, dns.timeout_ms, 30000)
    /\ Within(512, dns.max_response_bytes, 65535) /\ Within(30, dns.fake_ttl_s, 86400)
    /\ Capacity(dns.ipv4_bits) - 2 >= dns.cache_size /\ Capacity(dns.ipv6_bits) - 1 >= dns.cache_size
    /\ dns.upstream = None \/ dns.upstreams = <<>>
    /\ Len(dns.upstreams) <= 8 /\ dns.upstream # "" /\ \A i \in DOMAIN dns.upstreams : UpstreamValidate(dns.upstreams[i])

-----------------------------------------------------------------------------
ContinuityValidate(ms) == ms = 0 \/ Within(1000, ms, 3600000)
Packages(entries) == [i \in DOMAIN entries |-> entries[i].package]
uses_tor(traffic) ==
  traffic.default_action = "Tor" \/ \E i \in DOMAIN traffic.applications : traffic.applications[i].action = "Tor"
requires_identity(traffic) == traffic.applications # <<>> \/ traffic.quarantine_new_apps
TrafficValidate(traffic) ==
  /\ Len(traffic.applications) <= 4096 /\ Len(traffic.known_apps) <= 4096
  /\ \A list \in {Packages(traffic.known_apps), Packages(traffic.applications)} :
       NoRepeat(list) /\ \A i \in DOMAIN list : Text(list[i])
  /\ \A i \in DOMAIN traffic.known_apps : traffic.known_apps[i].signing_digest # "bad"
  /\ ContinuityValidate(traffic.confirmation_timeout_ms)
  /\ traffic.tor_enabled = FALSE => ~uses_tor(traffic)

(* An action is [type] or [type |-> "Outbound", id]; lists is whether the  *)
(* matcher lists of the rule keep their limits.                            *)
NamesOutbound(action) == action.type = "Outbound"
action_uses(action, overlay, id) == action.type = overlay \/ (NamesOutbound(action) /\ action.id = id)
validate_route_rule(rule) ==
  /\ rule.lists /\ (\A i \in DOMAIN rule.domains : Text(rule.domains[i])) /\ rule.ports.start <= rule.ports.end
  /\ (NamesOutbound(rule.action) => validate_outbound_id(rule.action.id)) /\ Optional(rule.package)

PolicyValidate(p) ==
  /\ DnsValidate(p.dns) /\ TrafficValidate(p.traffic) /\ Len(p.routes) + Len(p.traffic.applications) <= 4096
  /\ \A i \in DOMAIN p.routes : validate_route_rule(p.routes[i])
  /\ p.traffic.tor_enabled = FALSE =>
       p.dns.route # "Tor" /\ \A i \in DOMAIN p.routes : ~action_uses(p.routes[i].action, "Tor", "tor")
  /\ p.traffic.i2p_enabled = FALSE => \A i \in DOMAIN p.routes : ~action_uses(p.routes[i].action, "I2p", "i2p")

-----------------------------------------------------------------------------
(* A loopback listener is anonymous or has both of its credentials; its    *)
(* port is None where the system chooses it.                               *)
ControlProxyValidate(c) == c.http_port # 0 /\ Text(c.username) /\ Text(c.password)
LoopbackInboundValidate(c) ==
  /\ Text(c.name)
  /\ \/ c.username = None /\ c.password = None /\ c.allow_anonymous
     \/ c.username # None /\ c.password # None /\ ~c.allow_anonymous /\ Text(c.username) /\ Text(c.password)
  /\ Within(1, c.max_sessions, 64)

(* What one field of all listeners holds, the control proxy's first.       *)
Held(runtime, field) ==
  (IF runtime.control_proxy = None \/ field = "name" THEN <<>> ELSE <<runtime.control_proxy[field]>>) \o
  SelectSeq([i \in DOMAIN runtime.loopback_inbounds |-> runtime.loopback_inbounds[i][field]],
            LAMBDA value : value # None)
validate_loopback_inbounds(runtime) ==
  /\ Len(runtime.loopback_inbounds) <= 16
  /\ \A i \in DOMAIN runtime.loopback_inbounds : LoopbackInboundValidate(runtime.loopback_inbounds[i])
  /\ \A field \in {"name", "http_port", "username", "password"} : NoRepeat(Held(runtime, field))

RuntimeLimits ==
  [worker_threads |-> <<1, 4>>, max_blocking_threads |-> <<1, 8>>, relay_buffer_bytes |-> <<4096, 262144>>,
   max_tcp_flows |-> <<1, 32768>>, max_udp_flows |-> <<1, 32768>>, connect_timeout_ms |-> <<100, 120000>>,
   handshake_timeout_ms |-> <<100, 300000>>, idle_timeout_s |-> <<5, 86400>>, tcp_idle_timeout_s |-> <<5, 86400>>,
   attribution_timeout_ms |-> <<25, 2000>>, max_attribution_tasks |-> <<1, 64>>]
RuntimeValidate(runtime) ==
  /\ runtime.control_proxy # None => ControlProxyValidate(runtime.control_proxy)
  /\ validate_loopback_inbounds(runtime)
  /\ \A f \in DOMAIN RuntimeLimits : Within(RuntimeLimits[f][1], runtime[f], RuntimeLimits[f][2])

(* collect_endpoints looks through a selector to its members.              *)
Endpoint(c) == IF c.kind \in {"Direct", "Tor", "I2p"} THEN {} ELSE {[host |-> c.server, ip |-> c.server_ip]}
collect_endpoints(c) ==
  IF c.kind = "Selector" THEN UNION {Endpoint(c.members[i].outbound) : i \in DOMAIN c.members} ELSE Endpoint(c)
BootstrapUpstream(u) ==
  /\ UpstreamValidate(u)
  /\ CASE u.type \in {"Udp", "Tcp"} -> u.address = "ip:port"
       [] u.type \in {"Dot", "Doq"} -> ~u.insecure /\ u.server_ip = "ip" /\ u.host # "bad"
       [] u.type \in {"Doh", "Doh3"} -> ~u.insecure /\ u.server_ip = "ip" /\ u.url = "https"
BootstrapValidate(b, outbounds) ==
  LET endpoints == UNION {collect_endpoints(o) : o \in outbounds} IN
    /\ Within(1, Len(b.domains), 32) /\ Within(1, Len(b.upstreams), 4)
    /\ Within(500, b.timeout_ms, 10000) /\ Within(1, b.max_candidates, 8)
    /\ NoRepeat(b.domains) /\ \A i \in DOMAIN b.domains : Text(b.domains[i])
    /\ \A i \in DOMAIN b.domains :
         LET matching == {e \in endpoints : e.host = b.domains[i]} IN
           matching # {} /\ \A e \in matching : e.ip = None
    /\ \A i \in DOMAIN b.upstreams : BootstrapUpstream(b.upstreams[i])

-----------------------------------------------------------------------------
Ids(c) == {c.outbounds[i].id : i \in DOMAIN c.outbounds}
HasRoute(c, kind, id) == c.outbound.kind = kind \/ id \in Ids(c)
(* Mutant: a canonical id may name another kind.                           *)
NamedValidateAnyKind(n) ==
  /\ validate_outbound_id(n.id) /\ n.id \notin {"default", "primary", "direct", "block"}
  /\ n.outbound.kind # "Direct" /\ OutboundValidate(n.outbound)
NamedValidate(n) ==
  /\ validate_outbound_id(n.id) /\ n.id \notin {"default", "primary", "direct", "block"}
  /\ (n.id = "tor") = (n.outbound.kind = "Tor") /\ (n.id = "i2p") = (n.outbound.kind = "I2p")
  /\ n.outbound.kind # "Direct" /\ OutboundValidate(n.outbound)

(* The overlay is registered and its gate is on or left open.              *)
OverlayOn(c, kind, id, gate) == HasRoute(c, kind, id) /\ gate # FALSE

PolicyOf(c) == [dns |-> c.dns, routes |-> c.routes, traffic |-> c.traffic]
OutboundsValidate(c) ==
  /\ OutboundValidate(c.outbound)
  /\ c.bootstrap_dns # None =>
       BootstrapValidate(c.bootstrap_dns, {c.outbound} \cup {c.outbounds[i].outbound : i \in DOMAIN c.outbounds})
  /\ (c.outbound.kind = "Direct") = c.runtime.local_guard
  /\ Len(c.outbounds) <= 16 /\ NoRepeat([i \in DOMAIN c.outbounds |-> c.outbounds[i].id])
  /\ \A i \in DOMAIN c.outbounds : NamedValidate(c.outbounds[i])
RoutesValidate(c) ==
  /\ Len(c.routes) + Len(c.traffic.applications) <= 4096
  /\ \A i \in DOMAIN c.routes :
       LET action == c.routes[i].action IN
         /\ validate_route_rule(c.routes[i])
         /\ NamesOutbound(action) => action.id \in Ids(c) \cup {"default", "primary"}
         /\ action.type = "Tor" => HasRoute(c, "Tor", "tor")
         /\ action.type = "I2p" => HasRoute(c, "I2p", "i2p")
  /\ c.dns.route = "Tor" \/ c.traffic.tor_enabled = TRUE \/ uses_tor(c.traffic) => HasRoute(c, "Tor", "tor")
  /\ c.traffic.i2p_enabled = TRUE => HasRoute(c, "I2p", "i2p")
  /\ c.traffic.tor_enabled = FALSE =>
       c.dns.route # "Tor" /\ \A i \in DOMAIN c.routes : ~action_uses(c.routes[i].action, "Tor", "tor")
  /\ c.traffic.i2p_enabled = FALSE => \A i \in DOMAIN c.routes : ~action_uses(c.routes[i].action, "I2p", "i2p")
OverlaysValidate(c) ==
  LET overlay == OverlayOn(c, "Tor", "tor", c.traffic.tor_enabled) \/ OverlayOn(c, "I2p", "i2p", c.traffic.i2p_enabled) IN
    /\ is_packet_tunnel(c.outbound) =>
         c.dns.mode # "FakeIp" /\ ~(intercepts(c.dns) /\ c.dns.route = "Primary") /\ ~overlay
    /\ overlay => c.dns.mode = "FakeIp"

EngineValidate(c) ==
  /\ c.schema_version = 1 /\ c.tun.mtu >= 1280 /\ Text(c.tun.ipv4) /\ Optional(c.tun.ipv6)
  /\ DnsValidate(c.dns) /\ TrafficValidate(c.traffic) /\ OutboundsValidate(c) /\ RoutesValidate(c)
  /\ OverlaysValidate(c) /\ RuntimeValidate(c.runtime)

-----------------------------------------------------------------------------
(* Both the start and a reload refuse a policy that has to know the        *)
(* application of a flow when nothing can tell it.                         *)
NeedsIdentity(p) ==
  LET unasked == p.dns.mode # "FakeIp" \/ ~intercepts(p.dns) \/ p.dns.advertise = None IN
    \/ \E i \in DOMAIN p.routes :
         p.routes[i].uid # None \/ p.routes[i].package # None \/ (unasked /\ p.routes[i].domains # <<>>)
    \/ requires_identity(p.traffic) \/ p.dns.blocklist.bypass # <<>>

(* OutboundRegistry::get, tor and i2p of the running engine: a lane that   *)
(* could not be built keeps its entry and its kind.                        *)
Registered(id) == id \in Ids(document) \cup {"default", "primary"}
TorLane == HasRoute(document, "Tor", "tor")
I2pLane == HasRoute(document, "I2p", "i2p")
resolve_network_gates(traffic) ==
  [tor |-> IF traffic.tor_enabled = None THEN TorLane ELSE traffic.tor_enabled,
   i2p |-> IF traffic.i2p_enabled = None THEN I2pLane ELSE traffic.i2p_enabled]

(* The first rule that a route of the policy breaks.                       *)
RouteRefusal(action) ==
  CASE NamesOutbound(action) /\ ~Registered(action.id) -> "UnknownOutbound"
    [] action.type = "Tor" /\ ~TorLane -> "TorUnavailable"
    [] action.type = "I2p" /\ ~I2pLane -> "I2pUnavailable"
    [] OTHER -> None
FirstRefusal(p) ==
  LET refusals == SelectSeq([i \in DOMAIN p.routes |-> RouteRefusal(p.routes[i].action)], LAMBDA r : r # None)
  IN  IF refusals = <<>> THEN None ELSE refusals[1]

(* Mutant: the reload only looks at gates that are switched on by name.    *)
ReloadRefusalAuto(p) ==
  LET tunnel == is_packet_tunnel(document.outbound) IN
    CASE ~PolicyValidate(p) -> "Invalid"
      [] ~attribution /\ NeedsIdentity(p) -> "IdentityUnavailable"
      [] FirstRefusal(p) # None -> FirstRefusal(p)
      [] (p.dns.route = "Tor" \/ uses_tor(p.traffic) \/ p.traffic.tor_enabled = TRUE) /\ ~TorLane -> "TorUnavailable"
      [] p.traffic.i2p_enabled = TRUE /\ ~I2pLane -> "I2pUnavailable"
      [] tunnel /\ p.dns.mode = "FakeIp" -> "PacketTunnelRejectsFakeIp"
      [] tunnel /\ intercepts(p.dns) /\ p.dns.route = "Primary" -> "PacketTunnelRejectsPrimaryDns"
      [] TRUE \in {p.traffic.tor_enabled, p.traffic.i2p_enabled} /\ p.dns.mode # "FakeIp" -> "OverlayRequiresFakeIp"
      [] OTHER -> None
(* reload_policy_inner, down to the swap.                                  *)
ReloadRefusal(p) ==
  LET gates == resolve_network_gates(p.traffic)
      tunnel == is_packet_tunnel(document.outbound)
  IN  CASE ~PolicyValidate(p) -> "Invalid"
        [] ~attribution /\ NeedsIdentity(p) -> "IdentityUnavailable"
        [] FirstRefusal(p) # None -> FirstRefusal(p)
        [] (p.dns.route = "Tor" \/ uses_tor(p.traffic) \/ p.traffic.tor_enabled = TRUE) /\ ~TorLane -> "TorUnavailable"
        [] p.traffic.i2p_enabled = TRUE /\ ~I2pLane -> "I2pUnavailable"
        [] tunnel /\ p.dns.mode = "FakeIp" -> "PacketTunnelRejectsFakeIp"
        [] tunnel /\ intercepts(p.dns) /\ p.dns.route = "Primary" -> "PacketTunnelRejectsPrimaryDns"
        [] ((gates.tor /\ TorLane) \/ (gates.i2p /\ I2pLane)) /\ p.dns.mode # "FakeIp" -> "OverlayRequiresFakeIp"
        [] OTHER -> None

-----------------------------------------------------------------------------
(* What the builders of foxcore-outbound/src/lib.rs ask of a profile.  They  *)
(* keep their own lists of kinds: a document that EngineConfig::validate     *)
(* lets through meets them again, after the interface is up.                 *)
KindOf(c) == c.kind                     \* OutboundKind::of
OutboundMode(c) == IF KindOf(c) = "Wireguard" THEN "PacketTunnel" ELSE "Proxy"

(* PacketTunnelOutbound::wireguard: the profile is converted to what the     *)
(* tunnel takes, which has bounds of its own on it.                          *)
decode_key(key) == Text(key)
decode_header_protection_key(key) == key # "bad"
header_range(h) == IF h.end < h.start THEN [h EXCEPT !.end = h.start] ELSE h
amnezia_params(a) == [a EXCEPT !.headers = [i \in DOMAIN a.headers |-> header_range(a.headers[i])]]
init_packets(a) == \A i \in DOMAIN a.init_packets : a.init_packets[i] # Malformed /\ a.init_packets[i] <= 1280
is_vanilla(params) ==
  /\ \A size \in {params.junk_count, params.junk_min, params.junk_max, params.init_junk, params.response_junk,
                  params.cookie_junk, params.transport_junk} : size = 0
  /\ ~params.random_trailers
  /\ params.headers = [i \in 1..4 |-> [start |-> i, end |-> i]]
params_validate(params) ==
  is_vanilla(params) \/
    /\ \A size \in {params.junk_max, params.init_junk, params.response_junk, params.cookie_junk, params.transport_junk} :
         size <= 1280
    /\ params.junk_count <= 128
    /\ params.junk_count > 0 => params.junk_min <= params.junk_max /\ params.junk_max # 0
    /\ \A i, j \in DOMAIN params.headers : i < j => ~Overlap(params.headers[i], params.headers[j])
validate_prefixes(params) ==
  \A size \in {params.init_junk, params.response_junk, params.cookie_junk, params.transport_junk} : size >= 12
wireguard(c) ==
  /\ decode_key(c.private_key) /\ decode_key(c.peer_public_key)
  /\ c.preshared_key # None => decode_key(c.preshared_key)
  /\ c.amnezia # None =>
       LET params == amnezia_params(c.amnezia) IN
         /\ init_packets(c.amnezia) /\ decode_header_protection_key(c.amnezia.header_protection_key)
         /\ params_validate(params)
         /\ c.amnezia.header_protection_key \notin {None, "zero"} => validate_prefixes(params)

TorLeaves ==
  {"Vless", "Vmess", "Hysteria2", "Tuic", "Trojan", "Shadowsocks", "Socks", "Http", "Naive", "AnyTls", "ShadowTls"}
build_tor_upstream_dialer(c) == KindOf(c) \notin {"Direct", "I2p", "Tor", "Wireguard", "Selector"}
build_tor(c) == c.upstream # None => build_tor_upstream_dialer(c.upstream) /\ KindOf(c.upstream) \in TorLeaves

(* A member is built when the group first uses it, and a group reaches it  *)
(* as a leaf.                                                              *)
connect_leaf_stream(c) == KindOf(c) # "Selector"
connect_leaf_datagram(c) == KindOf(c) # "Selector"
SelectorOutbound(c) ==
  /\ c.members # <<>> /\ (c.default # None => \E i \in DOMAIN c.members : c.members[i].id = c.default)
  /\ c.probe # None => c.probe.url = "http"
FromConfig(c) ==
  CASE KindOf(c) = "Wireguard" -> FALSE
    [] KindOf(c) = "Tor" -> build_tor(c)
    [] KindOf(c) = "Selector" ->
         /\ SelectorOutbound(c)
         /\ \A i \in DOMAIN c.members :
              LET member == c.members[i].outbound IN
                /\ connect_leaf_stream(member) /\ connect_leaf_datagram(member)
                /\ KindOf(member) # "Wireguard" /\ (KindOf(member) = "Tor" => build_tor(member))
    [] OTHER -> TRUE

(* OutboundRegistry::new, whose refusal fails the whole start.  An entry   *)
(* that could not be built keeps the kind of its profile.                  *)
OutboundRegistry(named) ==
  \A i \in DOMAIN named :
    /\ named[i].id \notin {"", "default", "primary", "direct", "block"}
    /\ (named[i].id = "tor") = (KindOf(named[i].outbound) = "Tor")
    /\ (named[i].id = "i2p") = (KindOf(named[i].outbound) = "I2p")

(* The registry of the document stands, its primary is a packet tunnel     *)
(* exactly where the rest of the engine takes it for one, and no profile   *)
(* is refused for its shape but a WireGuard profile under a name, which no *)
(* rule of the document forbids: it is filed as a lane that never comes up.*)
(* "The config already refused a malformed template, so a failure here is  *)
(* a disagreement between the two definitions": there is none.             *)
Builds(c) ==
  /\ OutboundRegistry(c.outbounds)
  /\ (OutboundMode(c.outbound) = "PacketTunnel") = is_packet_tunnel(c.outbound)
  /\ IF OutboundMode(c.outbound) = "PacketTunnel" THEN wireguard(c.outbound) ELSE FromConfig(c.outbound)
  /\ \A i \in DOMAIN c.outbounds : FromConfig(c.outbounds[i].outbound) \/ KindOf(c.outbounds[i].outbound) = "Wireguard"

ConfigInit(d) ==
  /\ document = d /\ attribution \in BOOLEAN /\ phase = "document" /\ reloads = 0 /\ refusal = None

(* EngineConfig::parse, then the check at the head of the start.           *)
Start ==
  /\ phase = "document"
  /\ phase' = IF EngineValidate(document) /\ (attribution \/ ~NeedsIdentity(PolicyOf(document)))
              THEN "running" ELSE "refused"
  /\ UNCHANGED <<document, attribution, reloads, refusal>>

(* A refusal leaves the policy that is running and keeps its reason.       *)
ReloadPolicy(p) ==
  /\ phase = "running" /\ reloads < MaxReloads /\ reloads' = reloads + 1
  /\ refusal' = ReloadRefusal(p)
  /\ document' = IF refusal' # None THEN document
                 ELSE [document EXCEPT !.dns = p.dns, !.routes = p.routes, !.traffic = p.traffic]
  /\ UNCHANGED <<attribution, phase>>

ConfigNext == Start \/ \E p \in Policies : ReloadPolicy(p)

-----------------------------------------------------------------------------
(* Whatever has been reloaded, the engine runs a document that a start     *)
(* would have accepted: reload_policy is no way around a refusal of        *)
(* EngineConfig::validate, and validate lets nothing through that the      *)
(* builders then refuse for its shape.                                     *)
RunningCouldStart ==
  phase = "running" =>
    EngineValidate(document) /\ (attribution \/ ~NeedsIdentity(PolicyOf(document))) /\ Builds(document)
=============================================================================
