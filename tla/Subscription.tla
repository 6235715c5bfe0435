---------------------------- MODULE Subscription ----------------------------
(***************************************************************************)
(* Importing one share link as an outbound profile (foxcore-link/src/      *)
(* lib.rs).                                                                *)
(*                                                                         *)
(* A link is its scheme, its user information, its endpoint, its path and  *)
(* its query, a function from lower-cased options to values; a VMess link  *)
(* is the JSON document it carries.  A text is the class of its content    *)
(* (EngineConfig), a number is a number and Malformed when it does not     *)
(* parse, a list is a sequence.  A repeated option, a control character or *)
(* a component that does not decode is a link that is Malformed as a       *)
(* whole.  An importer returns a profile and the options it reports as     *)
(* not applied, or Refused.  Of the spellings that mean the same (tcp and  *)
(* raw, hy2 and hysteria2) one stands for all.                             *)
(***************************************************************************)
EXTENDS EngineConfig, TLC

CONSTANT
  Refused      \* the result of an importer that returns an error

VARIABLES link, imported
linkVars == <<link, imported>>

Has(q, o) == o \in DOMAIN q
Given(q, options) == options \cap DOMAIN q
Get(q, o, default) == IF Has(q, o) THEN q[o] ELSE default
First(q, names) ==
  LET given == SelectSeq(names, LAMBDA n : Has(q, n)) IN IF given = <<>> THEN None ELSE q[given[1]]
NonEmpty(v) == IF v = "" THEN None ELSE v
Or(v, default) == IF v = None THEN default ELSE v
reject_unknown_options(q, allowed) == DOMAIN q \subseteq allowed
require_noop(q, o, accepted) == Has(q, o) => q[o] \in accepted
parse_bool(v) == v \in {"1", "0"}
require_disabled(q, o) == Get(q, o, "0") = "0"
server_ip(q) == Get(q, "server_ip", None)
integer(q, o) == Get(q, o, 0) # Malformed

-----------------------------------------------------------------------------
InsecureAliases == {"insecure", "allowinsecure", "skip-cert-verify"}
aliased_bool(q) ==
  Cardinality(Given(q, InsecureAliases)) <= 1 /\ \A o \in Given(q, InsecureAliases) : parse_bool(q[o])
LeafPins == {"pinsha256", "pinned_certificate_sha256"}
SpkiPins == {"pin", "pinned_spki_sha256"}
TlsOptions == InsecureAliases \cup SpkiPins \cup {"alpn", "peer", "sni"}

(* tls_config: what it accepts, and what it returns.                       *)
tls_accepts(q, enabled) ==
  /\ ~(LeafPins \subseteq DOMAIN q)
  /\ Given(q, LeafPins) # {} => enabled /\ Given(q, SpkiPins) = {}
  /\ aliased_bool(q) /\ \A o \in Given(q, LeafPins) : Text(q[o])
tls_config(q, enabled) ==
  [TlsDefault EXCEPT
     !.enabled = enabled, !.server_name = First(q, <<"sni", "peer">>),
     !.insecure = \E o \in Given(q, InsecureAliases) : q[o] = "1",
     !.spki = First(q, <<"pin", "pinned_spki_sha256">>),
     !.certificate = First(q, <<"pinsha256", "pinned_certificate_sha256">>),
     !.alpn = SelectSeq(Get(q, "alpn", <<>>), LAMBDA part : part # "")]

(* The names that uTLS knows; two of them cannot carry a key share.        *)
UTLS_PARROT_NAMES ==
  {"", "chrome", "chrome_131", "chrome_133", "firefox", "safari", "ios", "android", "edge", "360", "qq",
   "random", "randomized"}
accept_inert_fingerprint(q) == Get(q, "fp", "") \in UTLS_PARROT_NAMES
FingerprintNote(q) == IF Get(q, "fp", "") = "" THEN {} ELSE {"fp"}
RealityFingerprint ==
  [fp \in {"", "chrome", "chrome_156", "qq"} |-> "Chrome156"] @@
  [fp \in {"chrome_151", "chrome_133", "chrome_131", "qq_11_1", "firefox_148", "random", "randomized"} |-> fp] @@
  ("edge" :> "Edge85" @@ "safari" :> "Safari263" @@ "ios" :> "Ios14" @@ "firefox" :> "Firefox153")
reality_fingerprint(q) == Get(q, "fp", "chrome") \in DOMAIN RealityFingerprint
reality_accepts(q) ==
  Text(Get(q, "pbk", "")) /\ Get(q, "sni", "") # "" /\ Get(q, "sid", "") # "bad" /\ reality_fingerprint(q) /\ Get(q, "spx", "") # "bad"
reality_config(q) ==
  [server_name |-> q["sni"], public_key |-> q["pbk"], short_id |-> Get(q, "sid", ""),
   fingerprint |-> RealityFingerprint[Get(q, "fp", "chrome")], handshake_timeout_ms |-> 15000,
   spider_x |-> Get(q, "spx", None)]

-----------------------------------------------------------------------------
GRPC_TUNING_OPTIONS ==
  {"rpc_path", "user_agent", "idle_timeout_ms", "health_check_timeout_ms", "idle_timeout",
   "health_check_timeout", "permit_without_stream", "initial_windows_size"}
VLESS_GRPC_OPTIONS == GRPC_TUNING_OPTIONS \cup {"authority", "mode", "servicename"}
AtLeast(n, m) == IF n >= m THEN n ELSE m

(* Timeouts in milliseconds, or in seconds as Xray writes them, where a    *)
(* ping that is on at all has an interval of ten seconds at least.         *)
GrpcMillis == {"idle_timeout_ms", "health_check_timeout_ms"}
GrpcSeconds == {"idle_timeout", "health_check_timeout"}
GrpcTimeouts(q) ==
  LET idle == 1000 * AtLeast(Get(q, "idle_timeout", 0), 0)
      health == 1000 * AtLeast(Get(q, "health_check_timeout", 0), 0)
      active == idle > 0 \/ health > 0 \/ Get(q, "permit_without_stream", "0") = "1"
  IN  IF Given(q, GrpcMillis) # {}
      THEN [idle |-> Get(q, "idle_timeout_ms", 0), health |-> Get(q, "health_check_timeout_ms", 20000)]
      ELSE [idle |-> IF active THEN AtLeast(idle, 10000) ELSE 0, health |-> IF health = 0 THEN 20000 ELSE health]
grpc_accepts(q, service) ==
  /\ Given(q, GrpcMillis) = {} \/ Given(q, GrpcSeconds) = {}
  /\ \A o \in Given(q, GrpcMillis \cup GrpcSeconds \cup {"initial_windows_size"}) : q[o] # Malformed
  /\ parse_bool(Get(q, "permit_without_stream", "0"))
  /\ service # "bad" /\ Text(Get(q, "rpc_path", "/")) /\ Get(q, "user_agent", "") # "bad"
  /\ GrpcTimeouts(q).idle <= 86400000 /\ GrpcTimeouts(q).health <= 86400000
  /\ Get(q, "mode", "gun") \in {"", "none", "gun", "multi"}
grpc_transport(q, service, authority) ==
  IF ~grpc_accepts(q, service) THEN Refused
  ELSE [type |-> "grpc", service_name |-> service, rpc_path |-> Get(q, "rpc_path", None), authority |-> authority,
        multi_mode |-> Get(q, "mode", "gun") = "multi", user_agent |-> Get(q, "user_agent", None),
        idle_timeout_ms |-> GrpcTimeouts(q).idle, health_check_timeout_ms |-> GrpcTimeouts(q).health,
        permit_without_stream |-> Get(q, "permit_without_stream", "0") = "1",
        initial_windows_size |-> AtLeast(Get(q, "initial_windows_size", 0), 0)]

(* Mutant: only the names that belong to gRPC alone are looked for, not    *)
(* the tuning options.                                                     *)
reject_grpc_names(q) == Given(q, {"authority", "mode", "servicename"}) = {}
reject_grpc_options(q) == Given(q, VLESS_GRPC_OPTIONS) = {}
Upgrade(type, path, host) == [type |-> type, path |-> path, host |-> host, headers |-> <<>>]
(* The link's "host" of HTTP/2 is a list; one name is enough here.         *)
Hosts(host) == IF host = None THEN <<>> ELSE <<host>>
XhttpMode(q) ==
  \/ Get(q, "mode", "auto") = "stream-one"
  \/ Get(q, "mode", "auto") \in {"", "auto"} /\ Get(q, "security", "none") = "reality"
vless_transport(q) ==
  LET type == Get(q, "type", "tcp")
      plain == require_noop(q, "headertype", {"", "none"})
      path == Get(q, "path", "/")
      host == NonEmpty(Get(q, "host", None))
  IN  CASE type = "tcp" /\ plain /\ reject_grpc_options(q) /\ Given(q, {"path", "host"}) = {} -> Raw
        [] type = "ws" /\ plain /\ reject_grpc_options(q) -> Upgrade("websocket", path, host)
        [] type = "httpupgrade" /\ reject_grpc_options(q) -> Upgrade("httpupgrade", path, host)
        [] type = "xhttp" /\ plain /\ Given(q, VLESS_GRPC_OPTIONS \ {"mode"}) = {} /\ XhttpMode(q) ->
             [type |-> "xhttp", path |-> Or(NonEmpty(path), "/"), host |-> host, mode |-> "stream-one"]
        [] type = "grpc" /\ plain /\ Given(q, {"host", "path", "method"}) = {} ->
             grpc_transport(q, Get(q, "servicename", ""), NonEmpty(Get(q, "authority", None)))
        [] type = "h2" /\ reject_grpc_options(q) ->
             [type |-> "http2", host |-> Hosts(host), path |-> path, method |-> Or(NonEmpty(Get(q, "method", "PUT")), "PUT")]
        [] OTHER -> Refused

-----------------------------------------------------------------------------
Profile(outbound, lost) == [outbound |-> outbound, dropped |-> lost]
At(l, port, kind) == [kind |-> kind, server |-> l.host, port |-> port, server_ip |-> server_ip(l.query)]
endpoint(l) == l.host # "" /\ l.port # None
proxy_endpoint(l) == l.host # "" /\ (l.port # None \/ l.scheme \in {"http", "https", "naive+https"})
ProxyPort(l) == IF l.port # None THEN l.port ELSE IF l.scheme = "http" THEN 80 ELSE 443
credential(l) == l.password = None /\ l.user # ""
user_password(l) == (l.user = "") = (l.password = None)
IpGiven(l) == server_ip(l.query) # "bad"

vless_flow(q) == IF Get(q, "flow", "") \in {"", "none"} THEN None ELSE q["flow"]
vless_packet_encoding(q) ==
  LET asked == Get(q, "packetencoding", "") IN
    CASE asked \in {"xudp", "packetaddr"} -> asked
      [] asked \in {"", "none"} /\ vless_flow(q) = None -> "none"
      [] asked \in {"", "none"} /\ ~Has(q, "packetencoding") -> "xudp"
      [] OTHER -> Refused
(* The encryption option is None ("none"), Malformed or a spec.            *)
vless_encryption(q) == LET spec == Get(q, "encryption", None) IN spec = None \/ (spec # Malformed /\ parse_vless_encryption(spec))
reject_options_requiring_security(q, options) == Given(q, options) = {}
VlessOptions ==
  TlsOptions \cup VLESS_GRPC_OPTIONS \cup
  {"encryption", "flow", "fp", "headertype", "host", "mux", "path", "pbk", "security", "server_ip", "sid",
   "packetencoding", "spx", "type"}
TlsFingerprint(q) ==
  CASE Get(q, "fp", "") = "" -> None
    [] q["fp"] \in {"chrome", "chrome_156"} -> "Chrome156"
    [] q["fp"] = "chrome_151" -> "Chrome151"
    [] OTHER -> Refused
(* The three security modes, each with the options it has no use for.      *)
VlessSecurity(q) ==
  LET security == Get(q, "security", "none") IN
    CASE security = "none" /\ accept_inert_fingerprint(q) /\ require_noop(q, "spx", {"", "/"}) /\
           reject_options_requiring_security(q, TlsOptions \cup {"pbk", "sid"}) ->
           [tls |-> TlsDefault, reality |-> None, dropped |-> FingerprintNote(q)]
      [] security = "tls" /\ reject_options_requiring_security(q, {"pbk", "sid", "spx"}) /\
           tls_accepts(q, TRUE) /\ TlsFingerprint(q) # Refused ->
           [tls |-> [tls_config(q, TRUE) EXCEPT !.fingerprint = TlsFingerprint(q)], reality |-> None, dropped |-> {}]
      [] security = "reality" /\ Given(q, TlsOptions \ {"sni"}) = {} /\ reality_accepts(q) ->
           [tls |-> TlsDefault, reality |-> reality_config(q),
            dropped |-> IF Get(q, "fp", "chrome") = "qq" THEN {"fp"} ELSE {}]
      [] OTHER -> Refused
import_vless(l) ==
  LET q == l.query
      flow == vless_flow(q)
      transport == vless_transport(q)
      security == VlessSecurity(q)
  IN  IF /\ l.password = None /\ reject_unknown_options(q, VlessOptions) /\ transport # Refused
         /\ require_disabled(q, "mux") /\ flow \in {None, "xtls-rprx-vision"}
         /\ flow # None => transport = Raw /\ Get(q, "security", "none") \in {"tls", "reality"}
         /\ vless_packet_encoding(q) # Refused /\ vless_encryption(q) /\ security # Refused
         /\ endpoint(l) /\ l.user # "" /\ IpGiven(l)
      THEN Profile(At(l, l.port, "Vless") @@
             [uuid |-> l.user, flow |-> flow, transport |-> transport, packet_encoding |-> vless_packet_encoding(q),
              tls |-> security.tls, reality |-> security.reality, encryption |-> Get(q, "encryption", None)],
             security.dropped)
      ELSE Refused

hysteria2_port_ranges(q) ==
  LET ranges == Get(q, "mport", <<>>) IN
    \A i \in DOMAIN ranges : ranges[i] # Malformed /\ ranges[i].start # 0 /\ ranges[i].start <= ranges[i].end
hysteria2_obfs(q) ==
  \/ Given(q, {"obfs", "obfs-password"}) = {}
  \/ Given(q, {"obfs", "obfs-password"}) = {"obfs", "obfs-password"} /\ q["obfs"] = "salamander" /\ Text(q["obfs-password"])
Hysteria2Options ==
  TlsOptions \cup LeafPins \cup
  {"downmbps", "fp", "hopinterval", "mport", "obfs", "obfs-password", "security", "server_ip", "upmbps"}
import_hysteria2(l) ==
  LET q == l.query IN
    IF /\ reject_unknown_options(q, Hysteria2Options) /\ require_noop(q, "security", {"", "tls"})
       /\ accept_inert_fingerprint(q) /\ endpoint(l) /\ credential(l) /\ hysteria2_obfs(q) /\ IpGiven(l)
       /\ integer(q, "upmbps") /\ integer(q, "downmbps") /\ hysteria2_port_ranges(q) /\ integer(q, "hopinterval")
       /\ tls_accepts(q, TRUE)
    THEN Profile(At(l, l.port, "Hysteria2") @@
           [password |-> l.user, up_mbps |-> Get(q, "upmbps", 0), down_mbps |-> Get(q, "downmbps", 0),
            obfs |-> Get(q, "obfs-password", None), server_ports |-> Get(q, "mport", <<>>),
            hop_interval_ms |-> 1000 * Get(q, "hopinterval", 30), keepalive_ms |-> 10000, idle_timeout_ms |-> 30000,
            tls |-> tls_config(q, TRUE)],
           FingerprintNote(q))
    ELSE Refused

TrojanOptions ==
  TlsOptions \cup VLESS_GRPC_OPTIONS \cup {"headertype", "host", "method", "path", "security", "server_ip", "type"}
import_trojan(l) ==
  LET q == l.query IN
    IF /\ reject_unknown_options(q, TrojanOptions) /\ require_noop(q, "security", {"", "tls"}) /\ endpoint(l)
       /\ IpGiven(l) /\ credential(l) /\ tls_accepts(q, TRUE) /\ vless_transport(q) # Refused
    THEN Profile(At(l, l.port, "Trojan") @@
                 [password |-> l.user, tls |-> tls_config(q, TRUE), transport |-> vless_transport(q)], {})
    ELSE Refused

-----------------------------------------------------------------------------
(* A VMess document is the function from its fields to their values.       *)
VmessFields ==
  GRPC_TUNING_OPTIONS \cup
  {"add", "aid", "allowInsecure", "alpn", "fp", "host", "id", "insecure", "mux", "net", "packetEncoding",
   "packet_encoding", "path", "pbk", "port", "ps", "scy", "security", "server_ip", "sid", "skip-cert-verify",
   "sni", "spx", "tfo", "tls", "type", "v"}
VmessInsecure == {"insecure", "allowInsecure", "skip-cert-verify"}
VmessCiphers == {"", "auto", "aes-128-gcm", "chacha20-poly1305", "none"}
VmessCipher(d) == Or(NonEmpty(Or(First(d, <<"scy", "security">>), "auto")), "auto")
VmessMode(d) == IF Get(d, "type", "none") \in {"", "none", "gun"} THEN "gun" ELSE Get(d, "type", "none")
VmessTransport(d) ==
  LET net == Get(d, "net", "tcp")
      plain == Get(d, "type", "") \in {"", "none"} /\ Given(d, GRPC_TUNING_OPTIONS) = {}
      path == Or(NonEmpty(Get(d, "path", "")), "/")
      host == NonEmpty(Get(d, "host", ""))
      settings == [o \in Given(d, GRPC_TUNING_OPTIONS) \cup {"mode"} |-> IF o = "mode" THEN VmessMode(d) ELSE d[o]]
  IN  CASE net = "tcp" /\ plain /\ Get(d, "path", "") = "" /\ host = None -> Raw
        [] net = "ws" /\ plain -> Upgrade("websocket", path, host)
        [] net = "httpupgrade" /\ plain -> Upgrade("httpupgrade", path, host)
        [] net = "h2" /\ plain -> [type |-> "http2", host |-> Hosts(host), path |-> path, method |-> "PUT"]
        [] net = "grpc" -> grpc_transport(settings, Get(d, "path", ""), host)
        [] OTHER -> Refused
VmessInsecureAsked(d) == \E o \in Given(d, VmessInsecure) : d[o] = "1"
VmessAccepts(d) ==
  /\ reject_unknown_options(d, VmessFields) /\ Get(d, "v", "2") = "2"
  /\ Get(d, "add", "") # "" /\ Get(d, "port", 0) \notin {0, Malformed} /\ Get(d, "id", "") # ""
  /\ Get(d, "aid", 0) = 0 /\ VmessCipher(d) \in VmessCiphers /\ require_disabled(d, "mux")
  /\ require_noop(d, "packetEncoding", {"", "none"}) /\ require_noop(d, "packet_encoding", {"", "none"})
  /\ Given(d, {"pbk", "sid", "spx"}) = {} /\ Get(d, "fp", "") = ""
(* The TLS options of a document without TLS are refused, not dropped.     *)
VmessTls(d) ==
  LET tls == Get(d, "tls", "") = "tls" IN
    IF /\ Get(d, "tls", "") \in {"", "none", "tls"} /\ \A o \in Given(d, VmessInsecure) : parse_bool(d[o])
       /\ tls \/ (~VmessInsecureAsked(d) /\ Get(d, "sni", "") = "" /\ Get(d, "alpn", <<>>) = <<>>)
    THEN [TlsDefault EXCEPT !.enabled = tls, !.server_name = NonEmpty(Get(d, "sni", "")), !.insecure = VmessInsecureAsked(d),
                            !.alpn = SelectSeq(Get(d, "alpn", <<>>), LAMBDA part : part # "")]
    ELSE Refused
import_vmess(l) ==
  LET d == l.query IN
    IF VmessAccepts(d) /\ VmessTransport(d) # Refused /\ VmessTls(d) # Refused /\ server_ip(d) # "bad"
    THEN Profile([kind |-> "Vmess", server |-> d["add"], port |-> d["port"], server_ip |-> server_ip(d),
                  uuid |-> d["id"], alter_id |-> 0, cipher |-> VmessCipher(d), transport |-> VmessTransport(d),
                  tls |-> VmessTls(d)], {})
    ELSE Refused

-----------------------------------------------------------------------------
(* The AmneziaWG block of a WireGuard profile, from the function c of its  *)
(* keys to their values.  A range is [start, end]; an init packet is the   *)
(* length that its template renders, or Malformed.                         *)
ObfuscationKeys == {"jc", "jmin", "jmax", "s1", "s2", "h1", "h2", "h3", "h4"}
TimerKeys == {"rekeytimeout", "rekeyaftertime", "rejectaftertime", "keepalivetimeout", "maxhandshakeattempts"}
InitPackets == <<"i1", "i2", "i3", "i4", "i5">>
AMNEZIA_URL_KEYS ==
  ObfuscationKeys \cup TimerKeys \cup ToSet(InitPackets) \cup
  {"s3", "s4", "contentpaddingaddition", "randomtrailers", "disablecookies", "headerprotectionkey"}
IsRange(r) == r # Malformed /\ r.start <= r.end
optional_small(c, key) == Get(c, key, 0)
amnezia_header(c, key, default) == Get(c, key, [start |-> default, end |-> default])
amnezia_init_packets(c) ==
  \A i \in 1..5 : Has(c, InitPackets[i]) => c[InitPackets[i]] # Malformed /\ \A j \in 1..i : Has(c, InitPackets[j])
amnezia_timers(c) == [key \in Given(c, TimerKeys) |-> c[key]]
amnezia_reported_extras(c) == Given(c, {"disablecookies"})
AmneziaBlock(c) ==
  [header_protection_key |-> Get(c, "headerprotectionkey", None),
   junk_count |-> optional_small(c, "jc"), junk_min |-> optional_small(c, "jmin"), junk_max |-> optional_small(c, "jmax"),
   init_junk |-> optional_small(c, "s1"), response_junk |-> optional_small(c, "s2"),
   cookie_junk |-> optional_small(c, "s3"), transport_junk |-> optional_small(c, "s4"),
   content_padding_addition |-> Get(c, "contentpaddingaddition", None),
   random_trailers |-> Get(c, "randomtrailers", "0") = "1",
   init_packets |-> LET given == SelectSeq(InitPackets, LAMBDA key : Has(c, key)) IN [i \in DOMAIN given |-> c[given[i]]],
   timers |-> amnezia_timers(c),
   headers |-> <<amnezia_header(c, "h1", 1), amnezia_header(c, "h2", 2), amnezia_header(c, "h3", 3), amnezia_header(c, "h4", 4)>>]
(* Absent keys have their defaults under a header protection key; without  *)
(* one the nine keys of the first version come together or not at all.     *)
amnezia_accepts(c) ==
  LET protected == Has(c, "headerprotectionkey") IN
    /\ protected \/ Given(c, ObfuscationKeys) \in {{}, ObfuscationKeys}
    /\ \A key \in Given(c, {"jc", "jmin", "jmax", "s1", "s2", "s3", "s4"}) : c[key] # Malformed
    /\ \A key \in Given(c, TimerKeys \cup {"h1", "h2", "h3", "h4", "contentpaddingaddition"}) : IsRange(c[key])
    /\ parse_bool(Get(c, "randomtrailers", "0")) /\ amnezia_init_packets(c)
    /\ protected => validate_header_protection_key(AmneziaBlock(c))
(* None without a block, Refused, or the block.                            *)
amnezia_from_conf(c) ==
  IF Given(c, AMNEZIA_URL_KEYS) = {} THEN None
  ELSE IF amnezia_accepts(c) THEN AmneziaBlock(c) ELSE Refused
AmneziaForMtu(a, mtu) == a # Refused /\ (a # None /\ a.header_protection_key # None => AmneziaValidate(a, mtu))

FullRoute == {"0.0.0.0/0", "::/0"}
wireguard_reserved(r) == r = None \/ (r # Malformed /\ Len(r) = 3)
wireguard_networks(networks) == networks \notin {Malformed, {}, None}
wireguard_dns_note(c) == Given(c, {"dns"})
AdvancedSecurity(c) == Get(c, "advancedsecurity", "1") = "1"
WireguardMtu(c) == Get(c, "mtu", 1420)
WireguardMtuValid(c) == WireguardMtu(c) # Malformed /\ Within(576, WireguardMtu(c), 65535)
PublicKeys == <<"publickey", "public_key", "public-key">>
Addresses == <<"address", "addresses">>
AllowedIps == <<"allowed_ips", "allowedips", "allowed-ips">>
Keepalives == <<"keepalive", "persistentkeepalive", "persistent_keepalive">>
PresharedKeys == <<"presharedkey", "preshared_key", "pre-shared-key">>
WireguardOptions ==
  AMNEZIA_URL_KEYS \cup UNION {ToSet(names) : names \in {PublicKeys, Addresses, AllowedIps, Keepalives, PresharedKeys}}
    \cup {"advancedsecurity", "dns", "mtu", "reserved", "server_ip"}
import_wireguard(l) ==
  LET q == l.query
      amnezia == amnezia_from_conf(q)
      address == First(q, Addresses)
      allowed_ips == Or(First(q, AllowedIps), FullRoute)
  IN  IF /\ reject_unknown_options(q, WireguardOptions) /\ AdvancedSecurity(q) /\ amnezia # Refused /\ l.host # ""
         /\ credential(l) /\ First(q, PublicKeys) # None /\ WireguardMtuValid(q) /\ AmneziaForMtu(amnezia, WireguardMtu(q))
         /\ First(q, Keepalives) # Malformed /\ wireguard_reserved(Get(q, "reserved", None))
         /\ wireguard_networks(address) /\ wireguard_networks(allowed_ips) /\ IpGiven(l)
      THEN Profile(At(l, IF l.port = None THEN 51820 ELSE l.port, "Wireguard") @@
             [private_key |-> l.user, peer_public_key |-> First(q, PublicKeys), preshared_key |-> First(q, PresharedKeys),
              address |-> address, allowed_ips |-> allowed_ips, mtu |-> WireguardMtu(q),
              persistent_keepalive_s |-> First(q, Keepalives), reserved |-> Get(q, "reserved", None), amnezia |-> amnezia],
             wireguard_dns_note(q) \cup Given(q, {"advancedsecurity"}) \cup amnezia_reported_extras(q))
      ELSE Refused

(* A wg-quick file is the sequence of its lines: a section header          *)
(* [section] or an entry [key, value]; Malformed is neither.  A keepalive  *)
(* of "off" is None.                                                       *)
WIREGUARD_CONF_KEYS ==
  AMNEZIA_URL_KEYS \cup
  {"address", "advancedsecurity", "allowedips", "dns", "endpoint", "listenport", "mtu", "persistentkeepalive",
   "presharedkey", "privatekey", "publickey"}
IsHeader(line) == "section" \in DOMAIN line
SectionOf(lines, i) ==
  LET headers == {j \in 1..i : IsHeader(lines[j])} IN
    IF headers = {} THEN "none" ELSE lines[CHOOSE j \in headers : \A k \in headers : k <= j].section
(* find: the first entry of a key in a section is the one that counts.     *)
ConfEntries(lines, section) ==
  SelectSeq([i \in DOMAIN lines |-> [section |-> SectionOf(lines, i)] @@ lines[i]],
            LAMBDA e : "key" \in DOMAIN e /\ e.section = section)
FirstEntries(entries) ==
  [key \in {entries[i].key : i \in DOMAIN entries} |->
     entries[CHOOSE i \in DOMAIN entries : entries[i].key = key /\ \A j \in DOMAIN entries : entries[j].key = key => i <= j].value]
import_wireguard_conf(lines) ==
  LET interface == FirstEntries(ConfEntries(lines, "interface"))
      peer == FirstEntries(ConfEntries(lines, "peer"))
      amnezia == amnezia_from_conf(interface)
      endpointOf == Get(peer, "endpoint", Malformed)
      keepalive == Get(peer, "persistentkeepalive", None)
      allowed_ips == Get(peer, "allowedips", FullRoute)
  IN  IF /\ \A i \in DOMAIN lines :
              /\ lines[i] # Malformed
              /\ IF IsHeader(lines[i]) THEN lines[i].section \in {"interface", "peer"} ELSE SectionOf(lines, i) # "none"
         /\ Cardinality({i \in DOMAIN lines : IsHeader(lines[i]) /\ lines[i].section = "peer"}) = 1
         /\ (DOMAIN interface \cup DOMAIN peer) \subseteq WIREGUARD_CONF_KEYS
         /\ Given(peer, {"contentpaddingaddition", "headerprotectionkey"}) = {} /\ AdvancedSecurity(peer)
         /\ endpointOf # Malformed /\ endpointOf.port # 0 /\ WireguardMtuValid(interface) /\ keepalive # Malformed
         /\ amnezia # Refused /\ AmneziaForMtu(amnezia, WireguardMtu(interface))
         /\ Has(interface, "privatekey") /\ Has(peer, "publickey")
         /\ wireguard_networks(Get(interface, "address", None)) /\ wireguard_networks(allowed_ips)
      THEN Profile([kind |-> "Wireguard", server |-> endpointOf.host, port |-> endpointOf.port, server_ip |-> None,
                    private_key |-> interface["privatekey"], peer_public_key |-> peer["publickey"],
                    preshared_key |-> Get(peer, "presharedkey", None), address |-> interface["address"],
                    allowed_ips |-> allowed_ips, mtu |-> WireguardMtu(interface),
                    persistent_keepalive_s |-> keepalive, reserved |-> None, amnezia |-> amnezia],
                   wireguard_dns_note(interface) \cup Given(peer, {"advancedsecurity"}) \cup amnezia_reported_extras(interface))
      ELSE Refused

-----------------------------------------------------------------------------
ProxyCredentials(l) ==
  [username |-> NonEmpty(l.user), password |-> l.password, handshake_timeout_ms |-> 15000]
import_socks(l) ==
  IF /\ reject_unknown_options(l.query, {"server_ip", "udp"}) /\ l.scheme # "socks4"
     /\ proxy_endpoint(l) /\ user_password(l) /\ IpGiven(l)
  THEN Profile(At(l, l.port, "Socks") @@ ProxyCredentials(l), {})
  ELSE Refused
(* An http link is also what a subscription URL looks like: a proxy has no *)
(* path.  The scheme alone decides whether the hop is encrypted.           *)
import_http_proxy(l) ==
  IF /\ reject_unknown_options(l.query, (TlsOptions \ {"peer"}) \cup {"server_ip"}) /\ l.path = ""
     /\ proxy_endpoint(l) /\ user_password(l) /\ IpGiven(l) /\ tls_accepts(l.query, l.scheme = "https")
  THEN Profile(At(l, ProxyPort(l), "Http") @@ ProxyCredentials(l) @@
               [tls |-> tls_config(l.query, l.scheme = "https"), headers |-> <<>>], {})
  ELSE Refused
import_naive(l) ==
  IF /\ l.scheme = "naive+https" /\ reject_unknown_options(l.query, (TlsOptions \ {"alpn", "peer"}) \cup {"padding", "server_ip"})
     /\ proxy_endpoint(l) /\ user_password(l) /\ tls_accepts(l.query, TRUE) /\ IpGiven(l)
  THEN Profile(At(l, ProxyPort(l), "Naive") @@ ProxyCredentials(l) @@
               [tls |-> [tls_config(l.query, TRUE) EXCEPT !.alpn = <<"h2">>], padding |-> Get(l.query, "padding", "1") # "0"], {})
  ELSE Refused
import_anytls(l) ==
  IF /\ reject_unknown_options(l.query, {"insecure", "sni"}) /\ l.host # "" /\ credential(l)
     /\ parse_bool(Get(l.query, "insecure", "0"))
  THEN Profile(At(l, IF l.port = None THEN 443 ELSE l.port, "AnyTls") @@
               [password |-> l.user, handshake_timeout_ms |-> 15000, idle_check_ms |-> 30000, idle_timeout_ms |-> 30000,
                min_idle_session |-> 0,
                tls |-> [TlsDefault EXCEPT !.enabled = TRUE, !.server_name = Get(l.query, "sni", None),
                                           !.insecure = Get(l.query, "insecure", "0") = "1"]], {})
  ELSE Refused

(* A plugin string is [name, options], its options a sequence of           *)
(* [key, value]; Malformed breaks a bound or an escape.                    *)
OptionsOf(plugin, key) == {i \in DOMAIN plugin.options : plugin.options[i].key = key}
LastOption(plugin, key, default) ==
  LET given == OptionsOf(plugin, key) IN
    IF given = {} THEN default ELSE plugin.options[CHOOSE i \in given : \A j \in given : j <= i].value
OptionKeys(plugin) == {plugin.options[i].key : i \in DOMAIN plugin.options}
NoPlugin == [transport |-> Raw, tls |-> TlsDefault, obfs |-> None, dropped |-> {}]
sip003_options(plugin) == \A i, j \in DOMAIN plugin.options : plugin.options[i].key = plugin.options[j].key => i = j
shadowsocks_v2ray_plugin(p) ==
  LET path == LastOption(p, "path", "/")
      host == LastOption(p, "host", "cloudfront.com")
  IN  IF /\ sip003_options(p) /\ LastOption(p, "mux", "1") = "0"
         /\ OptionKeys(p) \subseteq {"mode", "tls", "path", "host", "mux"} /\ LastOption(p, "mode", "websocket") = "websocket"
         /\ Text(path) /\ Text(host)
      THEN [NoPlugin EXCEPT !.transport = Upgrade("websocket", path, host),
              !.tls = IF OptionsOf(p, "tls") = {} THEN TlsDefault
                      ELSE [TlsDefault EXCEPT !.enabled = TRUE, !.server_name = host]]
      ELSE Refused
ObfsNotes == {"fast-open", "mptcp"}
ObfsIgnored == {"t", "timeout", "v", "verbose"}
shadowsocks_simple_obfs(p) ==
  LET mode == LastOption(p, "obfs", "")
      host == LastOption(p, "obfs-host", "")
      request == {"obfs-uri", "http-method"}
  IN  IF /\ OptionKeys(p) \subseteq {"obfs", "obfs-host"} \cup request \cup ObfsNotes \cup ObfsIgnored
         /\ mode \in {"http", "tls"} /\ host # "" /\ (mode = "tls" => OptionKeys(p) \cap request = {})
      THEN [NoPlugin EXCEPT !.dropped = OptionKeys(p) \cap ObfsNotes,
              !.obfs = IF mode = "tls" THEN [mode |-> "tls", host |-> host]
                       ELSE [mode |-> "http", host |-> host, uri |-> Or(NonEmpty(LastOption(p, "obfs-uri", "")), "/"),
                             method |-> Or(NonEmpty(LastOption(p, "http-method", "")), "GET")]]
      ELSE Refused
shadowsocks_plugin(q) ==
  LET p == Get(q, "plugin", None) IN
    CASE p = None -> NoPlugin
      [] p = Malformed -> Refused
      [] p \notin {None, Malformed} ->
           CASE p.name = "v2ray-plugin" -> shadowsocks_v2ray_plugin(p)
             [] p.name = "obfs-local" -> shadowsocks_simple_obfs(p)
             [] OTHER -> Refused
Datagrams(q, tunnelled) == IF Get(q, "udp", "0") = "1" /\ tunnelled THEN Refused ELSE Get(q, "udp", IF tunnelled THEN "0" ELSE "1") = "1"
(* The credentials are [method, password], from the text or its Base64.    *)
import_shadowsocks(l) ==
  LET q == l.query
      plugin == shadowsocks_plugin(q)
  IN  IF /\ reject_unknown_options(q, {"outline", "plugin", "prefix", "server_ip", "udp"}) /\ plugin # Refused
         /\ require_noop(q, "outline", {"", "1"}) /\ Get(q, "prefix", "") # "bad" /\ endpoint(l)
         /\ l.credentials # Malformed /\ l.credentials.method # "" /\ l.credentials.password # "" /\ IpGiven(l)
         /\ parse_bool(Get(q, "udp", "0")) /\ Datagrams(q, plugin.transport # Raw \/ plugin.obfs # None) # Refused
      THEN Profile(At(l, l.port, "Shadowsocks") @@ l.credentials @@
             [udp |-> Datagrams(q, plugin.transport # Raw \/ plugin.obfs # None), transport |-> plugin.transport,
              tls |-> plugin.tls, obfs |-> plugin.obfs, outline_prefix |-> NonEmpty(Get(q, "prefix", None))],
             plugin.dropped)
      ELSE Refused

-----------------------------------------------------------------------------
Importer(l) ==
  CASE l.scheme = "vless" -> import_vless(l)
    [] l.scheme = "vmess" -> import_vmess(l)
    [] l.scheme = "hysteria2" -> import_hysteria2(l)
    [] l.scheme = "trojan" -> import_trojan(l)
    [] l.scheme = "ss" -> import_shadowsocks(l)
    [] l.scheme = "wireguard" -> import_wireguard(l)
    [] l.scheme \in {"socks4", "socks5"} -> import_socks(l)
    [] l.scheme \in {"http", "https"} -> import_http_proxy(l)
    [] l.scheme \in {"naive", "naive+https"} -> import_naive(l)
    [] l.scheme = "anytls" -> import_anytls(l)
    [] OTHER -> Refused
import_link(l) == IF l = Malformed THEN Refused ELSE Importer(l)

LinkInit(l) == link = l /\ imported = None
(* A pasted link, or a pasted WireGuard file.                              *)
PasteLink == imported = None /\ "lines" \notin DOMAIN link /\ imported' = import_link(link) /\ UNCHANGED link
PasteFile == imported = None /\ "lines" \in DOMAIN link /\ imported' = import_wireguard_conf(link.lines) /\ UNCHANGED link
LinkNext == PasteLink \/ PasteFile

-----------------------------------------------------------------------------
Without(l, o) == [l EXCEPT !.query = [p \in DOMAIN l.query \ {o} |-> l.query[p]]]
(* The values with which an option says what its absence says.             *)
InertValues ==
  [o \in {"encryption", "plugin", "reserved", "server_ip"} |-> {None}] @@
  [o \in {"alpn", "mport"} |-> {<<>>, <<"">>}] @@
  [o \in {"idle_timeout", "initial_windows_size"} |-> {0, -1}] @@
  [o \in {"idle_timeout_ms", "upmbps", "downmbps", "aid", "jc", "jmin", "jmax", "s1", "s2", "s3", "s4"} |-> {0}] @@
  [o \in InsecureAliases \cup {"allowInsecure", "mux", "permit_without_stream", "randomtrailers"} |-> {"0"}] @@
  ("health_check_timeout" :> {-1, 0, 20} @@ "health_check_timeout_ms" :> {20000} @@ "hopinterval" :> {30} @@ "mtu" :> {1420} @@
   "type" :> {"tcp", "", "none", "gun"} @@ "net" :> {"tcp"} @@ "security" :> {"", "none", "tls", "auto"} @@ "tls" :> {"", "none"} @@
   "mode" :> {"", "none", "gun", "auto", "stream-one"} @@ "path" :> {"/", ""} @@ "spx" :> {"", "/"} @@ "fp" :> {"", "chrome", "chrome_156"} @@
   "udp" :> {"0", "1"} @@ "outline" :> {"", "1"} @@ "v" :> {"2"} @@ "scy" :> {"", "auto"} @@ "method" :> {"", "PUT"} @@ "padding" :> {"1"} @@ "packetencoding" :> {"", "none", "xudp"}) @@
  [o \in VlessOptions \cup VmessFields \cup TrojanOptions \cup {"prefix"} |-> {"", "none"}]
AliasGroups == {{"sni", "peer"}, SpkiPins, {"scy", "security"}, VmessInsecure} \cup
  {ToSet(names) : names \in {PublicKeys, Addresses, AllowedIps, Keepalives, PresharedKeys}}
(* What the importers take and pass over without a note.                   *)
PassedOver(l, o) ==
  \/ l.scheme = "vmess" /\ o \in {"tfo", "ps"}
  \/ o = "headertype" /\ Get(l.query, "type", "tcp") \in {"httpupgrade", "h2"}
  \/ o = "method" /\ Get(l.query, "type", "tcp") # "h2"
  \/ o = "idle_timeout" /\ l.query[o] <= 10
  \/ \E group \in AliasGroups : o \in group /\ Given(l.query, group \ {o}) # {}
(* NoOptionIgnored: every option of a link that imports is applied.  The   *)
(* link without it imports as another profile or not at all, or the        *)
(* profile reports the option as dropped, or its value says what its       *)
(* absence says; PassedOver names the exceptions                           *)
(* (reject_unknown_options and the refusals of every importer).            *)
NoOptionIgnored ==
  (imported \notin {None, Refused} /\ "lines" \notin DOMAIN link) =>
    \A o \in DOMAIN link.query :
      \/ LET less == import_link(Without(link, o)) IN less = Refused \/ (less # Refused /\ less.outbound # imported.outbound)
      \/ o \in imported.dropped \/ PassedOver(link, o)
      \/ o \in DOMAIN InertValues /\ link.query[o] \in InertValues[o]
(* NoLineIgnored: every line of a WireGuard file that imports is applied   *)
(* or reported (import_wireguard_conf: "a tunnel that silently ignored one *)
(* would be a different tunnel than the one the provider issued").         *)
NoLineIgnored ==
  (imported \notin {None, Refused} /\ "lines" \in DOMAIN link) =>
    \A i \in DOMAIN link.lines :
      "key" \in DOMAIN link.lines[i] =>
        \/ link.lines[i].key \in imported.dropped
        \/ LET less == import_wireguard_conf(RemoveAt(link.lines, i)) IN less = Refused \/ (less # Refused /\ less.outbound # imported.outbound)

-----------------------------------------------------------------------------
(***************************************************************************)
(* Importing a subscription body (foxcore-link/src/lib.rs, clash.rs,       *)
(* structured.rs): a list of links, a Clash document or a SIP008 document. *)
(*                                                                         *)
(* A body is [form, ...].  The lines of a list are links, None for a blank *)
(* one; a Clash document is its root keys and its nodes, each the function *)
(* from the node's keys to their values; a SIP008 document is its keys,    *)
(* its version and its servers.  What does not decode, breaks a bound or   *)
(* repeats a key is Malformed.                                             *)
(***************************************************************************)

CONSTANT
  MaxProfiles    \* the bound on the profiles of one subscription

VARIABLES body, partial, strict
subscriptionVars == <<body, partial, strict>>

-----------------------------------------------------------------------------
(* Clash.  One optional entry of the parameters a node is rewritten to.    *)
Param(given, key, value) == IF given THEN key :> value ELSE <<>>
CommonKeys == {"name", "type", "server", "port", "udp"}
TlsKeys == {"tls", "servername", "sni", "skip-cert-verify"}
CarrierKeys == {"alpn", "network", "ws-opts", "grpc-opts"}
NodeKeys ==
  [ss |-> {"cipher", "password"},
   vless |-> {"uuid", "client-fingerprint", "flow", "reality-opts", "packet-encoding"} \cup TlsKeys \cup CarrierKeys,
   vmess |-> {"uuid", "alterId", "cipher", "client-fingerprint"} \cup TlsKeys \cup CarrierKeys,
   trojan |-> {"password"} \cup TlsKeys \cup CarrierKeys,
   anytls |-> {"password"} \cup TlsKeys,
   hysteria2 |-> {"password", "alpn", "obfs", "obfs-password", "up", "down"} \cup TlsKeys]
TlsByDefault(n) == Has(n, "reality-opts") \/ n["type"] \in {"trojan", "hysteria2", "anytls"}
NodeTls(n) == Get(n, "tls", TlsByDefault(n))
ServerNames(n) == {n[key] : key \in Given(n, {"servername", "sni"})}
Network(n) == Get(n, "network", "tcp")
WsOpts(n) == Get(n, "ws-opts", <<>>)
GrpcOpts(n) == Get(n, "grpc-opts", <<>>)
GrpcService(n) == Or(NonEmpty(Get(GrpcOpts(n), "grpc-service-name", "")), "GunService")

(* What share_link refuses by itself; the importer decides on the rest.    *)
ShareLinkAccepts(n) ==
  /\ DOMAIN n \subseteq CommonKeys \cup NodeKeys[n["type"]]
  /\ Get(n, "port", 0) \notin {0, Malformed} /\ Has(n, "server")
  /\ n["type"] # "ss" => Get(n, "udp", TRUE)
  /\ Cardinality(ServerNames(n)) <= 1
  /\ \A i \in DOMAIN Get(n, "alpn", <<>>) : Text(n["alpn"][i])
  /\ CASE Network(n) = "tcp" -> Given(n, {"ws-opts", "grpc-opts"}) = {}
       [] Network(n) = "ws" -> ~Has(n, "grpc-opts") /\ DOMAIN WsOpts(n) \subseteq {"path", "host"}
       [] Network(n) = "grpc" ->
            /\ ~Has(n, "ws-opts") /\ DOMAIN GrpcOpts(n) \subseteq {"grpc-service-name", "grpc-user-agent", "ping-interval"}
            /\ Get(GrpcOpts(n), "ping-interval", 0) # Malformed /\ Get(GrpcOpts(n), "ping-interval", 0) <= 86400
       [] OTHER -> FALSE
  /\ ~NodeTls(n) => ~TlsByDefault(n) /\ Given(n, (TlsKeys \ {"tls"}) \cup {"alpn", "client-fingerprint"}) = {}
  /\ Has(n, "reality-opts") => Has(n["reality-opts"], "public-key") /\ DOMAIN n["reality-opts"] \subseteq {"public-key", "short-id"}
  /\ \A key \in Given(n, {"up", "down"}) : n[key] # Malformed
  /\ n["type"] = "vmess" => Get(n, "alterId", 0) = 0
  /\ Has(n, IF n["type"] \in {"vless", "vmess"} THEN "uuid" ELSE "password")

(* Mutant: skip-cert-verify is passed on whenever the key is there.        *)
InsecureIfNamed(n) == Has(n, "skip-cert-verify")
InsecureNode(n) == Get(n, "skip-cert-verify", FALSE)
NodeTlsParams(n) ==
  Param(ServerNames(n) # {}, "sni", CHOOSE name \in ServerNames(n) : TRUE) @@
  Param(Has(n, "client-fingerprint"), "fp", Get(n, "client-fingerprint", "")) @@
  Param(InsecureNode(n), "insecure", "1") @@ Param(Get(n, "alpn", <<>>) # <<>>, "alpn", Get(n, "alpn", <<>>))
CarrierParams(n) ==
  CASE Network(n) = "tcp" -> <<>>
    [] Network(n) = "ws" ->
         ("type" :> "ws" @@ "path" :> Get(WsOpts(n), "path", "/")) @@ Param(Has(WsOpts(n), "host"), "host", Get(WsOpts(n), "host", ""))
    [] Network(n) = "grpc" ->
         "type" :> "grpc" @@ "servicename" :> GrpcService(n) @@ "rpc_path" :> (IF GrpcService(n) = "bad" THEN "bad" ELSE "/service/Tun") @@
         "user_agent" :> Or(NonEmpty(Get(GrpcOpts(n), "grpc-user-agent", "")), "grpc-go/1.36.0") @@
         "idle_timeout_ms" :> 1000 * Get(GrpcOpts(n), "ping-interval", 0)
ShareLinkParams(n) ==
  NodeTlsParams(n) @@ CarrierParams(n) @@
  Param(Has(n, "flow"), "flow", Get(n, "flow", "")) @@
  Param(Has(n, "packet-encoding"), "packetencoding", Get(n, "packet-encoding", "")) @@
  Param(n["type"] \in {"vless", "vmess"}, "security",
        IF Has(n, "reality-opts") THEN "reality" ELSE IF NodeTls(n) THEN "tls" ELSE "none") @@
  (IF Has(n, "reality-opts")
   THEN "pbk" :> n["reality-opts"]["public-key"] @@ "sid" :> Get(n["reality-opts"], "short-id", "") ELSE <<>>) @@
  Param(Has(n, "obfs"), "obfs", Get(n, "obfs", "")) @@
  Param(Has(n, "obfs-password"), "obfs-password", Get(n, "obfs-password", "")) @@
  Param(Has(n, "up"), "upmbps", Get(n, "up", 0)) @@ Param(Has(n, "down"), "downmbps", Get(n, "down", 0))
VmessDocument(n, params) ==
  "v" :> "2" @@ "add" :> n["server"] @@ "port" :> n["port"] @@ "id" :> n["uuid"] @@ "aid" :> 0 @@
  "scy" :> Get(n, "cipher", "auto") @@ "net" :> Network(n) @@ "type" :> "none" @@
  "path" :> (IF Network(n) = "grpc" THEN params["servicename"] ELSE Get(params, "path", "/")) @@
  "host" :> Get(params, "host", "") @@ "tls" :> (IF NodeTls(n) THEN "tls" ELSE "") @@ "sni" :> Get(params, "sni", "") @@
  "alpn" :> Get(params, "alpn", <<>>) @@ "fp" :> Get(params, "fp", "") @@
  "allowInsecure" :> (IF InsecureNode(n) THEN "1" ELSE "0") @@
  [o \in IF Network(n) = "grpc" THEN Given(params, GRPC_TUNING_OPTIONS) ELSE {} |-> params[o]]
share_link(n) ==
  LET link0 == [scheme |-> n["type"], user |-> Get(n, IF n["type"] = "vless" THEN "uuid" ELSE "password", ""),
                password |-> None, host |-> n["server"], port |-> n["port"], path |-> "", query |-> ShareLinkParams(n)]
  IN  CASE n["type"] = "ss" ->
             [link0 EXCEPT !.query = "udp" :> (IF Get(n, "udp", TRUE) THEN "1" ELSE "0")] @@
               [credentials |-> [method |-> Get(n, "cipher", ""), password |-> n["password"]]]
        [] n["type"] = "vmess" -> [link0 EXCEPT !.query = VmessDocument(n, ShareLinkParams(n))]
        [] OTHER -> link0

-----------------------------------------------------------------------------
Import(profiles, rejected) == [profiles |-> profiles, rejected |-> rejected]
Nothing == Import(<<>>, <<>>)
Accept(sofar, profile) == [sofar EXCEPT !.profiles = Append(@, profile)]
Reject(sofar, index) == [sofar EXCEPT !.rejected = Append(@, index)]
OrNone(import) == IF import.profiles = <<>> THEN Refused ELSE import
(* One entry after the other: profile(i) is what entry i imports as.       *)
Entries(n, profile(_)) ==
  FoldLeft(LAMBDA sofar, i : IF profile(i) = Refused THEN Reject(sofar, i) ELSE Accept(sofar, profile(i)),
           Nothing, [i \in 1..n |-> i])

ImportNode(n) == IF n["type"] \in DOMAIN NodeKeys /\ ShareLinkAccepts(n) THEN import_link(share_link(n)) ELSE Refused
import_yaml(b) ==
  IF b.root = Malformed \/ "proxy-providers" \in b.root \/ ~Within(1, Len(b.nodes), MaxProfiles) THEN Refused
  ELSE LET import == OrNone(Entries(Len(b.nodes), LAMBDA i : ImportNode(b.nodes[i]))) IN
         IF import # Refused /\ b.root # {"proxies"} THEN Reject(import, 1) ELSE import

import_server(s) ==
  IF s = Malformed \/ s.plugin # "" \/ s.port = 0 THEN Refused
  ELSE import_link([scheme |-> "ss", user |-> "", password |-> None, host |-> s.server, port |-> s.port, path |-> "",
                    query |-> <<>>, credentials |-> [method |-> s.method, password |-> s.password]])
import_json_partial(b) ==
  IF b.root = Malformed \/ ~(b.root \subseteq {"version", "servers", "bytes_used", "bytes_remaining"})
     \/ b.version \notin {None, 1} \/ ~Within(1, Len(b.servers), MaxProfiles) THEN Refused
  ELSE OrNone(Entries(Len(b.servers), LAMBDA i : import_server(b.servers[i])))

(* Mutant: the search for profiles ends at the bound, and the lines after  *)
(* it are not reported.                                                    *)
import_lines_cut(lines) ==
  OrNone(FoldLeft(
    LAMBDA sofar, i :
      IF lines[i] = None \/ Len(sofar.profiles) = MaxProfiles THEN sofar
      ELSE IF import_link(lines[i]) = Refused THEN Reject(sofar, i)
      ELSE Accept(sofar, import_link(lines[i])),
    Nothing, [i \in DOMAIN lines |-> i]))
(* The lines of a list: past the bound every line is reported as refused.  *)
import_lines(lines) ==
  OrNone(FoldLeft(
    LAMBDA sofar, i :
      IF lines[i] = None THEN sofar
      ELSE IF Len(sofar.profiles) = MaxProfiles \/ import_link(lines[i]) = Refused THEN Reject(sofar, i)
      ELSE Accept(sofar, import_link(lines[i])),
    Nothing, [i \in DOMAIN lines |-> i]))
import_subscription_partial(b) ==
  CASE b.form = "clash" -> import_yaml(b)
    [] b.form = "json" -> import_json_partial(b)
    [] b.form = "lines" -> import_lines(b.lines)
    [] b.form = "unreadable" -> Refused

(* The strict import stops at the first line it cannot take.               *)
import_subscription(b) ==
  CASE b.form \in {"clash", "json"} ->
         LET import == import_subscription_partial(b) IN
           IF import = Refused THEN Refused ELSE IF import.rejected # <<>> THEN Refused ELSE import.profiles
    [] b.form = "lines" ->
         LET links == SelectSeq(b.lines, LAMBDA line : line # None) IN
           IF Within(1, Len(links), MaxProfiles) /\ \A i \in DOMAIN links : import_link(links[i]) # Refused
           THEN [i \in DOMAIN links |-> import_link(links[i])] ELSE Refused
    [] b.form = "unreadable" -> Refused

-----------------------------------------------------------------------------
(* The secret-free shape of a link.                                        *)
Shape(scheme, transport, security, flow) == [scheme |-> scheme, transport |-> transport, security |-> security, flow |-> flow]
opaque_shape(scheme) == Shape(scheme, "Other", "Other", "Other")
classify_transport(t) ==
  CASE t = "tcp" -> "raw" [] t = "ws" -> "websocket" [] t = "grpc" -> "grpc" [] t = "h2" -> "http2"
    [] t \in {"quic", "kcp"} -> t [] OTHER -> "Other"
(* Mutant: a REALITY link is reported as one that uses TLS.                *)
classify_security_encrypted(s) == CASE s \in {"", "none"} -> "None" [] s \in {"tls", "reality"} -> "Tls" [] OTHER -> "Other"
classify_security(s) == CASE s \in {"", "none"} -> "None" [] s = "tls" -> "Tls" [] s = "reality" -> "Reality" [] OTHER -> "Other"
classify_flow(f) == CASE f \in {"", "none"} -> "None" [] f = "xtls-rprx-vision" -> "Vision" [] OTHER -> "Other"
inspect_vless_shape(q) ==
  Shape("Vless", classify_transport(Get(q, "type", "tcp")), classify_security(Get(q, "security", "none")), classify_flow(Get(q, "flow", "")))
inspect_vmess_shape(d) == Shape("Vmess", classify_transport(Get(d, "net", "tcp")), classify_security(Get(d, "tls", "none")), "None")
inspect_shadowsocks_shape(q) == Shape("Shadowsocks", IF Get(q, "plugin", None) = None THEN "raw" ELSE "Other", "None", "None")
inspect_link_shape(l) ==
  CASE l = Malformed -> Refused
    [] l # Malformed ->
         CASE l.scheme = "vless" -> inspect_vless_shape(l.query)
           [] l.scheme = "vmess" -> inspect_vmess_shape(l.query)
           [] l.scheme = "hysteria2" -> Shape("Hysteria2", "quic", "Tls", "None")
           [] l.scheme = "trojan" -> Shape("Trojan", "raw", "Tls", "None")
           [] l.scheme = "anytls" -> Shape("AnyTls", "raw", "Tls", "None")
           [] l.scheme = "ss" -> inspect_shadowsocks_shape(l.query)
           [] l.scheme = "wireguard" -> opaque_shape("Wireguard")
           [] l.scheme \in {"naive", "naive+https"} -> opaque_shape("Naive")
           [] l.scheme \in {"socks4", "socks5"} -> opaque_shape("Socks")
           [] l.scheme \in {"http", "https"} -> opaque_shape("Http")
           [] OTHER -> opaque_shape("Other")
(* The first line of the requested scheme decides; a line before it whose  *)
(* shape cannot be read, or the bound, ends the search with an error.      *)
import_first_profile_by_scheme(lines, scheme) ==
  LET links == SelectSeq(lines, LAMBDA line : line # None)
      stops == {i \in DOMAIN links :
                  inspect_link_shape(links[i]) = Refused \/ i > MaxProfiles \/ inspect_link_shape(links[i]).scheme = scheme}
      stop == CHOOSE i \in stops : \A j \in stops : i <= j
  IN  IF stops = {} \/ stop > MaxProfiles \/ inspect_link_shape(links[stop]) = Refused THEN Refused
      ELSE import_link(links[stop])

-----------------------------------------------------------------------------
SubscriptionInit(b) == body = b /\ partial = None /\ strict = None
(* The two imports of one body; the body of a search is its lines.         *)
ImportBody ==
  /\ partial = None /\ partial' = import_subscription_partial(body) /\ strict' = import_subscription(body) /\ UNCHANGED body
SubscriptionNext == ImportBody

-----------------------------------------------------------------------------
LineCount(b) ==
  CASE b.form = "clash" -> Len(b.nodes) + (IF b.root = {"proxies"} THEN 0 ELSE 1)
    [] b.form = "json" -> Len(b.servers)
    [] b.form = "lines" -> Len(SelectSeq(b.lines, LAMBDA line : line # None))

(* LinesAccounted: a subscription that imports accounts for every entry of *)
(* its body once, as a profile or as a refusal with the number of its      *)
(* line, the bound on the profiles included; and the strict import takes a *)
(* body exactly when the lenient one refuses nothing of it, with the same  *)
(* profiles (import_subscription_partial, import_subscription).            *)
LinesAccounted ==
  (partial # None /\ body.form # "unreadable") =>
    /\ partial # Refused =>
         /\ Len(partial.profiles) + Len(partial.rejected) = LineCount(body)
         /\ Len(partial.profiles) <= MaxProfiles
         /\ body.form = "lines" =>
              /\ \A i \in DOMAIN partial.rejected : body.lines[partial.rejected[i]] # None
              /\ \A i, j \in DOMAIN partial.rejected : i < j => partial.rejected[i] < partial.rejected[j]
    /\ (strict # Refused) = (partial # Refused /\ (partial # Refused => partial.rejected = <<>>))
    /\ strict # Refused => strict = partial.profiles

Credential(c) == IF c.kind \in {"Vless", "Vmess"} THEN c.uuid ELSE c.password
(* ClashKeepsMeaning: a profile that a Clash node becomes reaches the      *)
(* node's server with the node's credential, verifies the server as the    *)
(* node asks and rides on the node's transport, although the node is       *)
(* rewritten to a share link on the way (share_link, import_link).         *)
ClashKeepsMeaning ==
  (partial \notin {None, Refused} /\ body.form = "clash") =>
    \A i \in DOMAIN body.nodes :
      LET n == body.nodes[i]
          p == ImportNode(n)
      IN  p # Refused =>
            /\ p.outbound.server = n["server"] /\ p.outbound.port = n["port"]
            /\ Credential(p.outbound) = n[IF n["type"] \in {"vless", "vmess"} THEN "uuid" ELSE "password"]
            /\ n["type"] # "ss" =>
                 /\ p.outbound.tls.insecure = Get(n, "skip-cert-verify", FALSE)
                 /\ IF Has(n, "reality-opts") THEN {p.outbound.reality.server_name} = ServerNames(n)
                    ELSE /\ p.outbound.tls.enabled = NodeTls(n)
                         /\ ServerNames(n) \ {""} \in {{}, {p.outbound.tls.server_name}}
            /\ Has(n, "ws-opts") => p.outbound.transport.type = "websocket" /\ p.outbound.transport.path = Get(n["ws-opts"], "path", "/")
            /\ n["type"] = "ss" => p.outbound.udp = Get(n, "udp", TRUE)

(* ClashNodesImport: a Clash node of each kind that the client lists, with *)
(* nothing but its server and its credential, imports (import_yaml,        *)
(* share_link, import_link).                                               *)
ClashNodesImport ==
  (partial # None /\ body.form = "clash" /\ body.root = {"proxies"}) =>
    \A i \in DOMAIN body.nodes :
      LET n == body.nodes[i] IN
        (n["type"] \in DOMAIN NodeKeys /\ DOMAIN n \subseteq CommonKeys \cup {"cipher", "password", "uuid"} /\ n["port"] # 0 /\ Get(n, "udp", TRUE)) =>
          ImportNode(n) # Refused

TransportOf(c) == c.transport.type
(* ShapeAgrees: the shape read off a link without importing it never       *)
(* contradicts the profile that the link imports as, and the search for a  *)
(* scheme returns a profile of that scheme (inspect_link_shape,            *)
(* import_first_profile_by_scheme).  The shape of a Trojan link leaves its *)
(* transport out.                                                          *)
ShapeAgrees ==
  (partial # None /\ body.form = "lines") =>
    /\ \A i \in DOMAIN body.lines :
         LET shape == inspect_link_shape(body.lines[i])
             p == import_link(body.lines[i])
         IN  body.lines[i] # None /\ p # Refused =>
               /\ shape.scheme = p.outbound.kind
               /\ shape.scheme \in {"Vless", "Vmess"} =>
                    /\ shape.transport \in {"Other", TransportOf(p.outbound)}
                    /\ shape.security = "Tls" <=> p.outbound.tls.enabled
               /\ shape.scheme = "Vless" => (shape.security = "Reality" <=> p.outbound.reality # None) /\ (shape.flow = "Vision" <=> p.outbound.flow # None)
    /\ \A scheme \in {"Vless", "Vmess", "Trojan", "Shadowsocks"} :
         LET p == import_first_profile_by_scheme(body.lines, scheme) IN p # Refused => p.outbound.kind = scheme
=============================================================================
