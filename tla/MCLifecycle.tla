----------------------------- MODULE MCLifecycle -----------------------------
(***************************************************************************)
(* What a generation is started from and how it ends, for TLC: the calls   *)
(* on a RuntimeWorker, or a small instance of EngineConfig or of one of    *)
(* the imports of Subscription.  Every input is a working document or link *)
(* with up to two of its fields changed, so that each rule meets every     *)
(* other rule.                                                             *)
(***************************************************************************)
EXTENDS RuntimeWorker, EngineConfig, Subscription

VARIABLE part      \* "worker", "engine", "link" or "subscription"
profileVars == <<configVars, linkVars, subscriptionVars>>
mcVars == <<part, vars, profileVars>>

-----------------------------------------------------------------------------
MCVless ==
  [kind |-> "Vless", server |-> "edge", port |-> 443, server_ip |-> None, uuid |-> "id", flow |-> None, transport |-> Raw,
   packet_encoding |-> "none", tls |-> TlsDefault, reality |-> None, encryption |-> None]
MCWireguard ==
  [kind |-> "Wireguard", server |-> "peer", port |-> 51820, server_ip |-> None, private_key |-> "key",
   peer_public_key |-> "key", preshared_key |-> None, address |-> {"10.0.0.2/32"}, allowed_ips |-> FullRoute, mtu |-> 1420,
   amnezia |-> None]
MCTor ==
  [kind |-> "Tor", state_dir |-> "state", cache_dir |-> "cache", bootstrap_timeout_s |-> 60, stream_connect_timeout_s |-> 30,
   max_dirtiness_s |-> 600, request_timeout_s |-> 60, request_max_retries |-> 8, bridges |-> <<None>>, transports |-> <<>>,
   upstream |-> None]
MCI2p ==
  [kind |-> "I2p", loopback |-> TRUE, port |-> 4447, username |-> None, password |-> None, connect_timeout_ms |-> 1000,
   handshake_timeout_ms |-> 1000]
MCSelector ==
  [kind |-> "Selector", members |-> <<[id |-> "a", outbound |-> MCVless], [id |-> "b", outbound |-> MCVless]>>, default |-> "b",
   member_timeout_ms |-> None, probe |-> None]
MCDns ==
  [mode |-> "FakeIp", route |-> "Primary", advertise |-> "10.0.0.1", upstream |-> None, upstreams |-> <<>>,
   blocklist |-> [names |-> <<>>, categories |-> <<>>, bypass |-> <<>>], rule_sets |-> <<>>, cache_size |-> 1024,
   timeout_ms |-> 5000, max_response_bytes |-> 4096, fake_ttl_s |-> 60, ipv4_bits |-> 17, ipv6_bits |-> 64]
MCTraffic ==
  [default_action |-> "Primary", applications |-> <<>>, known_apps |-> <<>>, quarantine_new_apps |-> FALSE,
   tor_enabled |-> None, i2p_enabled |-> None, confirmation_timeout_ms |-> 0]
MCRuntime ==
  [f \in DOMAIN RuntimeLimits |-> RuntimeLimits[f][1]] @@ [local_guard |-> FALSE, control_proxy |-> None, loopback_inbounds |-> <<>>]
MCListener == [name |-> "app", http_port |-> 8080, allow_anonymous |-> FALSE, username |-> "u", password |-> "p", max_sessions |-> 8]
MCDocument ==
  [schema_version |-> 1, tun |-> [mtu |-> 1500, ipv4 |-> "10.0.0.2/24", ipv6 |-> None], outbound |-> MCVless, outbounds |-> <<>>,
   dns |-> MCDns, bootstrap_dns |-> None, runtime |-> MCRuntime, routes |-> <<>>, traffic |-> MCTraffic]
MCTorLane == [id |-> "tor", outbound |-> MCTor]
MCI2pLane == [id |-> "i2p", outbound |-> MCI2p]
MCOutboundLists == {<<>>, <<MCTorLane>>, <<MCI2pLane>>, <<MCTorLane, MCI2pLane>>, <<[id |-> "far", outbound |-> MCVless]>>}
MCOddLists ==
  {<<[id |-> id, outbound |-> profile]>> :
     id \in {"far", "tor", "i2p", "primary"},
     profile \in {MCVless, MCWireguard, MCI2p, MCSelector,
                 [MCSelector EXCEPT !.members[1].outbound = MCWireguard], [MCSelector EXCEPT !.default = "c"]} \cup
                {[MCTor EXCEPT !.upstream = u] : u \in {None, MCVless, MCSelector, MCTor}}}
(* An AmneziaWG block whose sizes, counts, templates and headers stand on  *)
(* either side of their bounds.                                            *)
MCObfuscated ==
  [header_protection_key |-> None, junk_count |-> 1, junk_min |-> 0, junk_max |-> 1280, init_junk |-> 12, response_junk |-> 12,
   cookie_junk |-> 12, transport_junk |-> 12, content_padding_addition |-> None, random_trailers |-> FALSE, init_packets |-> <<>>,
   timers |-> <<>>, headers |-> [i \in 1..4 |-> [start |-> 10 * i, end |-> 10 * i + 9]]]
MCObfuscations ==
  {[MCObfuscated EXCEPT !.junk_count = junk[1], !.junk_min = junk[2], !.junk_max = junk[3]] :
     junk \in {<<0, 2, 0>>, <<1, 0, 0>>, <<1, 2, 1>>, <<128, 1280, 1280>>, <<129, 0, 1>>, <<1, 0, 1281>>}} \cup
  {[MCObfuscated EXCEPT !.header_protection_key = prefix[1], !.cookie_junk = prefix[2]] :
     prefix \in {<<"zero", 11>>, <<"key", 11>>, <<"key", 12>>, <<"bad", 12>>, <<None, 1281>>}} \cup
  {[MCObfuscated EXCEPT !.init_packets = <<length>>] : length \in {0, 1280, 1281, Malformed}} \cup
  {[MCObfuscated EXCEPT !.headers[2].start = 19]}
MCBootstrap ==
  [domains |-> <<"edge">>, upstreams |-> <<[type |-> "Udp", address |-> "ip:port"]>>, timeout_ms |-> 1000, max_candidates |-> 2]
MCDocuments ==
  {[MCDocument EXCEPT !.outbound = primary, !.outbounds = lanes, !.dns.mode = mode, !.dns.route = "Direct"] :
     primary \in {MCVless, MCWireguard, MCTor, MCI2p, MCSelector}, lanes \in MCOutboundLists, mode \in {"FakeIp", "Forward"}} \cup
  {[MCDocument EXCEPT !.runtime.loopback_inbounds = <<MCListener, [MCListener EXCEPT !.name = name, !.http_port = port, !.username = "v", !.password = secret]>>] :
     name \in {"app", "other"}, port \in {None, 8080}, secret \in {"p", "q"}} \cup
  {[MCDocument EXCEPT !.outbounds = lanes] : lanes \in MCOddLists} \cup
  {[MCDocument EXCEPT !.outbound = [MCWireguard EXCEPT !.amnezia = block], !.dns.mode = "Forward", !.dns.route = "Direct"] :
     block \in MCObfuscations} \cup
  {[MCDocument EXCEPT !.bootstrap_dns = [MCBootstrap EXCEPT !.domains = domains, !.timeout_ms = timeout]] :
     domains \in {<<"edge">>, <<"far">>, <<"edge", "edge">>}, timeout \in {499, 500}}
MCRule(action, package) ==
  [uid |-> None, package |-> package, domains |-> <<>>, ports |-> [start |-> 1, end |-> 1], lists |-> TRUE, action |-> action]
MCPolicies ==
  {[dns |-> [MCDns EXCEPT !.mode = mode, !.route = route, !.advertise = advertise],
    routes |-> routes,
    traffic |-> [MCTraffic EXCEPT !.tor_enabled = overlays[1], !.i2p_enabled = overlays[2], !.default_action = default]] :
     mode \in {"FakeIp", "Forward"}, route \in {"Primary", "Direct", "Tor"}, advertise \in {None, "10.0.0.1"},
     overlays \in {<<None, None>>, <<None, FALSE>>, <<TRUE, FALSE>>, <<FALSE, TRUE>>}, default \in {"Primary", "Tor"},
     routes \in {<<>>, <<MCRule([type |-> "Outbound", id |-> "far"], None)>>, <<MCRule([type |-> "Tor"], "app")>>, <<MCRule([type |-> "I2p"], None)>>}}

-----------------------------------------------------------------------------
(* A link with the options of a set of pairs <<option, value>>.            *)
With(l, pairs) ==
  [l EXCEPT !.query = [o \in DOMAIN l.query \cup {p[1] : p \in pairs} |->
                         IF \E p \in pairs : p[1] = o THEN (CHOOSE p \in pairs : p[1] = o)[2] ELSE l.query[o]]]
MCBase(scheme, query) ==
  [scheme |-> scheme, user |-> "id", password |-> None, host |-> "edge", port |-> 443, path |-> "", query |-> query,
   credentials |-> [method |-> "aes", password |-> "id"]]
MCRange == [start |-> 5, end |-> 9]
MCReality == "security" :> "reality" @@ "pbk" :> "key" @@ "sni" :> "name"
MCVlessBases ==
  {MCBase("vless", q) :
     q \in {<<>>, "security" :> "tls", MCReality, MCReality @@ "flow" :> "xtls-rprx-vision",
            "security" :> "tls" @@ "type" :> "grpc", "type" :> "ws"}}
MCVlessOptions ==
  ({"alpn"} \X {<<"h2">>, <<"", "h2">>}) \cup ({"encryption"} \X {Malformed}) \cup
  ({"type"} \X {"tcp", "ws", "httpupgrade", "xhttp", "grpc", "h2", "kcp"}) \cup ({"security"} \X {"none", "tls", "reality", "xtls"}) \cup
  ({"flow"} \X {"none", "xtls-rprx-vision", "other"}) \cup ({"packetencoding"} \X {"none", "xudp", "packetaddr"}) \cup
  ({"fp"} \X {"", "chrome", "chrome_151", "qq", "360"}) \cup ({"mode"} \X {"multi", "stream-one", "auto"}) \cup
  ({"headertype"} \X {"none", "http"}) \cup ({"path"} \X {"", "/p"}) \cup ({"host"} \X {"", "h"}) \cup
  ({"insecure", "allowinsecure", "mux", "permit_without_stream"} \X {"0", "1", "bad"}) \cup
  ({"idle_timeout", "health_check_timeout"} \X {-1, 5, 20, 90000, Malformed}) \cup
  ({"idle_timeout_ms", "health_check_timeout_ms", "initial_windows_size"} \X {0, 20000, 90000000}) \cup
  ({"sni", "peer", "pin", "authority", "servicename", "rpc_path", "user_agent", "pbk", "sid", "spx"} \X {"", "x", "bad"}) \cup
  ({"server_ip"} \X {"ip", "bad"}) \cup ({"unknown", "method"} \X {"x"})
MCVmessBase(net) == MCBase("vmess", "add" :> "edge" @@ "port" :> 443 @@ "id" :> "uuid" @@ "net" :> net)
MCVmessFields ==
  ({"net"} \X {"tcp", "ws", "httpupgrade", "h2", "grpc", "kcp"}) \cup ({"tls"} \X {"", "tls", "reality"}) \cup
  ({"scy", "security"} \X {"", "auto", "aes-128-gcm", "rc4"}) \cup ({"type"} \X {"none", "multi", "http"}) \cup
  ({"path", "host", "sni", "fp", "id", "add", "pbk", "user_agent"} \X {"", "x"}) \cup ({"v"} \X {"1", "2"}) \cup
  ({"allowInsecure", "insecure", "mux"} \X {"0", "1", "bad"}) \cup ({"aid", "port"} \X {0, 64}) \cup ({"alpn"} \X {<<"h2">>}) \cup
  ({"packetEncoding"} \X {"none", "xudp"}) \cup ({"tfo", "unknown"} \X {"x"}) \cup ({"idle_timeout"} \X {5, 20})
MCTlsOptions ==
  ({"sni", "peer", "pin", "pinsha256", "pinned_certificate_sha256", "pinned_spki_sha256"} \X {"x", "bad"}) \cup
  ({"insecure", "skip-cert-verify"} \X {"0", "1", "bad"}) \cup ({"alpn"} \X {<<"h2">>}) \cup ({"security"} \X {"tls", "none"}) \cup
  ({"server_ip"} \X {"ip"}) \cup ({"unknown"} \X {"x"})
MCHysteria2Options ==
  MCTlsOptions \cup ({"obfs"} \X {"salamander", "x"}) \cup ({"obfs-password", "fp"} \X {"", "chrome", "other"}) \cup
  ({"mport"} \X {<<MCRange>>, <<[start |-> 9, end |-> 5]>>, <<Malformed>>}) \cup ({"hopinterval", "upmbps"} \X {0, 10, Malformed})
MCTrojanOptions ==
  MCTlsOptions \cup ({"type"} \X {"tcp", "ws", "h2", "grpc"}) \cup ({"method"} \X {"", "GET"}) \cup
  ({"path", "host", "headertype", "servicename"} \X {"none", "x"})
MCProxyOptions == MCTlsOptions \cup ({"padding", "udp"} \X {"0", "1"})
MCPlugins ==
  {None, Malformed, [name |-> "other", options |-> <<>>]} \cup
  {[name |-> name, options |-> options] : name \in {"v2ray-plugin", "obfs-local"},
     options \in {<<>>, <<[key |-> "mux", value |-> "0"]>>, <<[key |-> "mux", value |-> "0"], [key |-> "tls", value |-> ""]>>,
                  <<[key |-> "mux", value |-> "0"], [key |-> "mux", value |-> "0"]>>,
                  <<[key |-> "obfs", value |-> "http"], [key |-> "obfs-host", value |-> "h"], [key |-> "fast-open", value |-> ""]>>,
                  <<[key |-> "obfs", value |-> "tls"], [key |-> "obfs-host", value |-> "h"], [key |-> "obfs-uri", value |-> "/"]>>}}
MCShadowsocksOptions ==
  ({"plugin"} \X MCPlugins) \cup ({"udp"} \X {"0", "1"}) \cup ({"prefix"} \X {"", "x", "bad"}) \cup ({"outline"} \X {"1", "2"}) \cup ({"unknown"} \X {"x"})
MCAmnezia == [o \in ObfuscationKeys |-> IF o \in {"h1", "h2", "h3", "h4"} THEN MCRange ELSE 20]
MCWireguardBases ==
  LET keys == "publickey" :> "key" @@ "address" :> {"10.0.0.2/32"} IN
    {MCBase("wireguard", q) : q \in {keys, keys @@ MCAmnezia, keys @@ "headerprotectionkey" :> "zero"}}
MCWireguardOptions ==
  ({"h1"} \X {MCRange, [start |-> 9, end |-> 5], Malformed}) \cup ({"jc", "jmin", "s1", "s3"} \X {0, 12, 2000, Malformed}) \cup
  ({"headerprotectionkey"} \X {"zero", "key", "bad"}) \cup ({"i1", "i2"} \X {0, 8, Malformed}) \cup ({"mtu"} \X {575, 1420, 1500}) \cup
  ({"reserved"} \X {<<1, 2, 3>>, <<1>>}) \cup ({"address", "addresses", "allowed_ips"} \X {{}, {"10.0.0.3/32"}}) \cup
  ({"rekeytimeout"} \X {MCRange}) \cup ({"dns", "disablecookies", "presharedkey", "public_key"} \X {"x"}) \cup
  ({"advancedsecurity", "randomtrailers"} \X {"0", "1"}) \cup ({"keepalive"} \X {25, Malformed})
(* The links of a set of bases with up to two options changed.             *)
Varied(bases, options) == \E l \in bases : \E p, q \in options : LinkInit(With(l, {p, q}))
MCBare == {MCBase(scheme, <<>>) : scheme \in {"vless", "trojan", "hysteria2", "anytls", "http", "naive+https", "naive", "socks5", "socks4", "ss", "tg"}}
MCLinkInit ==
  \/ Varied(MCVlessBases, MCVlessOptions)
  \/ Varied({MCVmessBase("tcp"), MCVmessBase("grpc"), MCVmessBase("ws")}, MCVmessFields)
  \/ Varied({MCBase("hysteria2", <<>>)}, MCHysteria2Options)
  \/ Varied({MCBase("trojan", <<>>)}, MCTrojanOptions)
  \/ Varied({[MCBase(scheme, <<>>) EXCEPT !.password = "p"] : scheme \in {"http", "https", "naive+https", "socks5"}}, MCProxyOptions)
  \/ Varied({MCBase("anytls", <<>>)}, MCProxyOptions)
  \/ Varied({MCBase("ss", <<>>)}, MCShadowsocksOptions)
  \/ Varied(MCWireguardBases, MCWireguardOptions)
  \/ \E l \in MCBare : \/ LinkInit([l EXCEPT !.user = ""]) \/ LinkInit([l EXCEPT !.password = "p"])
                       \/ LinkInit([l EXCEPT !.host = ""]) \/ LinkInit([l EXCEPT !.port = None])
                       \/ LinkInit([l EXCEPT !.path = "/x"])
MCEntry(key, value) == [key |-> key, value |-> value]
MCFile ==
  <<[section |-> "interface"], MCEntry("privatekey", "key"), MCEntry("address", {"10.0.0.2/32"}), [section |-> "peer"],
    MCEntry("publickey", "key"), MCEntry("endpoint", [host |-> "peer", port |-> 51820])>>
MCFileLines ==
  {Malformed, [section |-> "interface"], [section |-> "peer"], [section |-> "other"], MCEntry("mtu", 1400), MCEntry("mtu", 500), MCEntry("dns", "x"),
   MCEntry("persistentkeepalive", 25), MCEntry("persistentkeepalive", None), MCEntry("headerprotectionkey", "zero"), MCEntry("jc", 4),
   MCEntry("allowedips", {"10.0.0.0/8"}), MCEntry("advancedsecurity", "1"), MCEntry("postup", "x"), MCEntry("presharedkey", "key")}
MCFileInit ==
  \E i \in 1..7, j \in 1..8 : \E a, b \in MCFileLines : LinkInit([lines |-> InsertAt(InsertAt(MCFile, i, a), j, b)])

-----------------------------------------------------------------------------
MCNode(type, more) ==
  more @@ ("type" :> type @@ "server" :> "edge" @@ "port" :> 443 @@
           (IF type \in {"vless", "vmess"} THEN "uuid" :> "id" ELSE "password" :> "id") @@ (IF type = "ss" THEN "cipher" :> "aes" ELSE <<>>))
MCNodeKeys ==
  ({"tls", "skip-cert-verify", "udp"} \X BOOLEAN) \cup ({"network"} \X {"tcp", "ws", "grpc", "h2"}) \cup ({"servername", "sni"} \X {"a", "b"}) \cup
  ({"ws-opts"} \X {"path" :> "/p", "path" :> "/p" @@ "host" :> "h", "early" :> "x"}) \cup
  ({"grpc-opts"} \X {"grpc-service-name" :> "svc", "ping-interval" :> 90000}) \cup
  ({"reality-opts"} \X {"public-key" :> "key", "short-id" :> "1"}) \cup ({"alpn"} \X {<<>>, <<"h2">>, <<"">>}) \cup
  ({"client-fingerprint"} \X {"chrome", "qq"}) \cup ({"flow"} \X {"xtls-rprx-vision"}) \cup ({"port"} \X {0, 80}) \cup ({"alterId", "up"} \X {0, 5}) \cup
  ({"obfs"} \X {"salamander"}) \cup ({"obfs-password"} \X {"x"})
MCKey(p) == p[1] :> p[2]
MCGood == MCBase("trojan", <<>>)
MCLines == {None, Malformed, MCGood, MCBase("tg", <<>>), MCBase("vless", MCReality), MCBase("vless", "type" :> "ws"), MCVmessBase("ws"), MCBase("ss", <<>>)}
MCServers ==
  {Malformed} \cup {[server |-> "edge", port |-> port, method |-> "aes", password |-> "p", plugin |-> plugin] : port \in {0, 443}, plugin \in {"", "obfs"}}
MCClash(root, nodes) == SubscriptionInit([form |-> "clash", root |-> root, nodes |-> nodes])
MCBodyInit ==
  \/ \E n \in 0..4 : \E lines \in [1..n -> MCLines] : SubscriptionInit([form |-> "lines", lines |-> lines])
  \/ \E type \in DOMAIN NodeKeys : \E p, q \in MCNodeKeys : \E r \in {<<"network", "ws">>, <<"tls", TRUE>>, <<"name", "n">>} :
       MCClash({"proxies"}, <<MCNode(type, MCKey(p) @@ MCKey(q) @@ MCKey(r))>>)
  \/ \E root \in {{"proxies"}, {"proxies", "rules"}, {"proxies", "proxy-providers"}, Malformed} :
     \E nodes \in {<<>>, <<MCNode("trojan", <<>>), MCNode("ss", <<>>)>>, <<MCNode("tuic", <<>>), MCNode("ss", <<>>)>>,
                   <<MCNode("ss", <<>>), MCNode("ss", <<>>), MCNode("ss", <<>>), MCNode("ss", <<>>)>>} : MCClash(root, nodes)
  \/ \E root \in {Malformed, {"servers"}, {"servers", "version", "bytes_used"}, {"servers", "outbounds"}} :
     \E version \in {None, 1, 2} : \E n \in 0..2 : \E servers \in [1..n -> MCServers] :
       SubscriptionInit([form |-> "json", root |-> root, version |-> version, servers |-> servers])
  \/ SubscriptionInit([form |-> "unreadable"])

-----------------------------------------------------------------------------
NoDocument == document = MCDocument /\ attribution = FALSE /\ phase = "none" /\ reloads = 0 /\ refusal = None
NoLink == link = None /\ imported = None
NoBody == body = None /\ partial = None /\ strict = None
MCInit ==
  /\ Init
  /\ \/ part = "worker" /\ NoDocument /\ NoLink /\ NoBody
     \/ part = "engine" /\ (\E d \in MCDocuments : ConfigInit(d)) /\ NoLink /\ NoBody
     \/ part = "link" /\ (MCLinkInit \/ MCFileInit) /\ NoDocument /\ NoBody
     \/ part = "subscription" /\ MCBodyInit /\ NoDocument /\ NoLink
MCNext ==
  /\ UNCHANGED part
  /\ \/ part = "worker" /\ Next /\ UNCHANGED profileVars
     \/ part = "engine" /\ ConfigNext /\ UNCHANGED <<vars, linkVars, subscriptionVars>>
     \/ part = "link" /\ LinkNext /\ UNCHANGED <<vars, configVars, subscriptionVars>>
     \/ part = "subscription" /\ SubscriptionNext /\ UNCHANGED <<vars, configVars, linkVars>>
MCSpec == MCInit /\ [][MCNext]_mcVars /\ WorkerFairness

-----------------------------------------------------------------------------
(* An import keeps the meaning of what it reads: no option of a link is    *)
(* passed over in silence, every line of a list is an outbound or an error, *)
(* a Clash node means what its link means, and the partial and the strict  *)
(* reading agree.                                                          *)
ImportsKeepMeaning == NoOptionIgnored /\ LinesAccounted /\ ClashKeepsMeaning /\ ShapeAgrees
=============================================================================
