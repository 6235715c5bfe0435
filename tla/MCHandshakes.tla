---------------------------- MODULE MCHandshakes ----------------------------
(***************************************************************************)
(* Handshakes and what goes on the wire, for TLC: the dialogues of every   *)
(* outbound, WireGuard's messages and REALITY's client.  `part` says which *)
(* of them a behaviour is about; the others rest.                          *)
(***************************************************************************)
EXTENDS Dialogues, TunnelMessages, RealityLayer

CONSTANTS MaxNow, MaxLog

VARIABLE part
MCVars == <<part, talkVars, shapingVars, noiseVars, rl, tables>>

PlainTls == [enabled |-> FALSE, pin |-> "none", insecure |-> FALSE, min |-> 12, max |-> 13, ech |-> "off", fingerprint |-> FALSE,
             curves |-> <<>>, classical |-> FALSE]
WebTls == [PlainTls EXCEPT !.enabled = TRUE]
MCTls ==
  {[WebTls EXCEPT !.pin = pin, !.insecure = insecure] : pin \in {"none", "spki", "certificate", "both", "short"}, insecure \in BOOLEAN}
    \cup {[WebTls EXCEPT !.ech = ech, !.min = min] : ech \in {"grease", "required", "garbled"}, min \in {12, 13}}
    \cup {[WebTls EXCEPT !.fingerprint = TRUE, !.max = max] : max \in {12, 13}}
    \cup {[WebTls EXCEPT !.curves = <<"X25519">>, !.min = 13, !.max = max] : max \in {12, 13}}
    \cup {[PlainTls EXCEPT !.pin = pin] : pin \in {"none", "spki"}}
Plain ==
  [proto |-> "socks", tls |-> PlainTls, transport |-> "raw", reality |-> FALSE, enc |-> "none", flow |-> "none", packets |-> "xudp",
   user |-> "none", timers |-> TRUE, alpn |-> TRUE, padding |-> FALSE, udp |-> TRUE, datagram |-> FALSE, loopback |-> TRUE,
   host |-> "clear", alter_id |-> 0, bridge |-> "none", pt |-> FALSE]
Users == {"none", "named", "half", "long", "colon"}
Over1(proto) == [Plain EXCEPT !.proto = proto]
Secure(proto) == [Over1(proto) EXCEPT !.tls = WebTls]
Transports == {"raw", "ws", "httpupgrade", "http2", "xhttp", "grpc"}
MCProfiles ==
  {[Plain EXCEPT !.user = u, !.timers = t] : u \in Users, t \in BOOLEAN}
    \cup {[Over1("i2p") EXCEPT !.user = u, !.host = h, !.loopback = l] : u \in {"none", "named", "half"}, h \in {"i2p", "clear", "bad"}, l \in BOOLEAN}
    \cup {[Over1("http") EXCEPT !.tls = tls, !.user = u] : tls \in MCTls, u \in {"none", "named", "colon"}}
    \cup {[Secure("naive") EXCEPT !.user = u, !.padding = pad, !.alpn = a] : u \in {"none", "named", "half"}, pad \in BOOLEAN, a \in BOOLEAN}
    \cup {[Over1(proto) EXCEPT !.tls = tls, !.transport = tr, !.timers = tm, !.datagram = d] :
            proto \in {"trojan", "vmess", "shadowsocks"}, tls \in {PlainTls, WebTls}, tr \in Transports, tm \in BOOLEAN, d \in BOOLEAN}
    \cup {[Over1("vmess") EXCEPT !.alter_id = 1]}
    \cup {[Over1("vless") EXCEPT !.tls = tls, !.reality = r, !.transport = tr, !.enc = e, !.flow = f, !.packets = k, !.datagram = d, !.host = h] :
            tls \in {PlainTls, WebTls}, r \in BOOLEAN, tr \in {"raw", "ws", "xhttp"}, e \in {"none", "ticket", "fresh"},
            f \in {"none", "xtls-rprx-vision", "xtls-rprx-direct"}, k \in {"xudp", "packetaddr"}, d \in BOOLEAN, h \in {"clear", "quic"}}
    \cup {[Secure(proto) EXCEPT !.timers = t, !.tls = tls] : proto \in {"hysteria2", "tuic", "anytls"}, t \in BOOLEAN, tls \in MCTls \ {PlainTls}}
    \cup {[Over1("tor") EXCEPT !.bridge = b, !.pt = pt] : b \in {"none", "obfs4", "garbled"}, pt \in BOOLEAN}

(* REALITY servers: the flight as tokens, the certificate in two parts,   *)
(* cut into records by the server as it likes.                             *)
RealityProfiles == {[groups |-> {"x25519"}, suites |-> {"aes128"}, reuse |-> FALSE, public |-> "server"],
                    [groups |-> {"x25519", "x25519mlkem768"}, suites |-> {"aes128"}, reuse |-> TRUE, public |-> "server"]}
GoodHello == [session |-> "echoed", random |-> "fresh", version |-> "tls13", group |-> "x25519", suite |-> "aes128"]
BadHellos == {[GoodHello EXCEPT !.session = "other"], [GoodHello EXCEPT !.random = "retry"], [GoodHello EXCEPT !.version = "tls12"],
              [GoodHello EXCEPT !.group = "secp256r1"], [GoodHello EXCEPT !.suite = "aes256"]}
ServerKeys(p, group) == derive_handshake_keys(<<"shared", IF group \in p.groups THEN Hello(p).exchange[group] ELSE <<"private", group>>, group>>, <<"CH", "SH">>)
Token(m, of) == [m |-> m, of |-> of, auth |-> <<"none">>, key |-> "none", over |-> <<>>, data |-> <<"none">>]
Ee == Token("ee", 1)
Cert(auth) == [Token("cert", 2) EXCEPT !.auth = auth, !.key = "leaf"]
Cv(key) == [Token("cv", 1) EXCEPT !.over = <<"CH", "SH", "ee", "cert">>, !.key = key]
Fin(ks, over) == [Token("fin", 1) EXCEPT !.data = compute_finished_verify_data(ks.server, over)]
AllBut == <<"CH", "SH", "ee", "cert", "cv">>
Flights(ks, auth) ==
  LET cert == Cert(auth) IN
  {<<Ee, cert, cert, Cv("leaf"), Fin(ks, AllBut)>>, <<Ee, Cert(<<"site">>), Cert(<<"site">>), Cv("leaf"), Fin(ks, AllBut)>>,
   <<Ee, cert, cert, Cv("other"), Fin(ks, AllBut)>>, <<Ee, cert, cert, Cv("leaf"), Fin(ks, Tail(AllBut))>>,
   <<cert, cert, Ee, Cv("leaf"), Fin(ks, AllBut)>>, <<Ee, Token("zip", 1), Cv("leaf"), Fin(ks, AllBut)>>,
   <<Ee, cert, cert, Cv("leaf"), Fin(ks, AllBut), Token("ticket", 1)>>}
GoodFlight(ks, auth) == <<Ee, Cert(auth), Cert(auth), Cv("leaf"), Fin(ks, AllBut)>>
(* Tokens two to a record, or with the first alone, or one by one. *)
Cut(tokens, layout) ==
  CASE layout = "pairs" -> [n \in 1 .. (Len(tokens) + 1) \div 2 |-> SubSeq(tokens, 2 * n - 1, IF 2 * n <= Len(tokens) THEN 2 * n ELSE Len(tokens))]
    [] layout = "odd" -> <<SubSeq(tokens, 1, 1)>> \o [n \in 1 .. Len(tokens) \div 2 |-> SubSeq(tokens, 2 * n, IF 2 * n + 1 <= Len(tokens) THEN 2 * n + 1 ELSE Len(tokens))]
    [] layout = "ones" -> [n \in 1 .. Len(tokens) |-> <<tokens[n]>>]
FlightRecords(cut, ks) ==
  [n \in 1 .. Len(cut) |-> [type |-> "application", len |-> 1 + Len(cut[n]), key |-> derive_traffic_keys(ks.server), seq |-> n - 1, inner |-> "hs", body |-> cut[n]]]
HelloRecord(hello) == [type |-> "handshake", len |-> 2, hello |-> hello, key |-> <<"none">>, seq |-> 0, inner |-> "hello", body |-> <<>>]
Ccs == [type |-> "ccs", len |-> 2, key |-> <<"none">>, seq |-> 0, inner |-> "ccs", body |-> <<>>]
Tails == {<< <<"app", 2>>, <<"app", 1>>, <<"app", 2>>, <<"app", 1>>, <<"close", 1>>, <<"app", 1>> >>, << <<"warning", 1>>, <<"app", 2>>, <<"app", 2>> >>,
          << <<"app", 2>>, <<"ticket", 1>> >>, << <<"app", 1>>, <<"fatal", 1>> >>}
TailRecords(tail, ks) ==
  [n \in 1 .. Len(tail) |-> [type |-> "application", len |-> 1 + tail[n][2], seq |-> n - 1, inner |-> tail[n][1],
     key |-> derive_traffic_keys(derive_application_secrets(ks.master, <<"CH", "SH", "ee", "cert", "cv", "fin">>).server),
     body |-> [i \in 1 .. tail[n][2] |-> <<n, i>>]]]
Scripts(p) ==
  LET ks == ServerKeys(p, "x25519") auth == Hello(p).auth IN
  {<<HelloRecord(h)>> \o FlightRecords(Cut(GoodFlight(ServerKeys(p, h.group), auth), "pairs"), ServerKeys(p, h.group)) : h \in BadHellos}
    \cup {<<HelloRecord(GoodHello), Ccs>> \o FlightRecords(Cut(f, layout), ks) : f \in Flights(ks, auth), layout \in {"pairs", "odd"}}
    \cup {<<HelloRecord(GoodHello)>> \o FlightRecords(Cut(GoodFlight(ks, auth), layout), ks) \o TailRecords(tail, ks) :
             tail \in {t \in Tails : ~p.reuse}, layout \in {"pairs", "odd", "ones"}}

TalkRests == talk = [Begin(Plain, Refused("Rest")) EXCEPT !.pc = "failed"]
ShadowRests == shadow = NewHandshake(FALSE)
DriverRests == driver = [NewDriver(FALSE, FALSE) EXCEPT !.up = FALSE]

MCInit ==
  /\ part \in {"talk", "shadow", "driver", "shaping", "salamander", "noise", "disguise", "reality", "hellos", "parrots"}
  /\ IF part = "talk" THEN \E p \in MCProfiles : talk = Begin(p, Connect(p)) ELSE TalkRests
  /\ IF part = "shadow"
     THEN \E tls \in {WebTls, [WebTls EXCEPT !.min = 13]}, max \in {12, 13}, t \in BOOLEAN :
            shadow = NewHandshake(validate_runtime_config([Plain EXCEPT !.tls = [tls EXCEPT !.max = max], !.timers = t]))
     ELSE ShadowRests
  /\ IF part = "driver" THEN \E idle, permit \in BOOLEAN : driver = NewDriver(idle, permit) ELSE DriverRests
  /\ ShapingInit
  /\ NoiseInit /\ (part = "noise" \/ identity.initiator = identity.responder)
  /\ IF part = "reality" THEN \E p \in RealityProfiles, garble \in {3, 9} : \E s \in Scripts(p) : rl = Connection(p, s, garble)
     ELSE rl = [Connection(CHOOSE p \in RealityProfiles : TRUE, <<>>, 9) EXCEPT !.ended = "rest"]
  /\ tables = TablesBegin

(* Documents: a fresh table for two names, one of them unknown or wrong.  *)
NoEch == [kdf |-> "absent", suites |-> {}, lens |-> {}]
GoodEch == [kdf |-> "sha256", suites |-> {"aes128"}, lens |-> {128, 224}]
Entry(p) == [name |-> p.name, declared |-> TRUE, unreadable |-> "none", ech |-> IF SlotsOf(p, "ech") = <<>> THEN NoEch ELSE GoodEch, profile |-> p]
OtherTable(p) == [p EXCEPT !.permute = ~@]
WithShares(p, list) == [p EXCEPT !.extensions = [n \in 1 .. Len(@) |-> IF @[n].kind = "key_share" THEN KeyShare(list) ELSE @[n]]]
MCEntries ==
  {Entry(OtherTable(p)) : p \in {CHROME_156, FIREFOX_148}} \cup {[Entry(FIREFOX_148) EXCEPT !.declared = FALSE], [Entry(IOS_14) EXCEPT !.unreadable = "frozen"], [Entry(SAFARI_26_3) EXCEPT !.unreadable = "key_shares"]}
    \cup {Entry(WithShares(CHROME_156, <<"x25519">>)), Entry(WithShares(IOS_14, <<"GREASE", "x25519mlkem768">>)), Entry(WithShares(EDGE_85, <<"secp256r1">>)),
          Entry(WithShares(FIREFOX_153, <<"secp384r1">>))}
    \cup {[Entry(CHROME_131) EXCEPT !.ech = e] : e \in {NoEch, [GoodEch EXCEPT !.lens = {225}], [GoodEch EXCEPT !.suites = {}]}}
    \cup {[Entry(IOS_14) EXCEPT !.name = "netscape_4"], Entry([QQ_11_1 EXCEPT !.suites = Tail(Decorative(<<\h1301>>))]),
          Entry([IOS_14 EXCEPT !.extensions = <<Padding>> \o @]), Entry([SAFARI_26_3 EXCEPT !.extensions = Tail(@)])}
MCDocuments == {[digest |-> es, size |-> "within", schema |-> schema, entries |-> es] :
                  es \in {<<e>> : e \in MCEntries} \cup {<<Entry(OtherTable(CHROME_133)), e>> : e \in MCEntries} \cup {<<Entry(IOS_14), Entry(IOS_14)>>}, schema \in {1, 2}}
MCDraws == {[n \in 1 .. 20 |-> k * n + c] : k \in {0, 1, 3}, c \in {0, 2}}
MCSeeds == {<<0, 0, 0, 0, 0>>, <<1, 1, 2, 7, 7>>}
HelloNext ==
  \/ \E d \in MCDocuments : install_into(d)
  \/ clear_fingerprint_tables
  \/ \E name \in Names \ {"chrome_151", "chrome_133", "safari_26_3"}, seed \in MCSeeds, draws \in {d \in MCDraws : d[1] \in {0, 5}} : connect_with(name, seed, draws)
MCFlips == [p521 : BOOLEAN, alpn : BOOLEAN, status : BOOLEAN, sct : {TRUE}, reneg : BOOLEAN, ems : {FALSE}, alps : BOOLEAN]
(* Every table shipped, every randomized draw and every length pads and    *)
(* validates as it must.                                                    *)
ParrotsSound ==
  part = "parrots" => /\ \A n \in 1 .. Len(Compiled) : validate_hello(Compiled[n]) /\ AuthReadable(Compiled[n])
                      /\ \A flips \in MCFlips, draws \in MCDraws, drop \in {{}, {1}, {1, 2, 3}, {2, 5}} : RandomizedSound(flips, draws, drop)
                      /\ \A n \in 200 .. 600 : PaddingLeavesWindow(n)

ShapingNext ==
  \/ \E local \in {0, 4}, header \in {"auto", "words", "zero", "two", "nine", "overflow"} : apply(local, header)
  \/ on_sent
  \/ Len(clock.log) < MaxLog /\ (on_ack(1) \/ on_congestion_event(1))
  \/ \E bytes \in {1, 5} : try_send(bytes)
  \/ clock.now < MaxNow /\ TimeGoes

MCNext ==
  /\ UNCHANGED part
  /\ \/ part = "talk" /\ TalkNext /\ UNCHANGED <<shapingVars, noiseVars, rl, tables>>
     \/ part = "shadow" /\ ShadowNext /\ UNCHANGED <<shapingVars, noiseVars, rl, tables>>
     \/ part = "driver" /\ DriverNext /\ UNCHANGED <<shapingVars, noiseVars, rl, tables>>
     \/ part = "shaping" /\ ShapingNext /\ UNCHANGED <<talkVars, noiseVars, rl, tables>>
     \/ part = "noise" /\ NoiseNext /\ UNCHANGED <<talkVars, shapingVars, rl, tables>>
     \/ part = "reality" /\ RealityNext /\ UNCHANGED <<talkVars, shapingVars, noiseVars, tables>>
     \/ part = "hellos" /\ HelloNext /\ UNCHANGED <<talkVars, shapingVars, noiseVars, rl>>

MCSpec == MCInit /\ [][MCNext]_MCVars /\ DialogueFairness
(* The REALITY connection alone. *)
RealitySpec == MCInit /\ part = "reality" /\ [][MCNext]_MCVars

MCDatagrams == UNION {[1 .. n -> {"a", "b"}] : n \in 0 .. 2}
(* Two bytes of payload either side suffice: pieces are cut by stride.     *)
SalamanderInverts == part = "salamander" => \A first, second \in MCDatagrams : SalamanderGivesBack(first, second)
(* The largest datagram the runs send is five units.                       *)
UploadShaped == UploadWithinAgreement(5)

Ranges(a, b, c, d) == [initiation |-> HeaderRange(a, a), response |-> HeaderRange(b, b), cookie |-> HeaderRange(c, c), transport |-> HeaderRange(d, d + 1)]
MCParams ==
  {[junk |-> [initiation |-> i, response |-> r, cookie |-> c, transport |-> t], header |-> h, random_trailers |-> trailers,
    addition |-> HeaderRange(0, 0), junk_packet_count |-> 1, junk_min_size |-> 0, junk_max_size |-> 1] :
     i \in {0, 1}, r \in {0, 2, 3}, c \in {0, 3}, t \in {0, 1}, trailers \in BOOLEAN,
     h \in {Ranges(0, 1, 2, 3), Ranges(3, 0, 0, 1), Ranges(0, 1, 0, 2)}}
MCHeads == {[n \in 0 .. 3 |-> IF n = 0 THEN a ELSE IF n = 1 THEN b ELSE c] : a, b, c \in {0, 1, 3}}
MCTakenForWhatItIs ==
  \A params \in MCParams, kind \in {"response", "cookie", "transport"}, head \in MCHeads :
                         TakenForWhatItIs(params, kind, 7, head)
MCWithinBounds ==
    \A params \in {[p EXCEPT !.addition = HeaderRange(a, 3)] : p \in {q \in MCParams : ~q.random_trailers}, a \in {0, 2}} \cup MCParams,
       packet \in 0 .. 3, window \in 0 .. 5, draw \in 0 .. 3, low \in {0, 2} : WithinBounds(params, packet, window, draw, 4, low, 3 - low)
MCTexts == [key : {"b", "t", "r", "dz", "ds", "x"}, argument : {"none", "count"}, n : 0 .. 2]
MCTemplateKept == \A spec \in UNION {[1 .. n -> MCTexts] : n \in 0 .. 2} : TemplateKept(spec)
(* What the tunnel disguises is recognised, padded and templated without   *)
(* loss: junk sizes that make lengths collide, headers in every order, any *)
(* bytes ahead; windows either side of what a packet needs; templates of   *)
(* up to two tags, readable, empty, unknown or too long.                   *)
DisguiseSound == part = "disguise" => MCTakenForWhatItIs /\ MCWithinBounds /\ MCTemplateKept

(* Nothing is handed over on an unproven peer: a dialogue hands its stream *)
(* out after the server agreed and sends secrets only inside the layers    *)
(* meant to hide them; ShadowTLS switches on a proof; REALITY completes on *)
(* its certificate, its signature and its Finished; WireGuard's two ends   *)
(* derive the same keys.                                                   *)
TrustBeforeUse ==
  HandedAfterYes /\ SecretsInside /\ OnlyProvenSwitches /\ OnlyRealityCompletes /\ KeysAgree

(* What the two ends put on the wire is read back: REALITY's records,      *)
(* every hello table, AmneziaWG's disguise and Salamander's; the upload    *)
(* stays within what was agreed; a peer that answers is not given up.      *)
WireSound ==
  /\ RealityStreams /\ EveryHelloBuilt /\ ParrotsSound /\ DisguiseSound
  /\ UploadShaped /\ SalamanderInverts /\ LivePeerKept

(* A connect ends whatever the server does, but for the reads of a fresh   *)
(* VLESS encryption handshake, which nothing times; and the task behind a  *)
(* gRPC stream tells its stream.                                           *)
TalksEnd == ConnectsEnd /\ DriverTells
=============================================================================
