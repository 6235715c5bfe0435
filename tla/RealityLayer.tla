---------------------------- MODULE RealityLayer ----------------------------
(***************************************************************************)
(* REALITY: the ClientHello it parrots, and below it the TLS 1.3           *)
(* handshake and record layer of proto-reality.                            *)
(*                                                                         *)
(* A ClientHello is made from the compiled browser tables, the randomized  *)
(* generator, or the tables a downloaded document may replace them with.   *)
(* An extension slot is [kind, type, list]: list holds groups, shares or   *)
(* versions; the bodies of constant slots are left out.                    *)
(***************************************************************************)
EXTENDS Integers, Sequences, FiniteSets, SequencesExt

VARIABLE tables        \* what install_fingerprint_tables left, and the last hello built

(* Cipher suites: [role, id]. *)
Suites(role, ids) == [n \in 1 .. Len(ids) |-> [role |-> role, id |-> ids[n]]]
GreaseSuite == <<[role |-> "grease", id |-> 0]>>
Negotiable(ids) == Suites("negotiable", ids)
Decorative(ids) == Suites("decorative", ids)
Implemented == {\h1301, \h1302, \h1303}
CHROME_CIPHER_SUITES == GreaseSuite \o Negotiable(<<\h1301, \h1302, \h1303>>)
  \o Decorative(<<\hc02b, \hc02f, \hc02c, \hc030, \hcca9, \hcca8, \hc013, \hc014, \h009c, \h009d, \h002f, \h0035>>)
SAFARI_CIPHER_SUITES == GreaseSuite \o Negotiable(<<\h1302, \h1303, \h1301>>)
  \o Decorative(<<\hc02c, \hc02b, \hcca9, \hc030, \hc02f, \hcca8, \hc00a, \hc009, \hc014, \hc013, \h009d, \h009c, \h0035, \h002f, \hc008, \hc012, \h000a>>)
IOS_CIPHER_SUITES == GreaseSuite \o Negotiable(<<\h1301, \h1302, \h1303>>)
  \o Decorative(<<\hc02c, \hc02b, \hcca9, \hc030, \hc02f, \hcca8, \hc024, \hc023, \hc00a, \hc009, \hc028, \hc027, \hc014, \hc013, \h009d, \h009c,
                  \h003d, \h003c, \h0035, \h002f, \hc008, \hc012, \h000a>>)
FIREFOX_CIPHER_SUITES == Negotiable(<<\h1301, \h1303, \h1302>>)
  \o Decorative(<<\hc02b, \hc02f, \hcca9, \hcca8, \hc02c, \hc030, \hc00a, \hc009, \hc013, \hc014, \h009c, \h009d, \h002f, \h0035>>)
FIREFOX_153_CIPHER_SUITES == Negotiable(<<\h1301, \h1303, \h1302>>)
  \o Decorative(<<\hc02b, \hc02f, \hcca9, \hcca8, \hc02c, \hc030, \hc00a, \hc013, \hc014, \h009c, \h009d, \h002f, \h0035>>)

(* Extension slots. *)
Slot(kind, type, list) == [kind |-> kind, type |-> type, list |-> list]
Constant(type) == Slot("constant", type, <<>>)
Constants(types) == [n \in 1 .. Len(types) |-> Constant(types[n])]
GreaseSlot(n) == Slot("grease", n, <<>>)
ServerName == Slot("server_name", \h0000, <<>>)
Groups(list) == Slot("groups", \h000a, list)
KeyShare(list) == Slot("key_share", \h0033, list)
Alpn == Slot("alpn", \h0010, <<>>)
Versions(list) == Slot("versions", \h002b, list)
SignatureGrease == Slot("signature_grease", \h000d, <<>>)
EchGrease == Slot("ech", \hfe0d, <<>>)
Padding == Slot("padding", \h0015, <<>>)
position_is_pinned(slot) == slot.kind \in {"grease", "padding"}

CHROME_SUPPORTED_GROUPS == <<"GREASE", "x25519mlkem768", "x25519", "secp256r1", "secp384r1">>
CHROME_KEY_SHARES == <<"GREASE", "x25519mlkem768", "x25519">>
CHROME_SUPPORTED_VERSIONS == <<"GREASE", "1.3", "1.2">>
CHROMIUM_FORK_SUPPORTED_GROUPS == <<"GREASE", "x25519", "secp256r1", "secp384r1">>
CHROMIUM_FORK_KEY_SHARES == <<"GREASE", "x25519">>
CHROMIUM_FORK_SUPPORTED_VERSIONS == <<"GREASE", "1.3", "1.2", "1.1", "1.0">>
APPLE_SUPPORTED_GROUPS == <<"GREASE", "x25519mlkem768", "x25519", "secp256r1", "secp384r1", "secp521r1">>
SAFARI_KEY_SHARES == <<"GREASE", "x25519mlkem768", "x25519">>
SAFARI_SUPPORTED_VERSIONS == <<"GREASE", "1.3", "1.2">>
IOS_SUPPORTED_GROUPS == <<"GREASE", "x25519", "secp256r1", "secp384r1", "secp521r1">>
FIREFOX_SUPPORTED_GROUPS == <<"x25519mlkem768", "x25519", "secp256r1", "secp384r1", "secp521r1", "ffdhe2048", "ffdhe3072">>
FIREFOX_KEY_SHARES == <<"x25519mlkem768", "x25519", "secp256r1">>
FIREFOX_SUPPORTED_VERSIONS == <<"1.3", "1.2">>
ChromeEch == [suites |-> {"aes128"}, lens |-> {128, 160, 192, 224}]
FirefoxEch == [suites |-> {"aes128", "chacha20"}, lens |-> {223}]

chrome_extensions(application_settings, signatures) ==
  <<GreaseSlot(1), ServerName>> \o Constants(<<\h0017, \hff01>>) \o <<Groups(CHROME_SUPPORTED_GROUPS)>> \o Constants(<<\h000b, \h0023>>)
    \o <<Alpn, Constant(\h0005), signatures, Constant(\h0012), KeyShare(CHROME_KEY_SHARES), Constant(\h002d), Versions(CHROME_SUPPORTED_VERSIONS)>>
    \o Constants(<<\h001b, application_settings>>) \o <<EchGrease, GreaseSlot(2), Padding>>
HelloProfile(name, suites, extensions, permute, ech, reuse) ==
  [name |-> name, suites |-> suites, extensions |-> extensions, permute |-> permute, ech |-> ech, reuse |-> reuse]
CHROME_156 == HelloProfile("chrome_156", CHROME_CIPHER_SUITES, chrome_extensions(\h44cd, SignatureGrease), TRUE, ChromeEch, FALSE)
CHROME_151 == HelloProfile("chrome_151", CHROME_CIPHER_SUITES, chrome_extensions(\h44cd, Constant(\h000d)), TRUE, ChromeEch, FALSE)
CHROME_133 == HelloProfile("chrome_133", CHROME_CIPHER_SUITES, chrome_extensions(\h44cd, Constant(\h000d)), TRUE, ChromeEch, FALSE)
CHROME_131 == HelloProfile("chrome_131", CHROME_CIPHER_SUITES, chrome_extensions(\h4469, Constant(\h000d)), TRUE, ChromeEch, FALSE)
(* Edge and QQ share all but application_settings. *)
ForkExtensions(settings) ==
  <<GreaseSlot(1), ServerName>> \o Constants(<<\h0017, \hff01>>) \o <<Groups(CHROMIUM_FORK_SUPPORTED_GROUPS)>> \o Constants(<<\h000b, \h0023>>)
    \o <<Alpn>> \o Constants(<<\h0005, \h000d, \h0012>>) \o <<KeyShare(CHROMIUM_FORK_KEY_SHARES), Constant(\h002d), Versions(CHROMIUM_FORK_SUPPORTED_VERSIONS)>>
    \o Constants(<<\h001b>> \o settings) \o <<GreaseSlot(2), Padding>>
EDGE_85 == HelloProfile("edge_85", CHROME_CIPHER_SUITES, ForkExtensions(<<>>), FALSE, ChromeEch, FALSE)
QQ_11_1 == HelloProfile("qq_11_1", CHROME_CIPHER_SUITES, ForkExtensions(<<\h4469>>), FALSE, ChromeEch, FALSE)
SAFARI_26_3 == HelloProfile("safari_26_3", SAFARI_CIPHER_SUITES,
  <<GreaseSlot(1), ServerName>> \o Constants(<<\h0017, \hff01>>) \o <<Groups(APPLE_SUPPORTED_GROUPS), Constant(\h000b), Alpn>> \o Constants(<<\h0005, \h000d, \h0012>>)
    \o <<KeyShare(SAFARI_KEY_SHARES), Constant(\h002d), Versions(SAFARI_SUPPORTED_VERSIONS), Constant(\h001b), GreaseSlot(2)>>, FALSE, ChromeEch, FALSE)
IOS_14 == HelloProfile("ios_14", IOS_CIPHER_SUITES,
  <<GreaseSlot(1), ServerName>> \o Constants(<<\h0017, \hff01>>) \o <<Groups(IOS_SUPPORTED_GROUPS), Constant(\h000b), Alpn>> \o Constants(<<\h0005, \h000d, \h0012>>)
    \o <<KeyShare(CHROMIUM_FORK_KEY_SHARES), Constant(\h002d), Versions(CHROMIUM_FORK_SUPPORTED_VERSIONS), GreaseSlot(2), Padding>>, FALSE, ChromeEch, FALSE)
FIREFOX_148 == HelloProfile("firefox_148", FIREFOX_CIPHER_SUITES,
  <<ServerName>> \o Constants(<<\h0017, \hff01>>) \o <<Groups(FIREFOX_SUPPORTED_GROUPS), Constant(\h000b), Alpn>> \o Constants(<<\h0005, \h0022, \h0012>>)
    \o <<KeyShare(FIREFOX_KEY_SHARES), Versions(FIREFOX_SUPPORTED_VERSIONS)>> \o Constants(<<\h000d, \h001c, \h001b>>) \o <<EchGrease>>, FALSE, FirefoxEch, TRUE)
FIREFOX_153 == HelloProfile("firefox_153", FIREFOX_153_CIPHER_SUITES,
  <<ServerName>> \o Constants(<<\h0017, \hff01>>) \o <<Groups(FIREFOX_SUPPORTED_GROUPS)>> \o Constants(<<\h000b, \h0023>>) \o <<Alpn>> \o Constants(<<\h0005, \h0022, \h0012>>)
    \o <<KeyShare(FIREFOX_KEY_SHARES), Versions(FIREFOX_SUPPORTED_VERSIONS)>> \o Constants(<<\h000d, \h002d, \h001c, \h001b>>) \o <<EchGrease>>, FALSE, FirefoxEch, TRUE)
(* RealityHelloProfile::table. *)
Compiled == <<CHROME_156, CHROME_151, CHROME_133, CHROME_131, EDGE_85, SAFARI_26_3, IOS_14, QQ_11_1, FIREFOX_153, FIREFOX_148>>
Names == {Compiled[n].name : n \in 1 .. Len(Compiled)}
table(name) == CHOOSE p \in {Compiled[n] : n \in 1 .. Len(Compiled)} : p.name = name

(***************************************************************************)
(* HelloProfileData.                                                        *)
(***************************************************************************)
SlotsOf(profile, kind) == SelectSeq(profile.extensions, LAMBDA slot : slot.kind = kind)
negotiable_cipher_suites(profile) == {s.id : s \in {t \in ToSet(profile.suites) : t.role = "negotiable"}} \cap Implemented
key_share_groups(profile) == {g \in UNION {ToSet(slot.list) : slot \in ToSet(SlotsOf(profile, "key_share"))} : g # "GREASE"}
is_executable(group) == group \in {"x25519", "x25519mlkem768", "secp256r1"}
(* The list of the last supported_groups slot. *)
SupportedGroupsOf(profile) ==
  IF SlotsOf(profile, "groups") = <<>> THEN {} ELSE ToSet(SlotsOf(profile, "groups")[Len(SlotsOf(profile, "groups"))].list)
HybridShape(profile) ==
  /\ Len(SlotsOf(profile, "groups")) = 1 /\ SlotsOf(profile, "groups")[1].list = CHROME_SUPPORTED_GROUPS
  /\ Len(SelectSeq(SlotsOf(profile, "key_share"), LAMBDA s : s.list = CHROME_KEY_SHARES)) = 1 /\ ~profile.reuse
Modern == {"chrome_151", "chrome_156"}
(* Mutant: a share may be sent for a group that is not advertised. *)
validate_unadvertised(profile) ==
  /\ \A s \in ToSet(profile.suites) : (s.role = "negotiable" => s.id \in Implemented) /\ (s.role = "decorative" => s.id \notin Implemented)
  /\ \E s \in ToSet(profile.suites) : s.role = "negotiable"
  /\ Len(SlotsOf(profile, "key_share")) = 1 /\ \A g \in key_share_groups(profile) : is_executable(g)
  /\ profile.name \in Modern => HybridShape(profile)

validate_hello(profile) ==
  /\ \A s \in ToSet(profile.suites) : (s.role = "negotiable" => s.id \in Implemented) /\ (s.role = "decorative" => s.id \notin Implemented)
  /\ \E s \in ToSet(profile.suites) : s.role = "negotiable"
  /\ \A n \in 1 .. Len(profile.extensions) : profile.extensions[n].kind = "padding" => n = Len(profile.extensions)
  /\ Len(SlotsOf(profile, "key_share")) = 1 /\ \A g \in key_share_groups(profile) : is_executable(g)
  /\ SlotsOf(profile, "grease") \in {<<>>, <<GreaseSlot(1), GreaseSlot(2)>>}
  /\ key_share_groups(profile) \subseteq SupportedGroupsOf(profile)
  /\ profile.name \in Modern => HybridShape(profile)

(***************************************************************************)
(* Per-connection choices. draws[n] is what the generator returns for the   *)
(* n-th position of a Fisher-Yates shuffle; nibbles stand for GREASE seeds. *)
(***************************************************************************)
Swap(s, i, j) == [s EXCEPT ![i] = s[j], ![j] = s[i]]
shuffle(s, draws) == FoldLeft(LAMBDA t, n : Swap(t, Len(s) + 1 - n, (draws[n] % (Len(s) + 1 - n)) + 1), s, [n \in 1 .. Len(s) - 1 |-> n])
(* The movable positions of an order take the shuffled values in turn. *)
Placed(all, movable, shuffled) ==
  [n \in 1 .. Len(all) |-> IF n \in ToSet(movable) THEN shuffled[CHOOSE k \in 1 .. Len(movable) : movable[k] = n] ELSE n]

extension_order(profile, draws) ==
  LET all == [n \in 1 .. Len(profile.extensions) |-> n]
      movable == SelectSeq(all, LAMBDA n : ~position_is_pinned(profile.extensions[n])) IN
  IF ~profile.permute \/ Len(movable) < 2 THEN all ELSE Placed(all, movable, shuffle(movable, draws))

GreaseValues(seed) ==
  IF seed[4] = seed[5] THEN [seed EXCEPT ![5] = IF @ % 2 = 0 THEN @ + 1 ELSE @ - 1] ELSE seed
value(grease, slot) == CASE slot = "cipher" -> grease[1] [] slot = "group" -> grease[2] [] slot = "version" -> grease[3]
                         [] slot = "extension1" -> grease[4] [] slot = "extension2" -> grease[5]
boring_padding(unpadded) ==
  IF unpadded \notin \h100 .. \h1ff THEN 0 ELSE IF \h200 - unpadded > 4 THEN \h200 - unpadded - 4 ELSE 1
(* write_padding: the extension's header counts too. *)
PaddedLen(unpadded) == IF boring_padding(unpadded) = 0 THEN unpadded ELSE unpadded + 4 + boring_padding(unpadded)

pack_auth_payload(name, shares) ==
  IF name \in Modern THEN (IF shares = <<"x25519mlkem768", "x25519">> THEN "modern" ELSE "refused")
  ELSE IF name \in Names \cup {"randomized"} THEN "legacy" ELSE "refused"
SharesInOrder(profile) == SelectSeq(SlotsOf(profile, "key_share")[1].list, LAMBDA g : g # "GREASE")

(* encode: the GREASE members of a list take the connection's value. *)
EncodedList(list, grease, slot) == [n \in 1 .. Len(list) |-> IF list[n] = "GREASE" THEN <<"grease", value(grease, slot)>> ELSE <<list[n], 0>>]
encode(slot, grease) ==
  CASE slot.kind = "grease" -> <<[slot EXCEPT !.list = << <<"grease", value(grease, IF slot.type = 1 THEN "extension1" ELSE "extension2")>> >>]>>
    [] slot.kind \in {"groups", "key_share"} -> <<[slot EXCEPT !.list = EncodedList(slot.list, grease, "group")]>>
    [] slot.kind = "versions" -> <<[slot EXCEPT !.list = EncodedList(slot.list, grease, "version")]>>
    [] slot.kind = "padding" -> <<>>
    [] OTHER -> <<slot>>
InOrder(profile, order, grease) == FlattenSeq([n \in 1 .. Len(order) |-> encode(profile.extensions[order[n]], grease)])
construct_client_hello(profile, seed, draws) ==
  IF ~validate_hello(profile) \/ pack_auth_payload(profile.name, SharesInOrder(profile)) = "refused" THEN [ok |-> FALSE]
  ELSE [ok |-> TRUE, name |-> profile.name, suites |-> [n \in 1 .. Len(profile.suites) |-> profile.suites[n].id],
        accepts |-> negotiable_cipher_suites(profile), auth |-> pack_auth_payload(profile.name, SharesInOrder(profile)), shares |-> key_share_groups(profile),
        extensions |-> InOrder(profile, extension_order(profile, draws), GreaseValues(seed))]

(***************************************************************************)
(* The randomized hello.                                                    *)
(***************************************************************************)
LEGACY_CIPHER_SUITES ==
  [modern |-> <<\hcca8, \hcca9, \hc02f, \hc02b, \hc030, \hc02c, \hc027, \hc023, \h009c, \h009d, \h003c>>,
   obsolete |-> <<\hc013, \hc009, \hc014, \hc00a, \h002f, \h0035, \hc012, \h000a, \h0005, \hc011, \hc007>>]
RC4_CIPHER_SUITES == {\h0005, \hc011, \hc007}
(* drop: the positions after the first a removal flip fell on. *)
(* Mutant: the first suite may be removed too. *)
draw_cipher_suites_any(draws, drop) ==
  LET all == shuffle(<<\h1301, \h1302, \h1303>>, draws) \o SelectSeq(shuffle(LEGACY_CIPHER_SUITES.modern, draws) \o shuffle(LEGACY_CIPHER_SUITES.obsolete, draws),
                                                                     LAMBDA id : id \notin RC4_CIPHER_SUITES)
      kept == SelectSeq([n \in 1 .. Len(all) |-> <<n, all[n]>>], LAMBDA e : e[1] \notin drop) IN
  [n \in 1 .. Len(kept) |-> [role |-> IF kept[n][2] \in Implemented THEN "negotiable" ELSE "decorative", id |-> kept[n][2]]]

draw_cipher_suites(draws, drop) ==
  LET all == shuffle(<<\h1301, \h1302, \h1303>>, draws) \o SelectSeq(shuffle(LEGACY_CIPHER_SUITES.modern, draws) \o shuffle(LEGACY_CIPHER_SUITES.obsolete, draws),
                                                                     LAMBDA id : id \notin RC4_CIPHER_SUITES)
      kept == SelectSeq([n \in 1 .. Len(all) |-> <<n, all[n]>>], LAMBDA e : e[1] = 1 \/ e[1] \notin drop) IN
  [n \in 1 .. Len(kept) |-> [role |-> IF kept[n][2] \in Implemented THEN "negotiable" ELSE "decorative", id |-> kept[n][2]]]
draw_supported_groups(p521) == <<"x25519", "secp256r1", "secp384r1">> \o (IF p521 THEN <<"secp521r1">> ELSE <<>>)
If(flip, slot) == IF flip THEN <<slot>> ELSE <<>>
(* The layout as pushed; then shuffled, with padding taken out and put last. *)
Layout(flips) ==
  <<ServerName, Constant(\h0023), Constant(\h000d), Constant(\h000b), Groups(draw_supported_groups(flips.p521))>> \o If(flips.alpn, Alpn) \o <<Padding>>
    \o If(flips.status, Constant(\h0005)) \o If(flips.sct, Constant(\h0012)) \o If(flips.reneg, Constant(\hff01)) \o If(flips.ems, Constant(\h0017))
    \o <<KeyShare(<<"x25519">>), Constant(\h002d), Versions(<<"1.3", "1.2", "1.1", "1.0">>)>> \o If(flips.alpn /\ flips.alps, Constant(\h4469))
RandomizedHello(flips, draws, drop) ==
  HelloProfile("randomized", draw_cipher_suites(draws, drop),
               SelectSeq(shuffle(Layout(flips), draws), LAMBDA s : s.kind # "padding") \o <<Padding>>, FALSE, ChromeEch, FALSE)

(***************************************************************************)
(* Downloaded tables. A document is [digest, size, schema, entries]; an     *)
(* entry [name, declared, unreadable, ech, profile]: whether its digest     *)
(* matches, the field the loader cannot read or may not change if there is  *)
(* one, and the table it spells out otherwise.                              *)
(***************************************************************************)
build_ech_grease(ech) == ech.kdf = "sha256" /\ ech.suites # {} /\ ech.suites \subseteq {"aes128", "chacha20"} /\ ech.lens # {} /\ \A n \in ech.lens : n \in 1 .. 224
verify_declared_digest(entry) == entry.declared
require_frozen(entry) == entry.unreadable # "frozen"
build_cipher_suites(entry) == entry.unreadable # "cipher_suites"
build_groups(entry) == entry.unreadable # "supported_groups"
build_key_shares(entry) == entry.unreadable # "key_shares"
build_versions(entry) == entry.unreadable # "supported_versions"
(* GREASE slots are numbered in order, so a third has no number. *)
build_extensions(entry) == entry.unreadable # "extension_order" /\ Len(SlotsOf(entry.profile, "grease")) <= 2
build_profile(name, entry) ==
  /\ require_frozen(entry)
  /\ build_cipher_suites(entry) /\ build_groups(entry) /\ build_key_shares(entry) /\ build_versions(entry) /\ build_extensions(entry)
  /\ (SlotsOf(entry.profile, "signature_grease") # <<>>) = (name = "chrome_156")
  /\ IF entry.ech.kdf = "absent" THEN SlotsOf(entry.profile, "ech") = <<>> ELSE build_ech_grease(entry.ech)
  /\ validate_hello([entry.profile EXCEPT !.name = name])
(* What an accepted entry installs. *)
Built(entry) == [entry.profile EXCEPT !.name = entry.name,
                   !.ech = IF entry.ech.kdf = "absent" THEN ChromeEch ELSE [suites |-> entry.ech.suites, lens |-> entry.ech.lens]]
Known(entries) == SelectSeq(entries, LAMBDA e : e.name \in Names)

parse_document(document) ==
  IF /\ document.size = "within" /\ document.schema = 1 /\ IsInjective([n \in 1 .. Len(document.entries) |-> document.entries[n].name])
     /\ \A n \in 1 .. Len(Known(document.entries)) : verify_declared_digest(Known(document.entries)[n]) /\ build_profile(Known(document.entries)[n].name, Known(document.entries)[n])
  THEN "accepted" ELSE "refused"
install_into(document) ==
  IF document.digest = tables.digest \/ parse_document(document) = "refused" \/ Known(document.entries) = <<>>
  THEN UNCHANGED tables
  ELSE tables' = [tables EXCEPT !.digest = document.digest,
                    !.profiles = [name \in {e.name : e \in ToSet(Known(document.entries))} |-> Built(CHOOSE e \in ToSet(Known(document.entries)) : e.name = name)]]
clear_fingerprint_tables == tables' = [tables EXCEPT !.digest = <<>>, !.profiles = [name \in {} |-> CHROME_133]]
table_for(name) == IF name \in DOMAIN tables.profiles THEN tables.profiles[name] ELSE table(name)
(* build_client_hello of a new connection. *)
connect_with(name, seed, draws) == tables' = [tables EXCEPT !.hello = construct_client_hello(table_for(name), seed, draws), !.source = table_for(name)]
TablesBegin == [digest |-> <<>>, profiles |-> [name \in {} |-> CHROME_133], hello |-> construct_client_hello(CHROME_156, <<0, 0, 0, 0, 0>>, [n \in 1 .. 20 |-> 0]), source |-> table("chrome_156")]

(***************************************************************************)
(* Whatever was installed or cleared in between, every connection gets a    *)
(* hello: a table that passed the loader never fails the connection, each   *)
(* share is for a group the hello lists, GREASE entries of both lists are   *)
(* the same group and the two GREASE extensions differ, GREASE stays first  *)
(* and the rest is a permutation of the table, and only suites that were    *)
(* offered are accepted from a server.                                      *)
(***************************************************************************)
ExtensionsOf(h, kind) == SelectSeq(h.extensions, LAMBDA s : s.kind = kind)
WellFormed(h, source) ==
  /\ h.accepts # {} /\ h.accepts \subseteq ToSet(h.suites) \cap Implemented
  /\ \A s \in ToSet(ExtensionsOf(h, "key_share")) : \A n \in 1 .. Len(s.list) :
        \E g \in ToSet(ExtensionsOf(h, "groups")) : s.list[n] \in ToSet(g.list) \/ (s.list[n][1] = "grease" /\ \A e \in ToSet(g.list) : e[1] # "grease")
  /\ Cardinality({g.list : g \in ToSet(ExtensionsOf(h, "grease"))}) = Len(ExtensionsOf(h, "grease"))
  /\ \A n \in 1 .. Len(h.extensions) : (h.extensions[n].kind = "grease") <=> (source.extensions[n].kind = "grease")
  /\ \A type \in {s.type : s \in ToSet(source.extensions)} \ {\h0015, 1, 2} :
        Len(SelectSeq(h.extensions, LAMBDA s : s.type = type)) = Len(SelectSeq(source.extensions, LAMBDA s : s.type = type))
  /\ \A n \in source.ech.lens : n <= 224
  /\ source.name \in Modern <=> h.auth = "modern"
EveryHelloBuilt == tables.hello.ok /\ WellFormed(tables.hello, tables.source)
(* The server reads the scalar REALITY authenticates with behind x25519. *)
AuthReadable(profile) == "x25519" \in key_share_groups(profile)
(* A randomized profile is valid however the flips fall. *)
RandomizedSound(flips, draws, drop) ==
  LET p == RandomizedHello(flips, draws, drop) IN validate_hello(p) /\ AuthReadable(p) /\ pack_auth_payload(p.name, SharesInOrder(p)) = "legacy"
    /\ (Constant(\h4469) \in ToSet(p.extensions) => Alpn \in ToSet(p.extensions))
(* Padding leaves no hello between 256 and 511 bytes. *)
PaddingLeavesWindow(n) == PaddedLen(n) \notin \h100 .. \h1ff /\ PaddedLen(n) <= (IF n \in \h100 .. \h1ff THEN \h204 ELSE n)

-----------------------------------------------------------------------------
(***************************************************************************)
(* REALITY's own TLS 1.3 client (proto-reality): the handshake that proves  *)
(* the server holds the key of the profile, the record layer over two       *)
(* sliding buffers, the driver that reads until the handshake is over, and  *)
(* the relay that frames records ahead of the layer (splice.rs).            *)
(*                                                                          *)
(* The server's bytes are units: a record is a header unit and its body,    *)
(* a buffer a sequence of <<record, position>>. Secrets are symbolic.       *)
(***************************************************************************)

CONSTANTS
    MaxRecordSize,      \* TLS_MAX_RECORD_SIZE, in units
    ReadSize,           \* TLS_IO_BUFFER_SIZE: what one handshake read may return
    MaxPlaintext,       \* MAX_TLS_PLAINTEXT_LEN
    MaxHandshakePlain,  \* MAX_HANDSHAKE_PLAINTEXT
    CompactAt,          \* the threshold of maybe_compact
    OutgoingLimit,      \* OUTGOING_BUFFER_LIMIT
    MaxIterations       \* MAX_HANDSHAKE_ITERATIONS

VARIABLE rl             \* the connection, its driver, its relay and the server's remaining bytes

Capacity == 2 * MaxRecordSize

(* Key schedule: reality_tls13_keys. A transcript is a sequence of messages. *)
derive_handshake_keys(shared, transcript) ==
    [client |-> <<"c hs traffic", shared, transcript>>, server |-> <<"s hs traffic", shared, transcript>>, master |-> <<"master", shared>>]
derive_application_secrets(master, transcript) == [client |-> <<"c ap traffic", master, transcript>>, server |-> <<"s ap traffic", master, transcript>>]
derive_traffic_keys(secret) == <<"key", secret>>
compute_finished_verify_data(secret, transcript) == <<"finished", secret, transcript>>

(* ClientKeyExchange: one private key per offered group; the hybrid group's *)
(* classical half may be the one used alone.                                *)
generate_with_reuse(groups, reuse) ==
    [g \in groups |-> IF g = "x25519" /\ reuse /\ "x25519mlkem768" \in groups THEN <<"private", "x25519mlkem768">> ELSE <<"private", g>>]
complete(exchange, share) == <<"shared", exchange[share], share>>
reality_private_key(exchange, groups, reuse) ==
    IF reuse /\ "x25519mlkem768" \in groups THEN <<"private", "x25519mlkem768">> ELSE <<"private", "x25519">>
derive_auth_key(private, public) == <<"auth", private, public>>

(* RecordEncryptor: what goes on the wire. *)
encrypt_record(key, seq, inner, body) == [key |-> key, seq |-> seq, inner |-> inner, body |-> body]

(* Sliding buffers. *)
SlideBuffer == [start |-> 0, data |-> <<>>]
remaining_capacity(b) == Capacity - b.start - Len(b.data)
extend_from_slice(b, units) == [b EXCEPT !.data = @ \o units]
compact(b) == [b EXCEPT !.start = 0]
maybe_compact(b) == IF b.start > CompactAt THEN compact(b) ELSE b
consume(b, n) ==
    IF n >= Len(b.data) THEN SlideBuffer ELSE [start |-> b.start + n, data |-> SubSeq(b.data, n + 1, Len(b.data))]

(* The record at the head of a buffer, if it is all there. *)
HeadRecord(s, b) == s.script[b.data[1][1]]
HasRecord(s, b) == b.data # <<>> /\ b.data[1][2] = 1 /\ Len(b.data) >= HeadRecord(s, b).len
Failed(s, kind) == [s EXCEPT !.fatal = kind, !.pc = "failed"]

(***************************************************************************)
(* build_client_hello and RealityClientConnection::new.                     *)
(***************************************************************************)
Hello(profile) ==
    [exchange |-> generate_with_reuse(profile.groups, profile.reuse),
     auth |-> derive_auth_key(reality_private_key(generate_with_reuse(profile.groups, profile.reuse), profile.groups, profile.reuse), profile.public)]
Connection(profile, script, garble) ==
    [pc |-> "hello", profile |-> profile, hello |-> Hello(profile), script |-> script, rest |-> 0,
     cbuf |-> SlideBuffer, pbuf |-> SlideBuffer, keys |-> derive_handshake_keys(<<"none">>, <<>>), app |-> derive_application_secrets(<<"none">>, <<>>),
     hseq |-> 0, acc |-> <<>>, offset |-> 0, found |-> 0, certified |-> "none", order |-> <<"CH">>,
     rseq |-> 0, wseq |-> 0, out |-> <<encrypt_record(<<"none">>, 0, "hello", 1)>>, pout |-> 0, closed |-> FALSE, fatal |-> "none",
     driver |-> "handshake", turns |-> 0, inbound |-> <<>>, garble |-> garble, delivered |-> <<>>, wire |-> <<>>, written |-> 0, ended |-> "no"]

(***************************************************************************)
(* process_server_hello: validate_server_hello and the suite, in order.     *)
(***************************************************************************)
validate_server_hello(s, h) ==
    h.session = "echoed" /\ h.random # "retry" /\ h.version = "tls13" /\ h.group \in s.profile.groups

process_server_hello(s) ==
    LET r == HeadRecord(s, s.cbuf) IN
    IF r.type # "handshake" \/ ~validate_server_hello(s, r.hello) \/ r.hello.suite \notin s.profile.suites
    THEN Failed([s EXCEPT !.cbuf = consume(@, r.len)], "InvalidData")
    ELSE [s EXCEPT !.cbuf = consume(@, r.len), !.pc = "flight", !.order = Append(@, "SH"),
                   !.keys = derive_handshake_keys(complete(s.hello.exchange, r.hello.group), <<"CH", "SH">>)]

(***************************************************************************)
(* process_encrypted_handshake: one record, then every whole message of the *)
(* accumulated plaintext, then the proofs once all four are there.          *)
(***************************************************************************)
Expected == <<"ee", "cert", "cv", "fin">>
verify_certificate_hmac(s, cert) == cert.auth = s.hello.auth
extract_ed25519_public_key(cert) == cert.key
(* One turn of the parsing loop; a token names its message and its parts. *)
ParseOne(s) ==
    IF s.pc # "flight" \/ s.found = 4 \/ s.offset >= Len(s.acc) \/ s.offset + s.acc[s.offset + 1].of > Len(s.acc) THEN s
    ELSE LET t == s.acc[s.offset + 1] IN
         IF t.m # Expected[s.found + 1] THEN Failed(s, "InvalidData")
         ELSE IF t.m = "cert" /\ ~verify_certificate_hmac(s, t) THEN Failed(s, "PermissionDenied")
         ELSE [s EXCEPT !.found = @ + 1, !.offset = @ + t.of, !.order = Append(@, t.m),
                        !.certified = IF t.m = "cert" THEN extract_ed25519_public_key(t) ELSE @]
Parsed(s) == FoldLeft(LAMBDA t, i : ParseOne(t), s, <<1, 2, 3, 4>>)
(* The first token of the n-th message found. *)
Message(s, m) == SelectSeq(s.acc, LAMBDA t : t.m = m)[1]

(* Mutant: the signature is checked against no particular key. *)
verify_certificate_verify_signature_any(s) == Message(s, "cv").over = <<"CH", "SH", "ee", "cert">>

verify_certificate_verify_signature(s) ==
    Message(s, "cv").over = <<"CH", "SH", "ee", "cert">> /\ Message(s, "cv").key = s.certified

(* The client's Finished under the handshake key, then the traffic keys. *)
Completed(s) ==
    [s EXCEPT !.pc = "complete", !.rseq = 0, !.wseq = 0, !.app = derive_application_secrets(s.keys.master, s.order),
              !.out = Append(@, encrypt_record(derive_traffic_keys(s.keys.client), 0, "fin", 1))]
FinishHandshake(s) ==
    IF s.pc # "flight" \/ s.found < 4 THEN s
    ELSE IF ~verify_certificate_verify_signature(s) THEN Failed(s, "PermissionDenied")
    ELSE IF s.offset # Len(s.acc) THEN Failed(s, "InvalidData")
    ELSE IF Message(s, "fin").data # compute_finished_verify_data(s.keys.server, <<"CH", "SH", "ee", "cert", "cv">>)
         THEN Failed(s, "PermissionDenied")
    ELSE Completed(s)

(* A record opens only under its own key and at its own place in the order. *)
decrypt_handshake_message(s, r) == r.key = derive_traffic_keys(s.keys.server) /\ r.seq = s.hseq
append_handshake_plaintext(s, r) ==
    IF Len(s.acc) + Len(r.body) > MaxHandshakePlain THEN Failed(s, "InvalidData") ELSE [s EXCEPT !.hseq = @ + 1, !.acc = @ \o r.body]
process_encrypted_handshake(s) ==
    LET r == HeadRecord(s, s.cbuf)
        s1 == [s EXCEPT !.cbuf = consume(@, r.len)] IN
    IF r.type = "ccs" THEN s1
    ELSE IF r.type # "application" \/ ~decrypt_handshake_message(s, r) THEN Failed(s1, "InvalidData")
    ELSE FinishHandshake(Parsed(append_handshake_plaintext(s1, r)))

(***************************************************************************)
(* process_application_data, one record.                                    *)
(***************************************************************************)
decrypt_record(s, r) == r.key = derive_traffic_keys(s.app.server) /\ r.seq = s.rseq
process_application_record(s) ==
    LET r == HeadRecord(s, s.cbuf) IN
    IF ~decrypt_record(s, r) THEN Failed(s, "InvalidData")
    ELSE IF r.inner = "app" THEN [s EXCEPT !.rseq = @ + 1, !.cbuf = consume(@, r.len), !.pbuf = extend_from_slice(maybe_compact(@), r.body)]
    ELSE IF r.inner = "close" THEN [s EXCEPT !.rseq = @ + 1, !.closed = TRUE]
    ELSE IF r.inner = "warning" THEN [s EXCEPT !.rseq = @ + 1, !.cbuf = consume(@, r.len)]
    ELSE Failed(s, IF r.inner = "fatal" THEN "ConnectionAborted" ELSE "InvalidData")

(* process_new_packets: until nothing whole is left, an error, or the end. *)
ProcessOne(s) ==
    IF s.pc = "failed" \/ s.closed \/ ~HasRecord(s, s.cbuf) THEN s
    ELSE CASE s.pc = "hello" -> process_server_hello(s)
           [] s.pc = "flight" -> process_encrypted_handshake(s)
           [] s.pc = "complete" -> process_application_record(s)
process_new_packets(s) == FoldLeft(LAMBDA t, i : ProcessOne(t), s, <<1, 2, 3>>)

(* read_tls over all of the given bytes. *)
(* Mutant: the buffer is only compacted once it is full. *)
read_tls_late(s, units) ==
    LET b == IF remaining_capacity(s.cbuf) = 0 THEN compact(s.cbuf) ELSE s.cbuf IN
    IF remaining_capacity(b) >= Len(units) THEN [s EXCEPT !.cbuf = extend_from_slice(b, units)] ELSE Failed(s, "limit")

read_tls(s, units) ==
    LET b == IF remaining_capacity(s.cbuf) < MaxRecordSize THEN compact(s.cbuf) ELSE s.cbuf IN
    IF remaining_capacity(b) >= Len(units) THEN [s EXCEPT !.cbuf = extend_from_slice(b, units)] ELSE Failed(s, "limit")

(* write_tls and encrypt_app_data: what is queued, cut into records. *)
Records(s) ==
    [n \in 1 .. (s.pout + MaxPlaintext - 1) \div MaxPlaintext |->
        encrypt_record(derive_traffic_keys(s.app.client), s.wseq + n - 1, "app",
                       IF n * MaxPlaintext <= s.pout THEN MaxPlaintext ELSE s.pout % MaxPlaintext)]
write_tls(s) ==
    IF s.pc # "complete" THEN [s EXCEPT !.wire = @ \o s.out, !.out = <<>>]
    ELSE [s EXCEPT !.wire = @ \o s.out \o Records(s), !.out = <<>>, !.wseq = @ + Len(Records(s)), !.pout = 0]
(* RealityWriter::write accepts up to the limit; write_all fails on none. *)
write_plaintext(s, count) ==
    IF s.pout + Len(s.out) + count > OutgoingLimit THEN [s EXCEPT !.ended = "write zero"]
    ELSE [s EXCEPT !.pout = @ + count, !.written = @ + count]
send_close_notify(s) ==
    [s EXCEPT !.out = Append(@, encrypt_record(derive_traffic_keys(s.app.client), s.wseq, "close", 1)), !.wseq = @ + 1]

(***************************************************************************)
(* perform_handshake: one iteration reads once, processes, and drains.      *)
(***************************************************************************)
Units(s, count) ==
    LET all == FlattenSeq([n \in 1 .. Len(s.script) |-> [i \in 1 .. s.script[n].len |-> <<n, i>>]]) IN SubSeq(all, s.rest + 1, s.rest + count)
Left(s) == FoldLeft(LAMBDA sum, r : sum + r.len, 0, s.script) - s.rest

(* read_plaintext and drain_downlink: everything decrypted goes out at once. *)
drain_downlink(s) == [s EXCEPT !.delivered = @ \o s.pbuf.data, !.pbuf = SlideBuffer, !.ended = IF s.closed THEN "closed" ELSE @]

AfterIteration(s) ==
    IF s.pc = "failed" THEN [s EXCEPT !.ended = s.fatal]
    ELSE IF s.turns = MaxIterations THEN [s EXCEPT !.ended = "iterations"]
    ELSE IF s.pc = "complete" THEN drain_downlink([write_tls(s) EXCEPT !.driver = "relay"])
    ELSE write_tls(s)

perform_handshake(count) ==
    /\ rl.driver = "handshake" /\ rl.ended = "no" /\ count <= Left(rl)
    /\ \E fed \in {read_tls([rl EXCEPT !.wire = @ \o rl.out, !.out = <<>>, !.rest = @ + count, !.turns = @ + 1], Units(rl, count))} :
          rl' = AfterIteration(process_new_packets(fed))
HandshakeEnds(how) == rl.driver = "handshake" /\ rl.ended = "no" /\ rl' = [rl EXCEPT !.ended = how]

(***************************************************************************)
(* relay: records are framed here. Bytes in the middle of a record read as  *)
(* the length that happens to stand there.                                  *)
(***************************************************************************)
record_length(s) == IF s.inbound[1][2] = 1 THEN s.script[s.inbound[1][1]].len ELSE s.garble
FeedOne(s) ==
    IF s.ended # "no" \/ s.inbound = <<>> THEN s
    ELSE IF record_length(s) > MaxRecordSize THEN [s EXCEPT !.ended = "oversize"]
    ELSE IF Len(s.inbound) < record_length(s) THEN s
    ELSE LET fed == process_new_packets(read_tls([s EXCEPT !.inbound = SubSeq(s.inbound, record_length(s) + 1, Len(s.inbound))],
                                                 SubSeq(s.inbound, 1, record_length(s)))) IN
         IF fed.pc = "failed" THEN [fed EXCEPT !.ended = fed.fatal] ELSE drain_downlink(fed)
relay_network(count) ==
    /\ rl.driver = "relay" /\ rl.ended = "no" /\ count <= Left(rl)
    /\ rl' = FoldLeft(LAMBDA t, i : FeedOne(t), [rl EXCEPT !.inbound = @ \o Units(rl, count), !.rest = @ + count], <<1, 2, 3>>)
relay_network_eof == rl.driver = "relay" /\ rl.ended = "no" /\ Left(rl) = 0 /\ rl' = [rl EXCEPT !.ended = "eof"]

relay_application(count) ==
    /\ rl.driver = "relay" /\ rl.ended = "no" /\ rl.written < 2 * MaxPlaintext
    /\ rl' = write_tls(write_plaintext(rl, count))
relay_application_eof ==
    rl.driver = "relay" /\ rl.ended = "no" /\ rl' = [write_tls(send_close_notify(rl)) EXCEPT !.ended = "eof"]

RealityNext ==
    \/ \E count \in 1 .. ReadSize : perform_handshake(count)
    \/ \E how \in {"timeout", "peer closed"} : HandshakeEnds(how)
    \/ \E count \in 1 .. MaxRecordSize : relay_network(count)
    \/ relay_network_eof
    \/ \E count \in 1 .. MaxPlaintext + 1 : relay_application(count)
    \/ relay_application_eof

(***************************************************************************)
(* The handshake is complete only for a server that signed the certificate  *)
(* with this connection's auth key, signed the transcript with that         *)
(* certificate's key, and finished over all of it, nothing following.       *)
(***************************************************************************)
OnlyRealityCompletes ==
    rl.pc = "complete" =>
        /\ rl.order = <<"CH", "SH", "ee", "cert", "cv", "fin">>
        /\ Message(rl, "cert").auth = rl.hello.auth /\ Message(rl, "cv").key = Message(rl, "cert").key
        /\ Message(rl, "fin").data = compute_finished_verify_data(derive_handshake_keys(complete(rl.hello.exchange, rl.script[1].hello.group), <<"CH", "SH">>).server,
                                                                  <<"CH", "SH", "ee", "cert", "cv">>)
        /\ rl.script[1].hello.group \in rl.profile.groups

(***************************************************************************)
(* However the bytes are cut, the application reads what the server sent,   *)
(* in order, and an announced end only after all of it; both buffers keep   *)
(* within their storage and never refuse legal bytes; and what the          *)
(* application wrote leaves in order under fresh sequence numbers, all of   *)
(* it ahead of close_notify.                                                *)
(***************************************************************************)
Sent(s) == FlattenSeq([n \in 1 .. Len(s.script) |-> IF s.script[n].inner = "app" THEN s.script[n].body ELSE <<>>])
Protected(s) == SelectSeq(s.wire, LAMBDA r : r.inner \in {"app", "close"})
RealityStreams ==
    /\ IsPrefix(rl.delivered, Sent(rl))
    /\ rl.ended = "closed" => rl.delivered = FlattenSeq([n \in 1 .. Len(rl.script) |->
           IF rl.script[n].inner = "app" /\ \E m \in n .. Len(rl.script) : rl.script[m].inner = "close" THEN rl.script[n].body ELSE <<>>])
    /\ remaining_capacity(rl.cbuf) >= 0 /\ remaining_capacity(rl.pbuf) >= 0 /\ rl.fatal # "limit" /\ rl.ended # "write zero"
    /\ \A n \in 1 .. Len(Protected(rl)) : Protected(rl)[n].seq = n - 1
    /\ \A n \in 1 .. Len(Protected(rl)) : Protected(rl)[n].inner = "close" =>
           n = Len(Protected(rl)) /\ FoldLeft(LAMBDA sum, r : sum + r.body, 0, SubSeq(Protected(rl), 1, n - 1)) = rl.written

(***************************************************************************)
(* The relay frames records itself: every record of the server is legal,    *)
(* so none is refused for its length.                                       *)
(***************************************************************************)
NoFalseOversize == rl.ended # "oversize"
=============================================================================
