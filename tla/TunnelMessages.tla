--------------------------- MODULE TunnelMessages ---------------------------
(***************************************************************************)
(* What proto-wireguard puts on the wire: the Noise handshake (noise.rs,    *)
(* message.rs), the disguise of a datagram and its recognition (amnezia.rs, *)
(* header_protection.rs, tunnel.rs), and the templates sent ahead of a      *)
(* handshake (initpacket.rs).                                               *)
(*                                                                          *)
(* Cryptography is symbolic: a hash, a key or a ciphertext is the tuple of  *)
(* what it was made from, a public key is the name of its private one, and  *)
(* opening succeeds exactly for the key and associated data of the sealing. *)
(***************************************************************************)
EXTENDS Integers, Sequences, FiniteSets, SequencesExt

CONSTANTS Indices, MaxAttempts, HeaderValues, MAX_INIT_PACKET_LEN
ASSUME TunnelMessagesAssumption == MaxAttempts \in Nat /\ MAX_INIT_PACKET_LEN \in Nat

VARIABLES
    identity,  \* StaticIdentity: the initiator's preshared key, and the responder's
    inflight,  \* the Handshake whose answer is awaited, with its mac1
    attempts,  \* ephemeral keys the initiator has drawn
    cookie,    \* the last cookie accepted
    keys,      \* the TransportKeys of the newest session
    wire,      \* every message sent: it may arrive late, twice or never
    peers      \* the responder's sessions
noiseVars == <<identity, inflight, attempts, cookie, keys, wire, peers>>

Absent == <<>>
Name(k) == <<"name", k>>
Fresh(k, n) == <<"fresh", k, n>>
Initiator == Name("initiator")
Responder == Name("responder")

hash(parts) == <<"hash", parts>>
kdf(n, chaining_key, input) == <<"kdf", n, chaining_key, input>>
dh(one, other) == <<"dh", {one, other}>>
aead_seal(key, plaintext, aad) == <<"sealed", key, plaintext, aad>>
aead_open(key, sealed, aad) == sealed[2] = key /\ sealed[4] = aad
mac(key, data) == <<"mac", key, data>>

(* compute_mac1 and compute_mac2 cover everything ahead of their field. *)
Body(m) == IF m.kind = "initiation" THEN <<Name(m.kind), m.ephemeral, m.static, m.timestamp>>
           ELSE <<Name(m.kind), m.ephemeral, m.empty>>
compute_mac1(public, m) == mac(hash(<<Name("mac1"), public>>), <<<<m.sender>>, Body(m)>>)
compute_mac2(value, m) == mac(value, <<<<m.sender>>, Body(m), <<m.mac1>>>>)

(***************************************************************************)
(* Handshake::initiate, with the transcript and chaining key it leaves.     *)
(***************************************************************************)
Construction == hash(<<Name("construction")>>)
Opening(ephemeral) ==
    [ck |-> kdf(1, Construction, ephemeral), h |-> hash(<<hash(<<Construction, Responder>>), ephemeral>>)]
AfterStatic(ephemeral, public, o) ==
    LET sealed == aead_seal(kdf(2, o.ck, dh(ephemeral, Responder)), public, o.h) IN
    [ck |-> kdf(1, o.ck, dh(ephemeral, Responder)), h |-> hash(<<o.h, sealed>>), sealed |-> sealed]
AfterTimestamp(public, time, s) ==
    LET sealed == aead_seal(kdf(2, s.ck, dh(public, Responder)), time, s.h) IN
    [ck |-> kdf(1, s.ck, dh(public, Responder)), h |-> hash(<<s.h, sealed>>), sealed |-> sealed]

Initiation(index, ephemeral, s, t) ==
    [kind |-> "initiation", sender |-> index, ephemeral |-> ephemeral, static |-> s.sealed,
     timestamp |-> t.sealed, mac1 |-> Absent, mac2 |-> Absent]

Response(index, receiver, ephemeral, empty) ==
    [kind |-> "response", sender |-> index, receiver |-> receiver, ephemeral |-> ephemeral, empty |-> empty, mac1 |-> Absent]
CookieReply(receiver, sealed) == [kind |-> "cookie", receiver |-> receiver, sealed |-> sealed]

(* start_handshake: a fresh ephemeral key and index, mac2 while a cookie lives. *)
initiate(index) ==
    /\ attempts < MaxAttempts /\ attempts' = attempts + 1
    /\ \E e \in {Fresh("E", attempts + 1)} :
       \E s \in {AfterStatic(e, Initiator, Opening(e))} :
       \E t \in {AfterTimestamp(Initiator, Fresh("T", attempts + 1), s)} :
       \E bare \in {Initiation(index, e, s, t)} :
       \E m \in {[bare EXCEPT !.mac1 = compute_mac1(Responder, bare)]} :
       \E sent \in {IF cookie = Absent THEN m ELSE [m EXCEPT !.mac2 = compute_mac2(cookie.value, m)]} :
          /\ inflight' = [index |-> index, ephemeral |-> e, ck |-> t.ck, h |-> t.h, mac1 |-> sent.mac1]
          /\ wire' = wire \cup {sent}
    /\ UNCHANGED <<identity, cookie, keys, peers>>

(* The end of the handshake as both sides compute it. *)
FinalKey(ck, ephemeral, one, two, psk) ==
    kdf(1, kdf(1, kdf(1, kdf(1, ck, ephemeral), one), two), psk)
ResponseSeal(ck, h, ephemeral, one, two, psk) ==
    LET third == kdf(1, kdf(1, kdf(1, ck, ephemeral), one), two) IN
    [key |-> kdf(3, third, psk), aad |-> hash(<<hash(<<h, ephemeral>>), kdf(2, third, psk)>>)]

(***************************************************************************)
(* Responder::respond: it derives the initiator's steps from the message.   *)
(***************************************************************************)
Understood(m, s, t) ==
    /\ aead_open(kdf(2, Opening(m.ephemeral).ck, dh(m.ephemeral, Responder)), m.static, Opening(m.ephemeral).h)
    /\ aead_open(kdf(2, s.ck, dh(m.static[3], Responder)), m.timestamp, s.h)
respond(m, index) ==
    /\ m.kind = "initiation" /\ Cardinality(peers) < MaxAttempts
    /\ \E s \in {AfterStatic(m.ephemeral, m.static[3], Opening(m.ephemeral))} :
       \E t \in {AfterTimestamp(m.static[3], m.timestamp[3], s)} :
       \E f \in {Fresh("F", Cardinality(peers) + 1)} :
       \E e \in {ResponseSeal(t.ck, t.h, f, dh(f, m.ephemeral), dh(f, m.static[3]), identity.responder)} :
       \E final \in {FinalKey(t.ck, f, dh(f, m.ephemeral), dh(f, m.static[3]), identity.responder)} :
       \E bare \in {Response(index, m.sender, f, aead_seal(e.key, Name("empty"), e.aad))} :
          /\ Understood(m, s, t)
          /\ wire' = wire \cup {[bare EXCEPT !.mac1 = compute_mac1(m.static[3], bare)]}
          /\ peers' = peers \cup {[index |-> index, peer |-> m.sender, ephemeral |-> m.ephemeral,
                                   receive |-> kdf(1, final, Name("none")), send |-> kdf(2, final, Name("none"))]}
    /\ UNCHANGED <<identity, inflight, attempts, cookie, keys>>

(* Responder::issue_cookie: bound to the mac1 of the message it answers. *)
issue_cookie(m) ==
    /\ m.kind = "initiation"
    /\ wire' = wire \cup {CookieReply(m.sender, aead_seal(hash(<<Name("cookie"), Responder>>), Fresh("C", m.sender), m.mac1))}
    /\ UNCHANGED <<identity, inflight, attempts, cookie, keys, peers>>

(* accept_cookie_reply and open_cookie. *)
accept_cookie_reply(m) ==
    /\ m.kind = "cookie" /\ inflight # Absent /\ m.receiver = inflight.index
    /\ aead_open(hash(<<Name("cookie"), Responder>>), m.sealed, inflight.mac1)
    /\ cookie' = [value |-> m.sealed[3], proof |-> m.sealed[4], mac1 |-> inflight.mac1]
    /\ UNCHANGED <<identity, inflight, attempts, keys, wire, peers>>

(* active_cookie: a cookie outlives its use after COOKIE_LIFETIME_MS. *)
CookieExpires == cookie # Absent /\ cookie' = Absent /\ UNCHANGED <<identity, inflight, attempts, keys, wire, peers>>

(***************************************************************************)
(* consume_response, after the index and the mac1 were checked.             *)
(***************************************************************************)
(* Mutant: both sides of the session are derived in the responder's order. *)
TransportKeys_swapped(final, index, receiver) ==
    [send |-> kdf(2, final, Name("none")), receive |-> kdf(1, final, Name("none")), index |-> index, receiver |-> receiver]

TransportKeys(final, index, receiver) ==
    [send |-> kdf(1, final, Name("none")), receive |-> kdf(2, final, Name("none")), index |-> index, receiver |-> receiver]

accept_response(m) ==
    /\ m.kind = "response" /\ inflight # Absent /\ m.receiver = inflight.index
    /\ m.mac1 = compute_mac1(Initiator, m)
    /\ \E s \in {ResponseSeal(inflight.ck, inflight.h, m.ephemeral, dh(inflight.ephemeral, m.ephemeral),
                              dh(Initiator, m.ephemeral), identity.initiator)} :
          aead_open(s.key, m.empty, s.aad)
    /\ keys' = TransportKeys(FinalKey(inflight.ck, m.ephemeral, dh(inflight.ephemeral, m.ephemeral),
                                      dh(Initiator, m.ephemeral), identity.initiator),
                             inflight.index, m.sender)
    /\ inflight' = Absent
    /\ UNCHANGED <<identity, attempts, cookie, wire, peers>>

NoiseInit ==
    /\ identity \in [initiator : {Name("psk"), Name("zero")}, responder : {Name("psk")}]
    /\ inflight = Absent /\ attempts = 0 /\ cookie = Absent /\ keys = Absent /\ wire = {} /\ peers = {}
NoiseNext ==
    \/ \E index \in Indices : initiate(index) \/ (\E m \in wire : respond(m, index))
    \/ CookieExpires
    \/ \E m \in wire : issue_cookie(m) \/ accept_cookie_reply(m) \/ accept_response(m)

(***************************************************************************)
(* A session is one the responder holds with the same two keys crosswise    *)
(* and the same indices, whichever of several handshakes, late or repeated  *)
(* answers, reused indices or other preshared keys led to it; and a cookie  *)
(* is one that was issued for the initiation in flight when it was taken.   *)
(***************************************************************************)
KeysAgree ==
    /\ keys # Absent => /\ identity.initiator = identity.responder
                        /\ \E p \in peers : p.receive = keys.send /\ p.send = keys.receive
                                            /\ p.index = keys.receiver /\ p.peer = keys.index
    /\ cookie # Absent => cookie.proof = cookie.mac1

(***************************************************************************)
(* Disguise. A datagram is its kind, its length, and the four bytes an      *)
(* observer reads at each offset; a params record has a junk size and a     *)
(* header range for each kind.                                              *)
(***************************************************************************)
HandshakeKinds == <<"initiation", "response", "cookie">>
Kinds == {"initiation", "response", "cookie", "transport"}
MessageLen == [initiation |-> 6, response |-> 4, cookie |-> 3, transport |-> 2]  \* scaled
HeaderRange(start, end) == [start |-> start, end |-> end]
contains(range, value) == range.start <= value /\ value <= range.end
overlaps(one, other) == one.start <= other.end /\ other.start <= one.end
pick(range, draw) == range.start + (draw % (range.end - range.start + 1))
(* The product of a draw below 2^32 and the span, shifted right by 32. *)
sample_padding(range, draw, draws) == range.start + (draw * (range.end - range.start + 1)) \div draws

validate(params, maxJunk) ==
    /\ \A k \in Kinds : params.junk[k] <= maxJunk
    /\ params.junk_max_size <= maxJunk
    /\ params.junk_packet_count > 0 => params.junk_min_size <= params.junk_max_size /\ params.junk_max_size # 0
    /\ \A one, other \in Kinds : one # other => ~overlaps(params.header[one], params.header[other])

(* obfuscate_into_with_window, for every draw: junk ahead, a header of the  *)
(* kind's range, a trailer within the window for all but transport.         *)
obfuscate_into_with_window(params, kind, window, head) ==
    LET bare == params.junk[kind] + MessageLen[kind]
        trailers == IF params.random_trailers /\ kind # "transport" /\ window > bare THEN 0 .. window - bare - 1 ELSE {0} IN
    {[kind |-> kind, len |-> bare + t, head |-> [head EXCEPT ![params.junk[kind]] = h]] :
        t \in trailers, h \in {pick(params.header[kind], draw) : draw \in HeaderValues}}

LooksLike(params, kind, d) ==
    LET expected == params.junk[kind] + MessageLen[kind] IN
    /\ IF params.random_trailers \/ kind = "transport" THEN d.len >= expected ELSE d.len = expected
    /\ contains(params.header[kind], d.head[params.junk[kind]])

handshake_body(params, d) == SelectSeq(HandshakeKinds, LAMBDA k : LooksLike(params, k, d))

(* A response or cookie is opened where its junk says it begins: keys and   *)
(* authentication refuse anything that is not that message; an initiation   *)
(* is never expected.                                                       *)
Opens(params, kind, d) == kind # "initiation" /\ d.kind = kind
Transport(params, d) == IF LooksLike(params, "transport", d) /\ d.kind = "transport" THEN "transport" ELSE "refused"

(* receive_datagram without header protection: the first match, or transport. *)
receive_datagram(params, d) ==
    \E first \in {IF handshake_body(params, d) = <<>> THEN "none" ELSE Head(handshake_body(params, d))} :
       d.kind = IF first # "none" /\ Opens(params, first, d) THEN first ELSE Transport(params, d)

(* receive_protected: every match in turn, then transport. *)
(* Mutant: the first kind whose header matches decides. *)
receive_protected_first(params, d) ==
    d.kind = IF handshake_body(params, d) # <<>> /\ Opens(params, Head(handshake_body(params, d)), d)
             THEN d.kind ELSE Transport(params, d)

receive_protected(params, d) ==
    d.kind = IF \E n \in 1 .. Len(handshake_body(params, d)) : Opens(params, handshake_body(params, d)[n], d)
             THEN d.kind ELSE Transport(params, d)

(* seal_now: how much a transport packet grows, never past the widest datagram so far. *)
seal_now(params, packet, window, draw, draws) ==
    LET minimum == params.junk["transport"] + MessageLen["transport"] + packet
        wide == IF window < minimum THEN minimum ELSE window
        selected == sample_padding(params.addition, draw, draws) IN
    [window |-> wide,
     len |-> minimum + (IF params.addition # HeaderRange(0, 0)
                        THEN IF selected < wide - minimum THEN selected ELSE wide - minimum
                        ELSE IF wide = minimum THEN 0 ELSE draw % (wide - minimum))]

(* ResolvedTimers::resolve: one drawn length, and the floors of two of them. *)
Draw(low, high, draw) == IF high <= low THEN low ELSE low + (draw % (high - low + 1))
resolve(low, high, draw) == LET n == Draw(low, high, draw) IN IF n < 1 THEN 1 ELSE n

(* render_junk_packets: the size of one. *)
JunkSize(low, high, draw) == low + (IF high <= low THEN 0 ELSE draw % (high - low + 1))

(***************************************************************************)
(* Whatever random bytes come ahead of it, a message of the peer is taken   *)
(* for what it is: always under header protection and, without it, unless   *)
(* the random bytes themselves read as the header of an earlier kind.       *)
(***************************************************************************)
TakenForWhatItIs(params, kind, window, head) ==
    validate(params, 4) =>
    \A d \in obfuscate_into_with_window(params, kind, window, head) :
        /\ receive_protected(params, d)
        /\ (\A k \in {"initiation", "response", "cookie"} \ {kind} : ~LooksLike(params, k, d)) => receive_datagram(params, d)

(* Padding keeps a datagram within the widest one already sent or needed,   *)
(* and every drawn length lies within the configured bounds.                *)
WithinBounds(params, packet, window, draw, draws, low, high) ==
    /\ LET sealed == seal_now(params, packet, window, draw, draws) IN sealed.len <= sealed.window /\ sealed.window >= window
    /\ resolve(low, high, draw) \in {1} \cup low .. (IF high < low THEN low ELSE high)
    /\ JunkSize(low, high, draw) \in low .. (IF high < low THEN low ELSE high)

(***************************************************************************)
(* Init packets: a tag is its key and its length (for bytes, how many).     *)
(***************************************************************************)
TagLen(tag) == CASE tag.key = "t" -> 4 [] tag.key \in {"d", "ds"} -> 0 [] OTHER -> tag.n
PacketLen(tags) == FoldLeft(LAMBDA sum, tag : sum + TagLen(tag), 0, tags)
InitPacket_new(tags) == IF PacketLen(tags) > MAX_INIT_PACKET_LEN THEN <<"refused">> ELSE <<"packet", tags>>
(* render: each tag appends exactly its bytes, named for the tag they come from. *)
renderTags(tags) == FoldLeft(LAMBDA out, tag : out \o [n \in 1 .. TagLen(tag) |-> tag.key], <<>>, tags)
(* render_spec and parse: text is a sequence of bracketed tags with an argument, or none. *)
render_spec(tags) == [n \in 1 .. Len(tags) |-> [key |-> tags[n].key,
                        argument |-> IF tags[n].key \in {"t", "d", "ds"} THEN "none" ELSE "count",
                        n |-> IF tags[n].key \in {"t", "d", "ds"} THEN 0 ELSE tags[n].n]]
(* decode_hex refuses an empty string; counts must parse; other keys are unknown. *)
parse_tag(text) ==
    \/ text.key = "b" /\ text.argument = "count" /\ text.n > 0
    \/ text.key \in {"r", "rc", "rd", "dz"} /\ text.argument = "count"
    \/ text.key \in {"t", "d", "ds"}
Tag(text) == [key |-> text.key, n |-> IF text.key \in {"t", "d", "ds"} THEN 0 ELSE text.n]

parse(spec) ==
    IF \A n \in 1 .. Len(spec) : parse_tag(spec[n])
    THEN InitPacket_new([n \in 1 .. Len(spec) |-> Tag(spec[n])])
    ELSE <<"refused">>

(* A template that was read is written back as text that reads the same,    *)
(* and is sent in exactly the length that was admitted.                     *)
TemplateKept(spec) ==
    LET read == parse(spec) IN
    read # <<"refused">> =>
        /\ \A n \in 1 .. Len(spec) : parse_tag(spec[n])
        /\ parse(render_spec(read[2])) = read
        /\ Len(renderTags(read[2])) = PacketLen(read[2]) /\ PacketLen(read[2]) <= MAX_INIT_PACKET_LEN
=============================================================================
