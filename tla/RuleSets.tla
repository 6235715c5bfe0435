------------------------------ MODULE RuleSets ------------------------------
(***************************************************************************)
(* What the DNS filter reads and what it blocks by: names in packets,      *)
(* responses with their aliases, and the rule sets from the lists of a     *)
(* publisher to the names a device blocks.                                 *)
(*                                                                         *)
(* read_name of foxcore-dns/src/wire.rs: a name is read label by label,    *)
(* following compression pointers anywhere in the packet, and the caller's *)
(* offset is moved past what the name occupies in place.  A packet is a    *)
(* sequence of cells, each a label, a pointer, the end of a name or an     *)
(* octet that cannot start either; one step is one turn of the loop.       *)
(***************************************************************************)
EXTENDS Integers, Sequences, FiniteSets, Relation, SequencesExt

CONSTANTS
  PacketLen,  \* cells of the packet
  MaxJumps,   \* MAX_POINTER_JUMPS
  MaxWire     \* labels a name may have: 255 octets of them

ASSUME NameAssumption == PacketLen \in Nat \ {0} /\ MaxJumps \in Nat /\ MaxWire \in Nat

Cells == [kind : {"label", "end", "bad"}, to : {0}] \cup [kind : {"pointer"}, to : 1..(PacketLen + 1)]

VARIABLES
  packet,    \* the packet, constant
  start,     \* where the caller's offset was
  offset,    \* the caller's offset
  position,  \* where the loop reads
  jumped, jumps, wire,
  labels,    \* the cells whose labels were taken, in order
  result     \* "reading", "name" or "none"

nameVars == <<packet, start, offset, position, jumped, jumps, wire, labels, result>>

NameInit ==
  /\ packet \in [1..PacketLen -> Cells]
  /\ start \in 1..PacketLen /\ offset = start /\ position = start
  /\ jumped = FALSE /\ jumps = 0 /\ wire = 0
  /\ labels = <<>> /\ result = "reading"

-----------------------------------------------------------------------------
Within == position \in 1..PacketLen
Cell == packet[position]
Fails == result' = "none" /\ UNCHANGED <<packet, start, offset, position, jumped, jumps, wire, labels>>

(* The packet ends, or the octet starts neither a label nor a pointer.     *)
Malformed ==
  /\ result = "reading"
  /\ (Within => Cell.kind = "bad")
  /\ Fails

(* Mutant: pointers are followed without counting.                         *)
PointerUncounted ==
  /\ result = "reading" /\ Within /\ Cell.kind = "pointer" /\ Cell.to <= PacketLen
  /\ offset' = IF jumped THEN offset ELSE position + 1
  /\ jumped' = TRUE /\ position' = Cell.to
  /\ UNCHANGED <<packet, start, jumps, wire, labels, result>>

(* A pointer is followed; the first one fixes where the caller goes on.    *)
Pointer ==
  /\ result = "reading" /\ Within /\ Cell.kind = "pointer"
  /\ Cell.to <= PacketLen /\ jumps < MaxJumps
  /\ offset' = IF jumped THEN offset ELSE position + 1
  /\ jumped' = TRUE /\ position' = Cell.to /\ jumps' = jumps + 1
  /\ UNCHANGED <<packet, start, wire, labels, result>>

PointerRefused ==
  /\ result = "reading" /\ Within /\ Cell.kind = "pointer"
  /\ Cell.to > PacketLen \/ jumps >= MaxJumps
  /\ Fails

Label ==
  /\ result = "reading" /\ Within /\ Cell.kind = "label" /\ wire < MaxWire
  /\ labels' = Append(labels, position)
  /\ wire' = wire + 1 /\ position' = position + 1
  /\ UNCHANGED <<packet, start, offset, jumped, jumps, result>>

TooLong ==
  /\ result = "reading" /\ Within /\ Cell.kind = "label" /\ wire >= MaxWire
  /\ Fails

(* The end of the name: without a jump the caller goes on after it.        *)
NameEnd ==
  /\ result = "reading" /\ Within /\ Cell.kind = "end"
  /\ result' = "name" /\ position' = position + 1
  /\ offset' = IF jumped THEN offset ELSE position + 1
  /\ UNCHANGED <<packet, start, jumped, jumps, wire, labels>>

Step == Malformed \/ Pointer \/ PointerRefused \/ Label \/ TooLong \/ NameEnd

NameNext == Step

(* The loop is one thread of control: it keeps taking turns.               *)
NameSpec == NameInit /\ [][NameNext]_nameVars /\ WF_nameVars(NameNext)

-----------------------------------------------------------------------------
(* Reading ends on every packet, pointer loops with and without labels     *)
(* between included.                                                       *)
ReadingEnds == <>(result # "reading")

(* The caller goes on right after the name's own cells: labels up to the   *)
(* first pointer or the end, whatever lies behind that pointer.  Two       *)
(* readers of one record therefore agree on where the next one starts.     *)
OffsetPastName ==
  result = "name" =>
    /\ offset > start
    /\ packet[offset - 1].kind \in {"pointer", "end"}
    /\ \A i \in start..(offset - 2) : packet[i].kind = "label"

(* What read_name owes its callers: it ends, and leaves them behind the    *)
(* name.                                                                   *)
NamesRead == ReadingEnds /\ []OffsetPastName

-----------------------------------------------------------------------------
(***************************************************************************)
(* What the interceptor reads out of a DNS response (foxcore-dns wire.rs): *)
(* whether it answers the query, its smallest TTL, the chain of aliases    *)
(* the blocklist is asked about, and the addresses that become routing     *)
(* hints.  The alias chain and the addresses are read by two functions     *)
(* that walk the same records on their own.                                *)
(*                                                                         *)
(* A response is a record of decoded fields.  A packet that ends early is  *)
(* marked by the section it ends in.  The module's behaviours have one     *)
(* step: a response is chosen and what the functions say of it is checked. *)
(***************************************************************************)

CONSTANTS
  Hosts,       \* domain names; the query asks for Question
  Question,    \* the name the query asks for
  Addrs,       \* addresses
  Ttls,        \* TTLs of records
  MaxRecords,  \* answer records of a response
  MaxChain     \* alias steps response_domain_chain follows: 32

ASSUME MessageAssumption == Question \in Hosts /\ Ttls \subseteq Nat /\ MaxChain \in Nat

VARIABLE response

(* An answer record: an alias to a name, or an address of the type that    *)
(* was asked for; "other" stands for every other type and class.           *)
Records ==
  [kind : {"alias"}, owner : Hosts, target : Hosts, ttl : Ttls] \cup
  [kind : {"address"}, owner : Hosts, target : Addrs, ttl : Ttls] \cup
  [kind : {"other"}, owner : {Question}, target : {Question}, ttl : Ttls]

(* same: the transaction ID and the question are the query's own.          *)
Headers ==
  [same : BOOLEAN, reply : BOOLEAN, truncated : BOOLEAN, rcode : {0, 3},
   cut : {"none", "answers", "rest"}]

Responses ==
  [header : Headers, answers : UNION {[1..n -> Records] : n \in 0..MaxRecords}]

None == [ok |-> FALSE, value |-> {}]
Some(v) == [ok |-> TRUE, value |-> v]

-----------------------------------------------------------------------------
(* response_metadata: a reply with the query's ID and question, whole.     *)
ResponseMetadata(r) == r.header.same /\ r.header.reply /\ r.header.cut = "none"

AliasAt(r) == {i \in DOMAIN r.answers : r.answers[i].kind = "alias"}

(* Inserting an alias whose owner is already there makes both readers give *)
(* up.                                                                     *)
Duplicate(r) == \E i, j \in AliasAt(r) : i # j /\ r.answers[i].owner = r.answers[j].owner
AliasOf(r, name) == {i \in AliasAt(r) : r.answers[i].owner = name}

(* The walk both readers make from the question: the indexes of the        *)
(* aliases followed, at most one more than there are aliases.              *)
Walk(r) ==
  LET w[n \in 0..(Cardinality(AliasAt(r)) + 1)] ==
        IF n = 0 THEN <<>>
        ELSE LET at == IF w[n - 1] = <<>> THEN Question
                       ELSE r.answers[w[n - 1][Len(w[n - 1])]].target
             IN  IF AliasOf(r, at) = {} THEN w[n - 1]
                 ELSE Append(w[n - 1], CHOOSE i \in AliasOf(r, at) : TRUE)
  IN  w[Cardinality(AliasAt(r)) + 1]

(* A name seen twice ends the walk with nothing.                           *)
Loop(r) == Len(Walk(r)) > Cardinality(AliasAt(r))
LastOwner(r) == IF Walk(r) = <<>> THEN Question ELSE r.answers[Walk(r)[Len(Walk(r))]].target

(* Mutant: the last alias is left out of the chain.                        *)
ResponseDomainChainShort(r) ==
  IF ~ResponseMetadata(r) \/ Duplicate(r) \/ Loop(r) THEN None
  ELSE Some({r.answers[Walk(r)[i]].target : i \in 1..(Len(Walk(r)) - 1)})

(* response_domain_chain: the names a blocklist is asked about.  It looks  *)
(* past truncation, and answers an error code with an empty chain.         *)
ResponseDomainChain(r) ==
  IF ~ResponseMetadata(r) THEN None
  ELSE IF r.header.rcode # 0 THEN Some({})
  ELSE IF Duplicate(r) \/ Loop(r) \/ Len(Walk(r)) > MaxChain THEN None
  ELSE Some({r.answers[Walk(r)[i]].target : i \in 1..Len(Walk(r))})

(* parse_addresses: the addresses owned by the end of the chain, each with *)
(* the smallest TTL met on the way to it.                                  *)
ParseAddresses(r) ==
  IF ~r.header.reply \/ r.header.truncated \/ r.header.rcode # 0 \/ r.header.cut = "answers"
       \/ Duplicate(r) \/ Loop(r) THEN None
  ELSE LET met == {r.answers[Walk(r)[n]].ttl : n \in 1..Len(Walk(r))}
           Least(ts) == CHOOSE t \in ts : \A u \in ts : t <= u
           taken == {i \in DOMAIN r.answers :
                       r.answers[i].kind = "address" /\ r.answers[i].owner = LastOwner(r)}
       IN  Some({<<r.answers[i].target, Least(met \cup {r.answers[i].ttl})>> : i \in taken})

MessageInit == response \in Responses
MessageNext == UNCHANGED response
MessageSpec == MessageInit /\ [][MessageNext]_response

-----------------------------------------------------------------------------
(* What learn_route_hints and the proxy's alias check work from.           *)
Hints(r) == IF ResponseMetadata(r) THEN ParseAddresses(r) ELSE None

(* The alias records as a graph on names.                                  *)
AliasGraph(r) ==
  TransitiveClosure([p \in Hosts \X Hosts |->
    \E i \in AliasAt(r) : r.answers[i].owner = p[1] /\ r.answers[i].target = p[2]], Hosts)
Reached(r) == {Question} \cup {n \in Hosts : AliasGraph(r)[Question, n]}

(* 01-protocols.md: hints follow "only the question's CNAME chain", ignore *)
(* "unrelated answer records", and their expiry is "bounded by both alias  *)
(* and address TTLs".  Stated on the graph of all aliases, apart from the  *)
(* walk: a hint's address is owned by a name reached from the question,    *)
(* with a TTL of at most that of the record and of every alias reached;    *)
(* the response is the query's own; and the blocklist was shown every name *)
(* reached, or the chain was refused.                                      *)
NoUncheckedAlias ==
  Hints(response).ok /\ Hints(response).value # {} =>
    /\ response.header.same
    /\ \A hint \in Hints(response).value :
         \E i \in DOMAIN response.answers :
           /\ response.answers[i].kind = "address" /\ response.answers[i].target = hint[1]
           /\ response.answers[i].owner \in Reached(response)
           /\ \A j \in {i} \cup AliasAt(response) :
                response.answers[j].owner \in Reached(response) => hint[2] <= response.answers[j].ttl
    /\ \/ ~ResponseDomainChain(response).ok
       \/ Reached(response) \ {Question} \subseteq ResponseDomainChain(response).value

-----------------------------------------------------------------------------
(***************************************************************************)
(* DNS rule sets, from the lists a publisher compiles to the names a device *)
(* blocks (foxcore-route: ruleset.rs, ruleset/categories.rs, domain.rs and  *)
(* bin/foxcore-dns-compile.rs).                                             *)
(*                                                                           *)
(* A name is a sequence of labels as written, the host first; "" is the     *)
(* label between two dots.  A key is the sequence of bytes a map is walked  *)
(* by.  Flags are sets of "exact", "suffix" and categories.  A digest is    *)
(* what was digested, a signature the name of the signer.                   *)
(***************************************************************************)

CONSTANTS
    LabelBytes(_),   \* the bytes of a label
    MaxDomain,       \* MAX_DOMAIN_BYTES
    MaxLabel,        \* 63 in the code
    MaxEntries,      \* MAX_RULE_ENTRIES
    MaxSkew,         \* RuleSetVerificationPolicy.max_future_skew_s
    MaxValidity      \* RuleSetVerificationPolicy.max_validity_s

VARIABLE rules       \* what was published, the clock, and what the device installed

Kinds == {"exact", "suffix"}
(* DnsCategory, in the order of its declaration. *)
CATEGORIES == <<"malicious", "telemetry", "trackers", "ads">>
Index(category) == CHOOSE n \in 1 .. 4 : CATEGORIES[n] = category

(***************************************************************************)
(* Names and keys.                                                          *)
(***************************************************************************)
Lowered(name) == [n \in 1 .. Len(name) |-> IF name[n] = "A" THEN "a" ELSE name[n]]
Joined(name) == FlattenSeq([n \in 1 .. Len(name) |-> IF n = 1 THEN LabelBytes(name[n]) ELSE <<".">> \o LabelBytes(name[n])])
(* <<>> stands for a name with no key. *)
reversed_key(name) ==
    LET key == Joined(Lowered(SelectSeq(Reverse(name), LAMBDA label : label # ""))) IN IF Len(key) > MaxDomain THEN <<>> ELSE key

LabelsValid(key) ==
    /\ \A n \in 1 .. Len(key) : key[n] = "." => n > 1 /\ n < Len(key) /\ key[n - 1] # "."
    /\ \A n \in 1 .. Len(key) - MaxLabel : "." \in {key[i] : i \in n .. n + MaxLabel}
valid_reversed_domain(key) ==
    key # <<>> /\ Len(key) < MaxDomain /\ ToSet(key) \subseteq {"a", "b", "."} /\ LabelsValid(key)

valid_domain(name) == Len(Joined(name)) <= MaxDomain - 2 /\ valid_reversed_domain(Joined(name))
(* Outer dots go, then leading "*." as long as a label follows. *)
Trimmed(name) ==
    LET full == {n \in 1 .. Len(name) : name[n] # ""} IN IF full = {} THEN <<>> ELSE SubSeq(name, Min(full), Max(full))
Unstarred(name) ==
    IF name = <<>> THEN name ELSE SubSeq(name, Min({n \in 1 .. Len(name) : name[n] # "*" \/ n = Len(name)}), Len(name))
(* normalize_domain of the compiler; <<>> where it fails. *)
normalize_domain(name) == LET domain == Lowered(Unstarred(Trimmed(name))) IN IF valid_domain(domain) THEN domain ELSE <<>>

(***************************************************************************)
(* Maps.  The walk follows the bytes of the key from the root, taking the   *)
(* flags of a suffix entry at each dot and any entry at the end.            *)
(***************************************************************************)
selected_flags(flags, mask) ==
    IF mask = {"all"} THEN flags ELSE IF flags \cap mask = {} THEN {} ELSE flags \cap (Kinds \cup mask)
Flags(map, key) == IF key \in DOMAIN map THEN map[key] ELSE {}
(* Mutant: an entry counts wherever the bytes of its key end. *)
lookup_map_anywhere(map, key, mask) ==
    LET At(n) == SubSeq(key, 1, n) IN
    UNION ({selected_flags(Flags(map, At(n - 1)), mask) : n \in {i \in 1 .. Len(key) : "suffix" \in Flags(map, At(i - 1))}}
           \cup {selected_flags(Flags(map, key), mask)})

lookup_map_selected(map, key, mask) ==
    LET At(n) == SubSeq(key, 1, n)
        Walked(n) == \E k \in DOMAIN map : IsPrefix(At(n - 1), k) IN
    UNION ({selected_flags(Flags(map, At(n - 1)), mask) :
              n \in {i \in 1 .. Len(key) : Walked(i) /\ key[i] = "." /\ "suffix" \in Flags(map, At(i - 1))}}
           \cup {selected_flags(Flags(map, key), mask)})
lookup_map(map, key) == lookup_map_selected(map, key, {"all"})

(* One map from <<name, flags>> pairs; flags of one key are joined. *)
compile_map(pairs) ==
    [key \in {reversed_key(p[1]) : p \in pairs} \ {<<>>} |-> UNION {p[2] : p \in {q \in pairs : reversed_key(q[1]) = key}}]

(***************************************************************************)
(* DomainBlocklist.                                                         *)
(***************************************************************************)
(* Sources are [category, exact, suffixes]; category is a set of at most one. *)
compile_sources(sources) ==
    LET map == compile_map(UNION {{<<name, {"exact"} \cup s.category>> : name \in s.exact}
                                  \cup {<<name, {"suffix"} \cup s.category>> : name \in s.suffixes} : s \in sources}) IN
    [maps |-> IF DOMAIN map = {} THEN {} ELSE {[map |-> map, enabled |-> {"all"}]}, allow |-> {}]
with_allowlist(list, exact, suffixes) ==
    LET map == compile_map({<<name, {"exact"}>> : name \in exact} \cup {<<name, {"suffix"}>> : name \in suffixes}) IN
    IF DOMAIN map = {} THEN list ELSE [list EXCEPT !.allow = @ \cup {map}]
with_rule_sets(list, sets) ==
    LET used == {s \in sets : s.enabled # {}} IN
    [maps |-> list.maps \cup {[map |-> s.block, enabled |-> s.enabled] : s \in {t \in used : t.block_entries > 0}},
     allow |-> list.allow \cup {s.allow : s \in {t \in used : t.allow_entries > 0}}]
(* The flags of a verdict; {} for a name that is not blocked. *)
lookup(list, name) ==
    LET key == reversed_key(name) IN
    IF key = <<>> \/ \E map \in list.allow : lookup_map(map, key) # {} THEN {}
    ELSE UNION {lookup_map_selected(m.map, key, m.enabled) : m \in list.maps}

(***************************************************************************)
(* Artifacts: the header, as far as it can be wrong, and the two maps.      *)
(***************************************************************************)
assemble_artifact(source, block, allow) ==
    [framed |-> TRUE, block_entries |-> Cardinality(DOMAIN block), allow_entries |-> Cardinality(DOMAIN allow),
     block |-> block, allow |-> allow, source |-> source]
validate_map(map, expected, block) ==
    /\ Cardinality(DOMAIN map) = expected
    /\ \A key \in DOMAIN map : /\ valid_reversed_domain(key) /\ map[key] \cap Kinds # {}
                               /\ map[key] \subseteq Kinds \cup (IF block THEN ToSet(CATEGORIES) ELSE {})
SuffixCategorized(map, block) ==
    \A key \in DOMAIN map : map[key] \cap Kinds = {"suffix"} /\ (block => map[key] \cap ToSet(CATEGORIES) # {})
Counts(map) == [c \in ToSet(CATEGORIES) |-> Cardinality({key \in DOMAIN map : c \in map[key]})]
parse_artifact(a) ==
    /\ a.framed /\ a.block_entries <= MaxEntries /\ a.allow_entries <= MaxEntries
    /\ validate_map(a.block, a.block_entries, TRUE) /\ validate_map(a.allow, a.allow_entries, FALSE)
(* categorized_counts is present. *)
artifact_categories(a) ==
    SuffixCategorized(a.block, TRUE) /\ SuffixCategorized(a.allow, FALSE) /\ \E c \in ToSet(CATEGORIES) : Counts(a.block)[c] > 0
available_mask(counts) == {c \in ToSet(CATEGORIES) : counts[c] > 0}

(* A category list names one at least, in order, each once. *)
category_mask_ok(list) == list # <<>> /\ \A n \in 1 .. Len(list) - 1 : Index(list[n]) < Index(list[n + 1])
(* Sources are [id, categories, well_formed]. *)
validate_sources(sources, available) ==
    /\ sources # <<>> /\ \A n \in 1 .. Len(sources) : sources[n].well_formed /\ category_mask_ok(sources[n].categories)
    /\ \A n \in 1 .. Len(sources) - 1 : sources[n].id < sources[n + 1].id
    /\ UNION {ToSet(sources[n].categories) : n \in 1 .. Len(sources)} = available

(***************************************************************************)
(* The compiler.  A list is a set of rules [action, name, readable];        *)
(* readable: anchored, without path, port or modifier other than important. *)
(***************************************************************************)
parse_dns_rule(rule) == IF rule.readable /\ "*" \notin ToSet(rule.name) THEN normalize_domain(rule.name) ELSE <<>>
(* reversed_key of a name normalize_domain let through is never <<>>. *)
compile_suffix_map(names, category) == compile_map({<<name, {"suffix"} \cup category>> : name \in names})
NoList == [framed |-> FALSE]
run_list(list, allowlist, category) ==
    LET Of(action) == {parse_dns_rule(r) : r \in {q \in list : q.action = action}} \ {<<>>}
        allow == Of("allow") \cup {normalize_domain(name) : name \in allowlist}
        block == Of("block") \ allow IN
    IF <<>> \in allow \/ block = {} THEN NoList
    ELSE assemble_artifact(<<"list", list>>, compile_suffix_map(block, {category}), compile_suffix_map(allow, {}))

(* Tagged input: block gives each name its categories; sorted says that all *)
(* lists are in order.                                                      *)
compile_tagged(input) ==
    IF /\ input.canonical /\ input.sorted /\ category_mask_ok(input.categories) /\ validate_sources(input.sources, ToSet(input.categories))
       /\ DOMAIN input.block # {} /\ Cardinality(DOMAIN input.block) <= MaxEntries
       /\ \A name \in DOMAIN input.block : valid_domain(name) /\ category_mask_ok(input.block[name])
       /\ UNION {ToSet(input.block[name]) : name \in DOMAIN input.block} = ToSet(input.categories)
       /\ \A name \in input.allow : valid_domain(name)
    THEN assemble_artifact(<<"tagged", input>>, compile_map({<<name, {"suffix"} \cup ToSet(input.block[name])>> : name \in DOMAIN input.block}),
                           compile_suffix_map(input.allow, {}))
    ELSE NoList

(***************************************************************************)
(* The device.  A bundle is [manifest, signer, artifact]; policy is [name,  *)
(* floor, now, key].                                                        *)
(***************************************************************************)
InWindow(m, policy) ==
    /\ m.sequence >= policy.floor /\ m.generated <= policy.now + MaxSkew
    /\ m.expires > m.generated /\ policy.now < m.expires /\ m.expires - m.generated <= MaxValidity
Matches(m, artifact) ==
    /\ m.digest = artifact /\ m.block_entries <= MaxEntries /\ m.allow_entries <= MaxEntries
(* Mutant: the artifact is not compared with the manifest's digest. *)
validate_manifest_any(m, artifact, policy) ==
    m.schema = 2 /\ m.name = policy.name /\ m.well_formed /\ InWindow(m, policy) /\ m.key = policy.key

validate_manifest(m, artifact, policy) ==
    m.schema = 2 /\ m.name = policy.name /\ m.well_formed /\ InWindow(m, policy) /\ m.key = policy.key /\ Matches(m, artifact)
verify_categorized(m, artifact, policy) ==
    /\ m.canonical /\ m.name = policy.name /\ m.name = m.tiers
    /\ category_mask_ok(m.categories) /\ validate_sources(m.sources, ToSet(m.categories))
    /\ m.sequence # 0 /\ InWindow(m, policy) /\ m.key = policy.key /\ Matches(m, artifact)
    /\ parse_artifact(artifact) /\ artifact_categories(artifact)
    /\ artifact.block_entries = m.block_entries /\ artifact.allow_entries = m.allow_entries /\ artifact.source = m.input
    /\ Counts(artifact.block) = m.counts /\ available_mask(m.counts) = ToSet(m.categories)
verify_rule_set(bundle, policy) ==
    LET m == bundle.manifest IN
    /\ bundle.signer = policy.key
    /\ IF m.schema = 3 THEN verify_categorized(m, bundle.artifact, policy)
       ELSE /\ validate_manifest(m, bundle.artifact, policy) /\ parse_artifact(bundle.artifact)
            /\ bundle.artifact.block_entries = m.block_entries /\ bundle.artifact.allow_entries = m.allow_entries
            /\ bundle.artifact.source = m.input

(* Selection: only sets with categories have any to select; {"all"} is None. *)
Selectable(bundle, selected) ==
    IF bundle.manifest.schema # 3 THEN selected = <<"none">>
    ELSE /\ selected # <<"none">> /\ Cardinality(ToSet(selected)) = Len(selected)
         /\ ToSet(selected) \subseteq ToSet(bundle.manifest.categories)
select_categories(bundle, selected) ==
    [block |-> bundle.artifact.block, allow |-> bundle.artifact.allow,
     block_entries |-> bundle.artifact.block_entries, allow_entries |-> bundle.artifact.allow_entries,
     enabled |-> IF selected = <<"none">> THEN {"all"} ELSE ToSet(selected)]

(***************************************************************************)
(* The publisher signs what it compiled; the device may be handed any       *)
(* manifest with any artifact at any time.                                  *)
(***************************************************************************)
NothingInstalled == [signer |-> "none"]
ManifestOf(name, artifact, sequence, generated, expires) ==
    [schema |-> 2, name |-> name, well_formed |-> TRUE, sequence |-> sequence, generated |-> generated, expires |-> expires, key |-> "publisher",
     digest |-> artifact, block_entries |-> artifact.block_entries, allow_entries |-> artifact.allow_entries, input |-> artifact.source]
CategorizedManifestOf(name, artifact, sequence, generated, expires, input) ==
    [schema |-> 3, canonical |-> TRUE, name |-> name, tiers |-> name, sequence |-> sequence, generated |-> generated, expires |-> expires, key |-> "publisher",
     digest |-> artifact, block_entries |-> artifact.block_entries, allow_entries |-> artifact.allow_entries, input |-> artifact.source,
     categories |-> input.categories, sources |-> input.sources, counts |-> Counts(artifact.block)]
Policy(r) == [name |-> r.name, floor |-> r.floor, now |-> r.now, key |-> "publisher"]

RulesInit(name, allowlist, inline) ==
    rules = [name |-> name, now |-> 0, floor |-> 0, published |-> {}, refused |-> FALSE, installed |-> NothingInstalled, at |-> 0, selected |-> <<"none">>,
             allowlist |-> allowlist, inline |-> inline]
Signed(manifest, artifact) == [manifest |-> manifest, signer |-> "publisher", artifact |-> artifact]
PublishList(list, category, sequence, validity) ==
    \E artifact \in {run_list(list, rules.allowlist, category)} :
       rules' = IF artifact = NoList THEN [rules EXCEPT !.refused = TRUE]
                ELSE [rules EXCEPT !.published = @ \cup {Signed(ManifestOf(rules.name, artifact, sequence, rules.now, rules.now + validity), artifact)}]
PublishTagged(input, sequence, validity) ==
    \E artifact \in {compile_tagged(input)} :
       rules' = IF artifact = NoList THEN [rules EXCEPT !.refused = TRUE]
                ELSE [rules EXCEPT !.published =
                        @ \cup {Signed(CategorizedManifestOf(rules.name, artifact, sequence, rules.now, rules.now + validity, input), artifact)}]
Damaged(artifact) == {[artifact EXCEPT !.framed = FALSE], [artifact EXCEPT !.block_entries = @ + 1], [artifact EXCEPT !.block = artifact.allow]}
Handed ==
    {[manifest |-> p.manifest, signer |-> signer, artifact |-> artifact] :
        p \in rules.published, signer \in {"publisher", "another"},
        artifact \in {q.artifact : q \in rules.published} \cup UNION {Damaged(q.artifact) : q \in rules.published}}
InstallBundle(bundle, selected) ==
    /\ verify_rule_set(bundle, Policy(rules)) /\ Selectable(bundle, selected)
    /\ rules' = [rules EXCEPT !.installed = bundle, !.floor = bundle.manifest.sequence, !.at = rules.now, !.selected = selected]
ClockMoves == rules' = [rules EXCEPT !.now = @ + 1]

(* What the proxy looks names up in. *)
Blocklist ==
    LET inline == with_allowlist(compile_sources({[category |-> {}, exact |-> rules.inline.exact, suffixes |-> rules.inline.suffixes]}),
                                 rules.inline.allow, {}) IN
    IF rules.installed = NothingInstalled THEN inline ELSE with_rule_sets(inline, {select_categories(rules.installed, rules.selected)})

(***************************************************************************)
(* What is installed was published under this key for this name, whole and  *)
(* within its window, never older than what was there; and what was         *)
(* published in order is accepted while its window is open.                 *)
(***************************************************************************)
RuleSetsPublished ==
    /\ rules.installed # NothingInstalled =>
         /\ rules.installed \in rules.published /\ rules.floor = rules.installed.manifest.sequence
         /\ rules.at < rules.installed.manifest.expires /\ rules.installed.manifest.expires - rules.installed.manifest.generated <= MaxValidity
    /\ \A p \in rules.published : InWindow(p.manifest, Policy(rules)) /\ p.manifest.sequence > 0 => verify_rule_set(p, Policy(rules))

(* The rules as written: an entry covers itself and, as a suffix, every name *)
(* that ends in its labels.                                                  *)
LabelsOf(name) == Lowered(SelectSeq(name, LAMBDA label : label # ""))
Covers(entry, name) == IsSuffix(LabelsOf(entry), LabelsOf(name))
Written(kind, input, selected) ==
    IF kind = "list" THEN [block |-> [name \in {Trimmed(r.name) : r \in {q \in input : q.action = "block" /\ parse_dns_rule(q) # <<>>}} |-> {}],
                           allow |-> {r.name : r \in {q \in input : q.action = "allow" /\ parse_dns_rule(q) # <<>>}} \cup {Unstarred(Trimmed(name)) : name \in rules.allowlist}]
    ELSE [block |-> [name \in {n \in DOMAIN input.block : ToSet(input.block[n]) \cap ToSet(selected) # {}} |-> ToSet(input.block[name]) \cap ToSet(selected)],
          allow |-> IF selected = <<>> THEN {} ELSE input.allow]
WrittenRules ==
    IF rules.installed = NothingInstalled THEN [block |-> [name \in {} |-> {}], allow |-> {}]
    ELSE Written(rules.installed.artifact.source[1], rules.installed.artifact.source[2], rules.selected)

(***************************************************************************)
(* A name is blocked exactly when a rule in force covers it by whole labels *)
(* and no allow rule does, whatever was compiled, selected or replaced on   *)
(* the way; and the categories reported are those of the rules that cover   *)
(* it, of the selected ones only.                                           *)
(***************************************************************************)
BlocksAsListed(names) ==
    \E written \in {WrittenRules}, list \in {Blocklist} : \A name \in names :
        LET covering == {e \in DOMAIN written.block : Covers(e, name)}
            allowed == (\E e \in written.allow : Covers(e, name)) \/ \E e \in rules.inline.allow : LabelsOf(e) = LabelsOf(name)
            inline == (\E e \in rules.inline.exact : LabelsOf(e) = LabelsOf(name)) \/ \E e \in rules.inline.suffixes : Covers(e, name)
            verdict == lookup(list, name) IN
        /\ (verdict # {}) = (~allowed /\ (covering # {} \/ inline))
        /\ rules.selected # <<"none">> /\ verdict # {} => verdict \ Kinds = UNION {written.block[e] : e \in covering}
=============================================================================
