------------------------------ MODULE MCPolicy -------------------------------
(* The policy for TLC: the store with its two consumers, flows and the     *)
(* packet split; the decision of a route table; the reading of responses   *)
(* and of names; the rule sets.  A cast says which part moves and what of  *)
(* the constants it uses; the other parts rest.                            *)
EXTENDS FlowAdmission, RouteDecision, RuleSets

CONSTANTS c1, c2, ads, key1, key2, app, k1, k2, k3

VARIABLE cast   \* fixed by the initial state

decisionVars == <<routeVars, response, nameVars, rules>>

Pin(key, minimum, required) == [key |-> key, minimum |-> minimum, required |-> required]

Document(kill, blocked, continuity, source) ==
  [kill |-> kill, continuity |-> continuity, blocked |-> blocked,
   sources |-> [n \in Names |-> source]]

Allowing == Document(FALSE, {}, FALSE, Unpinned)
Killed == Document(TRUE, {}, FALSE, Unpinned)
Blocking == Document(FALSE, {app}, TRUE, Unpinned)
PinsFirst == Document(FALSE, {}, FALSE, Pin(key1, 1, FALSE))
NeedsSecond == Document(FALSE, {}, FALSE, Pin(key2, 2, TRUE))
KillsAndNeeds == Document(TRUE, {}, FALSE, Pin(key1, 2, TRUE))

Documents == {Allowing, Killed, Blocking, PinsFirst, NeedsSecond, KillsAndNeeds}

Bundle(key, sequence, bytes) ==
  [name |-> ads, key |-> key, sequence |-> sequence, bytes |-> bytes, categorized |-> TRUE]

FourBundles ==
  {Bundle(key1, 1, "a"), Bundle(key1, 2, "b"), Bundle(key1, 2, "c"), Bundle(key2, 3, "d")}

(* Two controllers that race for the epochs.                               *)
Racing == [part |-> "store", controllers |-> {c1, c2}, documents |-> {Allowing, Blocking, Killed},
           bundles |-> {}, revisions |-> 2, epochs |-> 3, keys |-> {}, rows |-> 0]
(* Pinned rule sets, refused documents and bundles that lapse.             *)
Pinning == [part |-> "store", controllers |-> {c1},
            documents |-> {PinsFirst, NeedsSecond, KillsAndNeeds, Killed},
            bundles |-> FourBundles, revisions |-> 3, epochs |-> 2, keys |-> {}, rows |-> 0]
(* Flows under reloads, the kill switch, network changes and revocations.  *)
Flowing == [part |-> "flow", controllers |-> {c1}, documents |-> {Allowing, Blocking, Killed},
            bundles |-> {}, revisions |-> 2, epochs |-> 3, keys |-> {}, rows |-> 0]
(* One 5-tuple under every reload, then three in a cache of two.           *)
Deciding == [part |-> "packet", controllers |-> {c1}, documents |-> {Allowing, Killed},
             bundles |-> {}, revisions |-> 2, epochs |-> 3, keys |-> {k1}, rows |-> 2]
Caching == [part |-> "packet", controllers |-> {}, documents |-> {Allowing},
            bundles |-> {}, revisions |-> 1, epochs |-> 1, keys |-> {k1, k2, k3}, rows |-> 3]

PolicyCasts == {Racing, Pinning, Flowing, Deciding, Caching}

(* The store stays within the documents, bundles and bounds of the cast.   *)
InCast(s, bundles, controllers, epoch) ==
  /\ \E d \in cast.documents :
       /\ s.blocked = d.blocked /\ s.continuity = d.continuity /\ s.sources = d.sources
       /\ s.kill => \E e \in cast.documents : e.kill
  /\ s.revision <= cast.revisions + 1 /\ epoch <= cast.epochs + 1
  /\ bundles \subseteq cast.bundles \cup {NoBundle}
  /\ controllers \subseteq cast.controllers

-----------------------------------------------------------------------------
(* Tables have up to three rules drawn from a list that has every kind of  *)
(* selector, with nested suffixes.  Responses have every header with one   *)
(* record and the good header with up to MaxRecords.  Packets are all      *)
(* those of PacketLen cells.                                               *)
MCDomains == {<<"com">>, <<"com", "a">>, <<"com", "a", "b">>}

Rule(exact, suffixes, package, cidr, expires, action) ==
  [exact |-> exact, suffixes |-> suffixes, package |-> package, cidr |-> cidr,
   expires |-> expires, action |-> action]

RuleList ==
  { Rule({<<"com", "a">>}, {}, AnyPackage, FALSE, 0, "Direct"),
    Rule({<<"com", "a", "b">>}, {}, AnyPackage, FALSE, 1, "Tor"),
    Rule({}, {<<"com">>}, AnyPackage, FALSE, 0, "Vpn"),
    Rule({}, {<<"com", "a">>}, "p", FALSE, 0, "Block"),
    Rule({}, {<<"com", "a", "b">>}, AnyPackage, TRUE, 0, "Direct"),
    Rule({}, {}, AnyPackage, TRUE, 1, "Block"),
    Rule({}, {}, "q", FALSE, 0, "Tor"),
    Rule({}, {}, AnyPackage, FALSE, 0, "Direct") }

Entry(action, expires) == [action |-> action, expires |-> expires]
Applications ==
  { [p |-> NoEntry, q |-> NoEntry], [p |-> Entry("Direct", 0), q |-> NoEntry],
    [p |-> Entry("Tor", 0), q |-> Entry("Direct", 1)], [p |-> Entry("Block", 1), q |-> NoEntry] }

TablesOf(lists, applications) ==
  [rules : lists, applications : applications, default : {"Direct", "Vpn", "Block"},
   known : {{"p"}}, pinned : {{"p"}}, quarantine : BOOLEAN, overlay : BOOLEAN, kill : {FALSE}]

(* Quarantine and the overlay vary with the default; three rules come      *)
(* without application entries.                                            *)
Setting(t) ==
  <<t.default, t.quarantine, t.overlay>> \in
    {<<"Direct", FALSE, TRUE>>, <<"Vpn", FALSE, FALSE>>, <<"Block", TRUE, TRUE>>}
MCTables ==
  {t \in TablesOf(UNION {[1..m -> RuleList] : m \in 0..2}, Applications) : Setting(t)} \cup
  {t \in TablesOf({rs \in [1..3 -> {r \in RuleList : r.package # "q" /\ r.expires = 0}] : IsInjective(rs)}, {[p |-> NoEntry, q |-> NoEntry]}) :
     t.default = "Direct" /\ Setting(t)}

GoodHeader == [same |-> TRUE, reply |-> TRUE, truncated |-> FALSE, rcode |-> 0, cut |-> "none"]
MCResponses == {r \in Responses : Len(r.answers) <= 1 \/ r.header = GoodHeader}

AnyResponse == [header |-> GoodHeader, answers |-> <<>>]
NoResponse == response = AnyResponse
NoName ==
  /\ packet = [i \in 1..PacketLen |-> [kind |-> "end", to |-> 0]] /\ start = 1 /\ offset = 2 /\ position = 2
  /\ jumped = FALSE /\ jumps = 0 /\ wire = 0 /\ labels = <<>> /\ result = "name"

(* Rule sets: labels of one and two letters, names of up to three labels;  *)
(* lists that nest, allow, capitalise and double dots; two publications.   *)
MCLabelBytes(label) == CASE label = "a" -> <<"a">> [] label = "b" -> <<"b">> [] label = "ab" -> <<"a", "b">> [] label = "aab" -> <<"a", "a", "b">>
                         [] label = "A" -> <<"A">> [] label = "*" -> <<"*">> [] OTHER -> <<>>
MCNames == UNION {[1 .. n -> {"a", "b", "ab", "A"}] : n \in 1 .. 2} \cup {<<"b", "a", "b">>, <<"a", "b", "">>, <<"b", "", "a">>, <<"a", "ab", "a">>, <<"aab">>, <<"ab", "aab">>}
Line(action, name) == [action |-> action, name |-> name, readable |-> TRUE]
MCLists ==
  { {Line("block", <<"b">>), Line("allow", <<"a", "b">>)}, {Line("block", <<"a", "b">>), Line("block", <<"ab">>), Line("allow", <<"b">>)},
    {Line("block", <<"A", "b", "">>), Line("block", <<"b", "a">>), [action |-> "block", name |-> <<"a">>, readable |-> FALSE]},
    {Line("block", <<"ab">>), Line("allow", <<"ab">>)}, {Line("block", <<"*", "a">>)}, {Line("block", <<"aab", "ab">>), Line("block", <<"b">>)} }
Tagged(categories, block, allow) ==
  [canonical |-> TRUE, sorted |-> TRUE, categories |-> categories, block |-> block, allow |-> allow,
   sources |-> <<[id |-> 1, categories |-> categories, well_formed |-> TRUE]>>]
MCTagged ==
  { Tagged(<<"trackers", "ads">>, [n \in {<<"b">>, <<"a", "b">>} |-> IF n = <<"b">> THEN <<"ads">> ELSE <<"trackers">>], {<<"b", "a", "b">>}),
    Tagged(<<"malicious">>, [n \in {<<"ab">>} |-> <<"malicious">>], {}), Tagged(<<"ads", "malicious">>, [n \in {<<"ab">>} |-> <<"ads", "malicious">>], {}),
    [Tagged(<<"ads">>, [n \in {<<"A">>} |-> <<"ads">>], {}) EXCEPT !.sorted = FALSE], Tagged(<<"ads">>, [n \in {<<"A">>} |-> <<"ads">>], {}),
    Tagged(<<"trackers", "ads">>, [n \in {<<"b">>} |-> <<"ads">>], {}) }
MCSelections == {<<"none">>, <<>>, <<"ads">>, <<"trackers", "ads">>, <<"ads", "ads">>, <<"malicious">>}
NoInline == [exact |-> {}, suffixes |-> {}, allow |-> {}]
MCInline == {NoInline, [exact |-> {<<"a", "A">>}, suffixes |-> {<<"a">>}, allow |-> {<<"b">>}]}
(* The second publication is an older or a newer one of another kind. *)
Replacement == \/ PublishList({Line("block", <<"b">>), Line("allow", <<"a", "b">>)}, "ads", 1, 2)
               \/ PublishTagged(Tagged(<<"malicious">>, [n \in {<<"ab">>} |-> <<"malicious">>], {}), 2, 2)
RulesNext ==
  \/ rules.published = {} /\ \E list \in MCLists : PublishList(list, "ads", 2, 2)
  \/ rules.published = {} /\ \E input \in MCTagged, at \in {<<1, 2>>, <<0, 2>>, <<1, 4>>} : PublishTagged(input, at[1], at[2])
  \/ Cardinality(rules.published) = 1 /\ Replacement
  \/ \E bundle \in Handed, selected \in MCSelections : InstallBundle(bundle, selected)
  \/ rules.now < 3 /\ ClockMoves
MCBlocksAsListed == cast.part = "rulesets" => BlocksAsListed(MCNames)
NoRules == RulesInit("set", {}, NoInline)

-----------------------------------------------------------------------------
PolicyInit ==
  /\ cast \in PolicyCasts
  /\ FlowInit /\ SplitInit
  /\ InCast(snap, {installed[n] : n \in Names}, {}, nextEpoch)
  /\ RouteInit /\ NoResponse /\ NoName /\ NoRules

PolicyRests ==
  /\ FlowInit /\ SplitInit
  /\ snap = InitialSnapshot(Allowing, installed)
  /\ installed = [n \in Names |-> NoBundle]

DecisionInit ==
  /\ PolicyRests /\ RouteInit
  /\ \/ cast = [part |-> "route"] /\ NoResponse /\ NoName /\ NoRules
     \/ cast = [part |-> "response"] /\ response \in MCResponses /\ NoName /\ NoRules
     \/ cast = [part |-> "name"] /\ NameInit /\ NoResponse /\ NoRules
     \/ /\ cast = [part |-> "rulesets"] /\ NoResponse /\ NoName
        /\ \E inline \in MCInline :
             RulesInit("set", IF inline = NoInline THEN {} ELSE {<<"*", "ab">>}, inline)

MCInit == PolicyInit \/ DecisionInit

PolicyNext ==
  /\ \/ cast.part = "store" /\ StoreNext /\ UNCHANGED <<flowVars, splitVars>>
     \/ cast.part = "flow" /\ FlowNext /\ UNCHANGED splitVars
     \/ cast.part = "packet" /\ SplitNext /\ UNCHANGED flowVars
  /\ InCast(snap', {installed'[n] : n \in Names} \cup lapsed',
            {c \in Controllers : call'[c].pc # "idle"}, nextEpoch')
  /\ (pkt'.pc # "idle" => pkt'.key \in cast.keys) /\ rows' <= cast.rows
  /\ UNCHANGED <<decisionVars, cast>>

DecisionNext ==
  /\ \/ cast.part = "route" /\ RouteNext /\ UNCHANGED <<response, nameVars, rules>>
     \/ cast.part = "name" /\ NameNext /\ UNCHANGED <<response, routeVars, rules>>
     \/ cast.part = "rulesets" /\ RulesNext /\ UNCHANGED <<response, routeVars, nameVars>>
  /\ UNCHANGED <<policyVars, cast>>

MCNext == PolicyNext \/ DecisionNext

MCVars == <<policyVars, decisionVars, cast>>

MCSpec == MCInit /\ [][MCNext]_MCVars /\ FlowFairness /\ WF_nameVars(NameNext)

-----------------------------------------------------------------------------
(* A flow whose token was cancelled ends, and so does the reading of every *)
(* name, past the name.                                                    *)
FlowsAndNamesEnd == RevokedFlowsEnd /\ NamesRead

(* What decides about a name: the most specific rule wins, inferred names  *)
(* only tighten a route, the aliases that teach hints are those the        *)
(* blocklist saw, and a rule set that was published is the one that is     *)
(* installed and blocks what it lists; the decisions kept for packets      *)
(* never exceed their table.                                               *)
DecisionsSound ==
  SplitTypeOK /\ MostSpecificWins /\ HintsNeverWeaken /\ NoUncheckedAlias /\ RuleSetsPublished /\ MCBlocksAsListed
=============================================================================
