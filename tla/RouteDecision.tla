---------------------------- MODULE RouteDecision ----------------------------
(***************************************************************************)
(* The route table of foxcore-route/src/lib.rs: which action a flow is     *)
(* given, how names inferred from DNS constrain it, and how the decision   *)
(* is explained.  A table and a clock are the state; the decision is an    *)
(* operator on them.                                                       *)
(*                                                                         *)
(* A domain is the sequence of its labels, the last one first.  Of the     *)
(* selectors of a rule, the package stands for the ones on UID, network,   *)
(* transport and ports as well, which a flow meets or does not meet in the *)
(* same way.                                                               *)
(***************************************************************************)
EXTENDS Integers, FiniteSets, SequencesExt

CONSTANTS
  Tables,      \* route tables
  NoTable,     \* nothing compiled yet
  Domains,     \* names that flows and hints have
  Packages,    \* application packages
  Protected,   \* actions other than "Direct" and "Block"
  Overlays,    \* those of them that need an overlay: Tor, I2P
  MaxNow       \* bound on the clock

VARIABLES table, now

routeVars == <<table, now>>

Actions == {"Direct", "Block"} \cup Protected
AnyPackage == "any"
NoDomain == <<>>

(* expires is 0 for a rule or entry without a deadline.                    *)
Rules ==
  [exact : SUBSET Domains, suffixes : SUBSET Domains, package : Packages \cup {AnyPackage},
   cidr : BOOLEAN, expires : 0..MaxNow, action : Actions]

(* applications, by package: NoEntry where there is none.                  *)
NoEntry == [action |-> "Direct", expires |-> -1]

(* A flow goes to a name, or to an address that the rules' networks hold   *)
(* or do not hold; packages are those of its UID; pinned says that it      *)
(* presents the signing digest its packages are known by.                  *)
Contexts ==
  {f \in [to : {"name", "inside", "outside"}, hint : Domains \cup {NoDomain},
          packages : SUBSET Packages, pinned : BOOLEAN] :
     f.to = "name" => f.hint # NoDomain}

ASSUME RouteAssumption ==
  /\ Overlays \subseteq Protected /\ MaxNow \in Nat
  /\ \A t \in Tables : \A i \in DOMAIN t.rules : t.rules[i] \in Rules

-----------------------------------------------------------------------------
(* The domain the selectors are matched with: the hint, or a named         *)
(* destination, which carries its name as hint here.                       *)
DomainOf(context) == context.hint

(* A lapsed deadline.                                                      *)
Lapsed(expires) == expires > 0 /\ now >= expires

(* rule_matches: every selector but the domain ones.                       *)
RuleMatches(rule, context) ==
  /\ ~Lapsed(rule.expires)
  /\ rule.package # AnyPackage => rule.package \in context.packages
  /\ rule.cidr => context.to = "inside"

Named(rule) == rule.exact # {} \/ rule.suffixes # {}
Indexes == DOMAIN table.rules

(* compile_with_traffic files rules by exact name and by suffix; a node of *)
(* the suffix tree exists for every prefix of a filed suffix.              *)
ExactRules(d) == {i \in Indexes : d \in table.rules[i].exact}
NodeRules(labels) == {i \in Indexes : labels \in table.rules[i].suffixes}
Node(labels) == \E i \in Indexes : \E s \in table.rules[i].suffixes : IsPrefix(labels, s)

(* SuffixNode::collect: the depths the walk reaches from the last label.   *)
Collect(d) == {n \in 1..Len(d) : \A m \in 1..n : Node(SubSeq(d, 1, m))}

(* first_match: the first of the candidates, in list order.                *)
FirstMatch(indexes, context) ==
  LET matching == {i \in indexes : RuleMatches(table.rules[i], context)}
  IN  {i \in matching : \A j \in matching : i <= j}

(* Mutant: the shortest suffix wins.                                       *)
SuffixMatchShortest(context) ==
  LET levels == {n \in Collect(DomainOf(context)) : FirstMatch(NodeRules(SubSeq(DomainOf(context), 1, n)), context) # {}}
  IN  UNION {FirstMatch(NodeRules(SubSeq(DomainOf(context), 1, n)), context) :
               n \in {n \in levels : \A m \in levels : n <= m}}

(* The candidates of the suffix tree, the deepest level first.             *)
SuffixMatch(context) ==
  LET levels == {n \in Collect(DomainOf(context)) : FirstMatch(NodeRules(SubSeq(DomainOf(context), 1, n)), context) # {}}
  IN  UNION {FirstMatch(NodeRules(SubSeq(DomainOf(context), 1, n)), context) :
               n \in {n \in levels : \A m \in levels : n >= m}}

(* match_rules: the winning rule's index, in a set that may be empty.      *)
MatchRules(context) ==
  LET exact    == IF DomainOf(context) = NoDomain THEN {} ELSE FirstMatch(ExactRules(DomainOf(context)), context)
      fallback == {i \in Indexes : ~Named(table.rules[i])}
  IN  IF exact # {} THEN exact
      ELSE IF SuffixMatch(context) # {} THEN SuffixMatch(context)
      ELSE FirstMatch(fallback, context)

-----------------------------------------------------------------------------
(* is_quarantined: no package, an unknown one, or a wrong digest.          *)
IsQuarantined(context) ==
  \/ context.packages = {}
  \/ \E p \in context.packages : p \notin table.known
  \/ \E p \in context.packages : p \in table.pinned /\ ~context.pinned

(* application_action: the entry the flow's packages agree on, in a set    *)
(* that is empty when no package has one.  Packages that disagree, or an   *)
(* unconfigured one beside an entry that is not the default, block.        *)
ApplicationAction(context) ==
  LET active  == {p \in context.packages : table.applications[p] # NoEntry /\ ~Lapsed(table.applications[p].expires)}
      actions == {table.applications[p].action : p \in active}
  IN  IF actions = {} THEN {}
      ELSE IF Cardinality(actions) > 1 THEN {"Block"}
      ELSE IF active # context.packages /\ actions # {table.default} THEN {"Block"}
      ELSE actions

(* gated: an action whose overlay is off is Block.                         *)
Gated(action) == IF action \in Overlays /\ ~table.overlay THEN "Block" ELSE action

(* decide_at: the kill switch, a Block rule, quarantine, the application   *)
(* entries, a default-block policy, and only then the other rules.         *)
DecideAt(context) ==
  LET matched == MatchRules(context)
      ruled   == IF matched = {} THEN table.default ELSE (CHOOSE r \in {table.rules[i] : i \in matched} : TRUE).action
  IN  IF table.kill THEN "Block"
      ELSE IF matched # {} /\ ruled = "Block" THEN "Block"
      ELSE IF table.quarantine /\ IsQuarantined(context) THEN "Block"
      ELSE IF ApplicationAction(context) # {} THEN Gated(CHOOSE a \in ApplicationAction(context) : TRUE)
      ELSE IF table.default = "Block" THEN "Block"
      ELSE Gated(ruled)

(* What the flow is given under each of the names, and under none.         *)
Verdicts(context) == [n \in Domains \cup {NoDomain} |-> DecideAt([context EXCEPT !.hint = n])]

(* Mutant: a name that asks for another route replaces the one selected.   *)
ConstrainLast(verdict, names) ==
  LET strict == SelectSeq(names, LAMBDA n : verdict[n] # "Direct")
  IN  [admit |-> names # <<>>, hint |-> IF strict = <<>> THEN NoDomain ELSE Last(strict)]

(* constrain_with_dns_hints, from the flow's verdicts: names are tried in  *)
(* order; the first Block ends it, the first stricter route is selected, a *)
(* different one is a conflict, and a conflict or no name at all refuses   *)
(* the flow.                                                               *)
ConstrainWithDnsHints(verdict, names) ==
  LET base      == verdict[NoDomain]
      Blocks(n) == verdict[n] = "Block"
      strict    == SelectSeq(names, LAMBDA n : verdict[n] \notin {"Direct", base})
      chosen    == IF base = "Direct" /\ strict # <<>> THEN strict[1] ELSE NoDomain
      conflict  == \E i \in DOMAIN strict : verdict[strict[i]] # verdict[chosen]
  IN  IF base = "Block" THEN [admit |-> TRUE, hint |-> NoDomain]
      ELSE IF \E i \in DOMAIN names : Blocks(names[i])
        THEN [admit |-> TRUE, hint |-> (SelectSeq(names, Blocks))[1]]
      ELSE [admit |-> names # <<>> /\ ~conflict, hint |-> chosen]

(* explain: the Block rules that match the flow and did not win.           *)
ShadowedBlockRules(context) ==
  LET d == DomainOf(context)
      Matches(rule) == ~Named(rule) \/ d \in rule.exact \/ \E s \in rule.suffixes : IsPrefix(s, d)
  IN  {i \in Indexes \ MatchRules(context) :
         table.rules[i].action = "Block" /\ RuleMatches(table.rules[i], context) /\ Matches(table.rules[i])}

-----------------------------------------------------------------------------
RouteInit == table = NoTable /\ now = 0

(* compile_with_traffic: from here on the table decides.                   *)
CompileWithTraffic ==
  /\ table = NoTable /\ table' \in Tables
  /\ UNCHANGED now

(* with_emergency_block: the same rules behind the kill switch.            *)
WithEmergencyBlock ==
  /\ table # NoTable /\ ~table.kill
  /\ table' = [table EXCEPT !.kill = TRUE]
  /\ UNCHANGED now

Tick == table # NoTable /\ now < MaxNow /\ now' = now + 1 /\ UNCHANGED table

RouteNext == CompileWithTraffic \/ WithEmergencyBlock \/ Tick

RouteSpec == RouteInit /\ [][RouteNext]_routeVars

-----------------------------------------------------------------------------
(* A flow to an address has no name of its own.                            *)
AddressFlows == {f \in Contexts : f.to # "name" /\ f.hint = NoDomain /\ f.pinned}
HintLists == UNION {{names \in [1..n -> Domains] : IsInjective(names)} : n \in 0..3}

Specificity(rule, d) ==
  IF d # NoDomain /\ d \in rule.exact THEN 1000
  ELSE LET fits == {Len(s) : s \in {s \in rule.suffixes : d # NoDomain /\ IsPrefix(s, d)}}
       IN  IF fits # {} THEN CHOOSE n \in fits : \A m \in fits : n >= m
           ELSE IF Named(rule) THEN -1 ELSE 0

(* 01-protocols.md: "exact domain, longest matching suffix, then           *)
(* IP/general rules; list order breaks equal-specificity ties."  Stated    *)
(* without the index and the tree: the winner is a matching rule that no   *)
(* matching rule outranks.  explain reports the Block rules that another   *)
(* one outranked, and no others.                                           *)
MostSpecificWins ==
  table # NoTable =>
    \A context \in Contexts :
      LET Fits(i) == RuleMatches(table.rules[i], context) /\ Specificity(table.rules[i], context.hint) >= 0
          Before(i, j) == \/ Specificity(table.rules[i], context.hint) > Specificity(table.rules[j], context.hint)
                          \/ /\ Specificity(table.rules[i], context.hint) = Specificity(table.rules[j], context.hint)
                             /\ i < j
          First == {i \in Indexes : Fits(i) /\ \A j \in Indexes \ {i} : Fits(j) => Before(i, j)}
      IN  /\ MatchRules(context) = First
          /\ ShadowedBlockRules(context) = {i \in Indexes \ First : Fits(i) /\ table.rules[i].action = "Block"}

Stricter(a, b) == a = "Block" \/ a = b \/ b = "Direct"

(* "Inferred names can restrict an IP route, never grant a more permissive *)
(* one": what an admitted flow gets is at least as strict as its address   *)
(* alone gives and as any of the names gives.  "Shared-IP names are        *)
(* evaluated together, independent of arrival order": the reverse order    *)
(* gives the same.                                                         *)
HintsNeverWeaken ==
  table # NoTable =>
    \A context \in AddressFlows :
      LET verdict == Verdicts(context)
      IN  \A names \in HintLists :
            LET there == ConstrainWithDnsHints(verdict, names)
                back  == ConstrainWithDnsHints(verdict, Reverse(names))
            IN  /\ back.admit = there.admit
                /\ there.admit =>
                     /\ verdict[back.hint] = verdict[there.hint]
                     /\ Stricter(verdict[there.hint], verdict[NoDomain])
                     /\ \A i \in DOMAIN names : Stricter(verdict[there.hint], verdict[names[i]])

(* 01-protocols.md: "an Android shared UID resolving to a mixed decision   *)
(* fails closed to Block".  Two packages that would be routed apart are    *)
(* blocked together, here where no rule selects by package.                *)
MixedDecisionBlocks ==
  table # NoTable =>
    \A context \in Contexts : \A p, q \in context.packages :
      LET Alone(x) == DecideAt([context EXCEPT !.packages = {x}])
      IN  /\ \A i \in Indexes : table.rules[i].package = AnyPackage
          /\ context.packages = {p, q} /\ Alone(p) # Alone(q)
          => DecideAt(context) = "Block"
=============================================================================
