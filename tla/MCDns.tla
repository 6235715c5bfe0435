-------------------------------- MODULE MCDns --------------------------------
(* The resolver for TLC: DnsNetwork under its policies, or one of the      *)
(* three tables of a DnsCache, which share a clock and nothing else.  A    *)
(* cast says which part moves and how much of the constants it uses; the   *)
(* other parts rest.                                                       *)
EXTENDS DnsNetwork, FakeIp, TLC

CONSTANTS n1, i1, a1, d1

VARIABLE cast   \* fixed by the initial state

tableVars == <<fakeVars, hintVars, cacheVars>>

-----------------------------------------------------------------------------
(* The resolver: an upstream and the policies it is asked under.           *)
Document(kill, source) ==
  [kill |-> kill, continuity |-> FALSE, blocked |-> {}, sources |-> [n \in Names |-> source]]
Open == Document(FALSE, Unpinned)
Killed == Document(TRUE, Unpinned)
Pinned == Document(FALSE, [key |-> 1, minimum |-> 1, required |-> FALSE])
MCRequests == {Open, Killed, Pinned}
OneBundle == {[name |-> n1, key |-> 1, sequence |-> 1, categorized |-> FALSE]}

Resolver(kind, documents, revisions, epochs, queries, installs) ==
  [part |-> "resolver", upstream |-> kind, documents |-> documents, revisions |-> revisions,
   epochs |-> epochs, queries |-> queries, installs |-> installs]

Reloaded(kind, epochs) == Resolver(kind, {Open, Killed}, 1, epochs, 2, FALSE)
Moving(kind) == Resolver(kind, {Open}, 0, 3, 2, FALSE)
(* A rule set installed under queries in flight.                           *)
Updated == Resolver("udp", {Pinned}, 1, 3, 1, TRUE)

(* The tables: leases of two resolvers, the room and the TTL lower for the *)
(* one than for the other; one identity that is told more names than are kept  *)
(* for an address; more identities and addresses than there is room for;   *)
(* answers.                                                                *)
Resolving(capacity, ttl) == [capacity |-> capacity, ttl |-> ttl]
MCResolvers == {Resolving(2, 1), Resolving(3, 2)}
Table(part, keys, names) == [part |-> part, keys |-> keys, names |-> names]
Overflow == Table("hints", {<<i1, a1>>}, Asked)
Crowd == Table("hints", {k \in HintKeys : k[1] = i1 \/ k[2] = a1}, {d1})

Casts ==
  {Reloaded("udp", 2), Reloaded("doh", 1), Moving("doh"), Moving("quic"), Updated,
   Table("leases", {}, {}), Overflow, Crowd, Table("answers", {}, {})}

QuerySymmetry == Permutations(Queries)

Within(s, epoch) ==
  /\ \E d \in cast.documents : s.kill = d.kill /\ s.sources = d.sources
  /\ s.revision <= cast.revisions + 1 /\ epoch <= cast.epochs + 1

(* The identities with their addresses, and the names, in use.             *)
UsedKeys == {k \in HintKeys : \E d \in Asked : learned[k][d] > 0} \cup DOMAIN routeHints
UsedNames == {d \in Asked : \E k \in HintKeys : learned[k][d] > 0}

MCInit ==
  /\ cast \in Casts
  /\ DnsInit /\ FakeInit /\ HintInit /\ CacheInit
  /\ IF cast.part = "resolver"
       THEN upstream = cast.upstream /\ Within(snap, nextEpoch)
       ELSE upstream = "udp" /\ ~snap.kill /\ snap.sources = Open.sources

MCNext ==
  /\ \/ /\ cast.part = "resolver" /\ DnsNext
        /\ Within(snap', nextEpoch')
        /\ cast.installs \/ lapsed' = {}
        /\ \A c \in Controllers : call'[c].pc # IF cast.installs THEN "reload" ELSE "install"
        /\ Cardinality({q \in Queries : query'[q].pc # "idle"}) <= cast.queries
        /\ UNCHANGED tableVars
     \/ /\ cast.part = "leases" /\ FakeNext
        /\ UNCHANGED <<vars, routeHints, learned, skipped, responses, recency, reverse,
                       reverseRecency, served>>
     \/ /\ cast.part = "hints" /\ HintNext
        /\ UsedKeys' \subseteq cast.keys /\ UsedNames' \subseteq cast.names
        /\ UNCHANGED <<vars, byName, fakeReverse, v4, v6, refused, responses, recency, reverse,
                       reverseRecency, served>>
     \/ /\ cast.part = "answers" /\ CacheNext
        /\ UNCHANGED <<vars, byName, fakeReverse, v4, v6, refused, routeHints, learned, skipped>>
  /\ UNCHANGED cast

MCSpec == MCInit /\ [][MCNext]_<<vars, tableVars, cast>>

UpdatedSpec == (MCInit /\ cast = Updated) /\ [][MCNext]_<<vars, tableVars, cast>>

-----------------------------------------------------------------------------

(* The tables are within their bounds, no two queries hold one lane, and   *)
(* at capacity the tables refuse or say so: a lease is refused only with   *)
(* as many live ones as the resolver may promise, and a route hint that is *)
(* usable is complete.                                                     *)
TablesAtCapacity ==
  /\ DnsTypeOK /\ FakeTypeOK /\ HintTypeOK /\ CacheTypeOK
  /\ RefusedOnlyAtCapacity /\ HintsComplete
=============================================================================
