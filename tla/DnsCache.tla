------------------------------ MODULE DnsCache ------------------------------
(***************************************************************************)
(* The tables of a DnsCache (foxcore-dns/src/lib.rs): route hints, the     *)
(* response cache and the reverse map.  They share the clock they expire   *)
(* by and the limits of the State behind its first mutex; the fake-IP      *)
(* leases, behind the second, are FakeIp.                                  *)
(***************************************************************************)
EXTENDS Integers, FiniteSets, SequencesExt

CONSTANTS
  Addrs,     \* addresses of A and AAAA answers
  Capacity,  \* cache_size
  MaxTtl,    \* MAX_TTL
  MaxNow     \* bound on the clock

ASSUME StateAssumption == Capacity \in Nat \ {0} /\ MaxTtl \in Nat \ {0} /\ MaxNow \in Nat

VARIABLE now   \* the clock

-----------------------------------------------------------------------------
(***************************************************************************)
(* The attributed route hints of foxcore-dns/src/lib.rs: for an identity   *)
(* and an address, the names whose answers named that address, each with   *)
(* an expiry, or an overflow mark once there are too many of them.  Every  *)
(* operation holds the State mutex throughout.                             *)
(*                                                                         *)
(* What an application was really told is kept beside the table, in        *)
(* "learned", and no action reads it.                                      *)
(***************************************************************************)

CONSTANTS
  Ids,       \* identities: a UID with its packages
  Asked,   \* names asked for
  Ttls,      \* TTLs of address answers, 0 included
  MaxNames   \* names kept for one identity and address: 16

ASSUME HintAssumption ==
  Ttls \subseteq Nat /\ MaxNames \in Nat \ {0}

VARIABLES
  routeHints,    \* route_hints, a function on the keys present
  learned,  \* the expiry of every name an identity was told for an address
  skipped   \* keys with a name that found the table full (history)

hintVars == <<now, routeHints, learned, skipped>>

HintKeys == Ids \X Addrs
Answers == UNION {[1..n -> Addrs \X Ttls] : n \in 1..2}

MaxOf(a, b) == IF a >= b THEN a ELSE b

(* RouteHints: an absent name has expiry 0, as has an overflow never set.  *)
NoHints == [names |-> [d \in Asked |-> 0], overflow |-> 0]

HintInit ==
  /\ now = 0
  /\ routeHints = [k \in {} |-> NoHints]
  /\ learned = [k \in HintKeys |-> [d \in Asked |-> 0]]
  /\ skipped = {}

-----------------------------------------------------------------------------
Kept(hint) == {d \in Asked : hint.names[d] > 0}
Pruned(hint) == [hint EXCEPT !.names = [d \in Asked |-> IF @[d] > now THEN @[d] ELSE 0]]

(* The retain at the head of learn_route_hints.                            *)
Retained ==
  LET pruned == [k \in DOMAIN routeHints |-> Pruned(routeHints[k])]
  IN  [k \in {k \in DOMAIN routeHints : pruned[k].overflow > now \/ Kept(pruned[k]) # {}} |-> pruned[k]]

(* Mutant: a name beyond the limit is forgotten instead of marking the     *)
(* overflow.                                                               *)
LearnNameNoOverflow(hint, d, expires) ==
  IF hint.names[d] > 0 \/ Cardinality(Kept(hint)) < MaxNames
    THEN [hint EXCEPT !.names[d] = MaxOf(@, expires)]
    ELSE hint

LearnName(hint, d, expires) ==
  IF hint.names[d] > 0 \/ Cardinality(Kept(hint)) < MaxNames
    THEN [hint EXCEPT !.names[d] = MaxOf(@, expires)]
    ELSE [hint EXCEPT !.overflow = MaxOf(@, expires)]

(* One answer of a response for domain d: a zero TTL is not retained, and  *)
(* a full table takes no new key.                                          *)
LearnWithin(capacity, maxTtl, id, d, table, answer) ==
  LET key     == <<id, answer[1]>>
      expires == now + (IF answer[2] > maxTtl THEN maxTtl ELSE answer[2])
      hint    == IF key \in DOMAIN table THEN table[key] ELSE NoHints
      skip    == \/ answer[2] = 0
                 \/ key \notin DOMAIN table /\ Cardinality(DOMAIN table) >= capacity
  IN  IF skip THEN table
      ELSE [k \in DOMAIN table \cup {key} |->
              IF k = key THEN LearnName(hint, d, expires) ELSE table[k]]

Learn(id, d, table, answer) == LearnWithin(Capacity, MaxTtl, id, d, table, answer)

(* learn_route_hints on a validated response for d: its answers in order.  *)
LearnRouteHints(id, d, records) ==
  /\ routeHints' = FoldLeft(LAMBDA table, answer : Learn(id, d, table, answer), Retained, records)
  /\ learned' = [k \in HintKeys |-> [n \in Asked |->
       IF k[1] # id \/ n # d THEN learned[k][n]
       ELSE FoldLeft(LAMBDA e, answer :
              IF answer[1] # k[2] \/ answer[2] = 0 THEN e
              ELSE MaxOf(e, now + (IF answer[2] > MaxTtl THEN MaxTtl ELSE answer[2])),
              learned[k][n], records)]]
  /\ skipped' = skipped \cup
       ({<<id, answer[1]>> : answer \in {a \in ToSet(records) : a[2] # 0}} \ DOMAIN routeHints')
  /\ UNCHANGED now

(* What route_hints answers: no name when there is no usable hint.         *)
HintedNames(k) ==
  IF k \notin DOMAIN routeHints \/ routeHints[k].overflow > now THEN {} ELSE Kept(Pruned(routeHints[k]))

(* route_hints drops the expired names of the entry it looks at.           *)
RouteHints(k) ==
  /\ k \in DOMAIN routeHints /\ routeHints[k].overflow <= now
  /\ routeHints' = [routeHints EXCEPT ![k] = Pruned(@)]
  /\ UNCHANGED <<now, learned, skipped>>

(* flush_responses on a network change; a resolver forked for a new policy *)
(* starts from the same empty table.                                       *)
FlushHints ==
  /\ routeHints # [k \in {} |-> NoHints]
  /\ routeHints' = [k \in {} |-> NoHints]
  /\ learned' = [k \in HintKeys |-> [d \in Asked |-> 0]]
  /\ skipped' = {}
  /\ UNCHANGED now

(* Time passes; what the ghost knows to have expired is forgotten.         *)
HintTick ==
  /\ now < MaxNow
  /\ now' = now + 1
  /\ learned' = [k \in HintKeys |-> [d \in Asked |-> IF learned[k][d] > now + 1 THEN learned[k][d] ELSE 0]]
  /\ skipped' = {k \in skipped : \E d \in Asked : learned'[k][d] > 0}
  /\ UNCHANGED routeHints

HintNext ==
  \/ \E id \in Ids, d \in Asked, records \in Answers : LearnRouteHints(id, d, records)
  \/ \E k \in HintKeys : RouteHints(k)
  \/ FlushHints \/ HintTick

HintSpec == HintInit /\ [][HintNext]_hintVars

-----------------------------------------------------------------------------
Expiries == 0..(MaxNow + MaxTtl)

(* The table's shape: expiries within MAX_TTL of the clock.                *)
HintTypeOK ==
  /\ now \in 0..MaxNow
  /\ DOMAIN routeHints \subseteq HintKeys
  /\ \A k \in DOMAIN routeHints : routeHints[k] \in [names : [Asked -> Expiries], overflow : Expiries]
  /\ learned \in [HintKeys -> [Asked -> Expiries]]
  /\ Cardinality(DOMAIN routeHints) <= Capacity
  /\ \A k \in DOMAIN routeHints : Cardinality(Kept(routeHints[k])) <= MaxNames

LiveNames(k) == {d \in Asked : learned[k][d] > now}

(* 01-protocols.md: the key "retains all live names" and "overflow makes   *)
(* the hint unusable".  A usable hint is complete: a name that protects an *)
(* address is not missing from it while another one is there.  Left out    *)
(* are the addresses one of whose live names came while the table was      *)
(* full: learn_route_hints passes over such a name without a mark, and a   *)
(* later one may then be the only one returned.                            *)
(* Nor is evidence invented: the names returned are names that identity    *)
(* was told for that address, in this network and policy, still live.      *)
HintsComplete ==
  \A k \in HintKeys :
    /\ HintedNames(k) \subseteq LiveNames(k)
    /\ HintedNames(k) # {} /\ k \notin skipped => HintedNames(k) = LiveNames(k)

-----------------------------------------------------------------------------
(***************************************************************************)
(* The response cache and the reverse map of foxcore-dns/src/lib.rs: two   *)
(* tables of one capacity under one mutex, each evicting its least         *)
(* recently used entry.  "last_used" is kept as the order of the table's   *)
(* keys, which is all that its eviction reads.  Times are whole seconds.   *)
(***************************************************************************)

CONSTANTS
  Keys,           \* questions with their scope
  TtlSets,        \* TTLs of the records of a response: sets of numbers
  StaleTtl,       \* STALE_TTL
  NegativeCache   \* negative_cache

ASSUME CacheAssumption ==
  /\ \A ttls \in TtlSets : ttls \subseteq Nat
  /\ StaleTtl \in Nat /\ NegativeCache \in BOOLEAN

VARIABLES
  responses,  \* on the keys present: the records' TTLs and when they came
  recency,    \* those keys, the least recently used first
  reverse,    \* on the addresses present: the expiry
  reverseRecency,
  served      \* the answer the last lookup gave

cacheVars == <<now, responses, recency, reverse, reverseRecency, served>>

Empty == [k \in {} |-> 0]
NoAnswer == [key |-> <<>>, stale |-> FALSE, fields |-> {}]

CacheInit ==
  /\ now = 0
  /\ responses = Empty /\ recency = <<>>
  /\ reverse = Empty /\ reverseRecency = <<>>
  /\ served = NoAnswer

-----------------------------------------------------------------------------
Without(seq, keys) == SelectSeq(seq, LAMBDA k : k \notin keys)
Touch(seq, key) == Append(Without(seq, {key}), key)
Narrow(f, keys) == [k \in DOMAIN f \cap keys |-> f[k]]
Put(f, key, v) == [k \in DOMAIN f \cup {key} |-> IF k = key THEN v ELSE f[k]]

(* evict_if_needed and evict_responses_if_needed: what stays of a table.   *)
EvictIfNeeded(seq) == IF Len(seq) > Capacity THEN SubSeq(seq, Len(seq) - Capacity + 1, Len(seq)) ELSE seq

LeastTtl(ttls) ==
  LET least == IF ttls = {} THEN 0 ELSE CHOOSE t \in ttls : \A u \in ttls : t <= u
  IN  IF least > MaxTtl THEN MaxTtl ELSE least

(* observe_response: expired addresses go, and one answer's address is     *)
(* filed, unless its TTL is 0.                                             *)
ObservedRecency(addr, ttl) ==
  LET live == Without(reverseRecency, {a \in DOMAIN reverse : reverse[a] <= now})
  IN  IF ttl = 0 THEN live ELSE EvictIfNeeded(Touch(live, addr))
Observe(addr, ttl) ==
  LET kept == ObservedRecency(addr, ttl)
  IN  /\ reverseRecency' = kept
      /\ reverse' = Narrow(IF ttl = 0 THEN reverse ELSE Put(reverse, addr, now + ttl), ToSet(kept))

(* cache_response_inner on a validated response: it is observed first, and *)
(* a negative or zero-TTL one leaves the responses as they were.           *)
CacheResponse(key, ttls, negative, addr) ==
  /\ Observe(addr, LeastTtl(ttls))
  /\ IF (negative /\ ~NegativeCache) \/ LeastTtl(ttls) = 0
       THEN UNCHANGED <<responses, recency>>
       ELSE LET kept  == EvictIfNeeded(Touch(recency, key))
                entry == [ttls |-> ttls, inserted |-> now, expires |-> now + LeastTtl(ttls)]
            IN  /\ recency' = kept
                /\ responses' = Narrow(Put(responses, key, entry), ToSet(kept))
  /\ served' = NoAnswer
  /\ UNCHANGED now

(* Mutant: the TTL fields go out as they came.                             *)
RemainingAsReceived(entry) ==
  {[original |-> t, left |-> IF now >= entry.expires THEN 0 ELSE t] : t \in entry.ttls}

(* The TTL fields of an entry as they are served: each record's own TTL    *)
(* less the seconds since it came, and zero once the entry has expired.    *)
Remaining(entry) ==
  LET elapsed == now - entry.inserted
  IN  {[original |-> t, left |-> IF now >= entry.expires \/ elapsed > t THEN 0 ELSE t - elapsed] :
         t \in entry.ttls}

(* cached_response_inner: past the stale window the entry goes; between    *)
(* expiry and then it is served only when stale answers are asked for.     *)
DropStale(key) ==
  /\ key \in DOMAIN responses /\ responses[key].expires + StaleTtl <= now
  /\ responses' = Narrow(responses, Keys \ {key}) /\ recency' = Without(recency, {key})
  /\ served' = NoAnswer
  /\ UNCHANGED <<now, reverse, reverseRecency>>

Serve(key, allowStale) ==
  /\ key \in DOMAIN responses /\ responses[key].expires + StaleTtl > now
  /\ responses[key].expires > now \/ allowStale
  /\ recency' = Touch(recency, key)
  /\ served' = [key |-> <<key>>, stale |-> allowStale, fields |-> Remaining(responses[key])]
  /\ UNCHANGED <<now, responses, reverse, reverseRecency>>

CachedResponse(key, allowStale) == DropStale(key) \/ Serve(key, allowStale)

(* reverse_domain: an expired address goes, a live one is used.            *)
ReverseDomain(addr) ==
  /\ addr \in DOMAIN reverse
  /\ IF reverse[addr] <= now
       THEN /\ reverse' = Narrow(reverse, Addrs \ {addr})
            /\ reverseRecency' = Without(reverseRecency, {addr})
       ELSE reverseRecency' = Touch(reverseRecency, addr) /\ UNCHANGED reverse
  /\ served' = NoAnswer
  /\ UNCHANGED <<now, responses, recency>>

(* flush_responses: the answers go, the addresses stay.                    *)
FlushResponses ==
  /\ responses # Empty
  /\ responses' = Empty /\ recency' = <<>> /\ served' = NoAnswer
  /\ UNCHANGED <<now, reverse, reverseRecency>>

(* fork_for_policy: the new revision's cache starts from the live          *)
(* addresses and no answer.                                                *)
ForkForPolicy ==
  LET live == Without(reverseRecency, {a \in DOMAIN reverse : reverse[a] <= now})
  IN  /\ responses' = Empty /\ recency' = <<>> /\ served' = NoAnswer
      /\ reverseRecency' = EvictIfNeeded(live) /\ reverse' = Narrow(reverse, ToSet(EvictIfNeeded(live)))
      /\ UNCHANGED now

CacheTick ==
  /\ now < MaxNow
  /\ now' = now + 1 /\ served' = NoAnswer
  /\ UNCHANGED <<responses, recency, reverse, reverseRecency>>

CacheNext ==
  \/ \E k \in Keys, ttls \in TtlSets, n \in BOOLEAN, a \in Addrs : CacheResponse(k, ttls, n, a)
  \/ \E k \in Keys, stale \in BOOLEAN : CachedResponse(k, stale)
  \/ \E a \in Addrs : ReverseDomain(a)
  \/ FlushResponses \/ ForkForPolicy \/ CacheTick

CacheSpec == CacheInit /\ [][CacheNext]_cacheVars

-----------------------------------------------------------------------------
(* Each table and its order name the same keys, and no table is over       *)
(* capacity.                                                               *)
CacheTypeOK ==
  /\ now \in 0..MaxNow
  /\ ToSet(recency) = DOMAIN responses /\ Len(recency) = Cardinality(DOMAIN responses)
  /\ ToSet(reverseRecency) = DOMAIN reverse /\ Len(reverseRecency) = Cardinality(DOMAIN reverse)
  /\ Len(recency) <= Capacity /\ Len(reverseRecency) <= Capacity

(* No answer is served as fresh once one of its records has run out, and   *)
(* a record's TTL is rewritten so that a client that keeps the answer for  *)
(* the TTL it is handed drops it no later, to the second, than one that    *)
(* kept the original from the start.  An expired answer is given only to a *)
(* caller that accepts stale ones, with every TTL zero, and only inside    *)
(* the stale window.                                                       *)
ServedWithinTtl ==
  served # NoAnswer =>
    LET entry == responses[served.key[1]]
    IN  /\ \A field \in served.fields : field.left > 0 =>
             /\ now + field.left <= entry.inserted + field.original
             /\ \A t \in entry.ttls : now < entry.inserted + t
        /\ entry.expires <= now =>
             /\ served.stale /\ now < entry.expires + StaleTtl
             /\ \A field \in served.fields : field.left = 0
=============================================================================
