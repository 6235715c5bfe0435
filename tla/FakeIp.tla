------------------------------- MODULE FakeIp --------------------------------
(***************************************************************************)
(* The fake-IP leases of foxcore-dns/src/lib.rs: FakeState and its two     *)
(* maps, shared by every DnsCache forked from another, so that resolvers   *)
(* of several policy revisions with different capacities and TTLs allocate *)
(* from it at once.  Each operation holds the FakeState mutex throughout.  *)
(*                                                                         *)
(* A name is a domain with its record type; an address is an offset in the *)
(* IPv4 or the IPv6 pool.  The pools' sequence numbers are kept modulo the *)
(* cycle of the offsets they produce.                                      *)
(***************************************************************************)
EXTENDS DnsCache

CONSTANTS
  Domains,     \* domains that are asked for
  Types,       \* record types asked for: a subset of {"A", "AAAA"}
  Resolvers,   \* the resolvers sharing the leases: cache_size and fake_ttl_s
  Usable,      \* usable offsets of the IPv4 pool: its size less two
  HostMask     \* host mask of the IPv6 pool: its size less one

Capacities == {r.capacity : r \in Resolvers}
FakeTtls == {r.ttl : r \in Resolvers}

(* DnsConfig::validate: each pool holds at least cache_size addresses, and *)
(* no fake_ttl_s is above MAX_TTL.                                         *)
ASSUME PoolAssumption ==
  /\ Types \subseteq {"A", "AAAA"}
  /\ Usable \in Nat \ {0} /\ HostMask \in Nat \ {0}
  /\ \A ttl \in FakeTtls : ttl \in 1..MaxTtl
  /\ \A cap \in Capacities : cap \in 1..Usable /\ cap <= HostMask

VARIABLES
  byName,    \* fake_by_domain
  fakeReverse,   \* fake_reverse
  v4, v6,    \* fake_v4_sequence and fake_v6_sequence, modulo their cycles
  refused    \* the last operation refused a name: its capacity, or 0

fakeVars == <<now, byName, fakeReverse, v4, v6, refused>>

FakeNames == Domains \X Types
Addresses == ({"A"} \X (1..Usable)) \cup ({"AAAA"} \X (1..HostMask))

NoEntry == [name |-> <<>>, address |-> <<>>, expires |-> 0]

Live(entry) == entry # NoEntry /\ entry.expires > now
Entries == {n \in FakeNames : byName[n] # NoEntry}

FakeInit ==
  /\ now = 0
  /\ byName = [n \in FakeNames |-> NoEntry]
  /\ fakeReverse = [a \in Addresses |-> NoEntry]
  /\ v4 = 0 /\ v6 = 0
  /\ refused = 0

-----------------------------------------------------------------------------
(* purge_fake: every expired lease goes, in both directions.               *)
Expired == {n \in Entries : byName[n].expires <= now}
PurgedNames == [n \in FakeNames |-> IF n \in Expired THEN NoEntry ELSE byName[n]]
PurgedReverse ==
  LET gone == {byName[n].address : n \in Expired}
  IN  [a \in Addresses |-> IF a \in gone THEN NoEntry ELSE fakeReverse[a]]

(* The offset a sequence number stands for.                                *)
V4Offset(seq) == (seq % Usable) + 1
V6Offset(seq) == IF seq % (HostMask + 1) = 0 THEN 1 ELSE seq % (HostMask + 1)

(* Mutant: one candidate fewer is tried.                                   *)
TriesOneLess(cap) == 1..cap

(* Both pools are probed capacity + 1 times.                               *)
Tries(cap) == 1..(cap + 1)

(* next_fake_v4 and next_fake_v6: the steps the sequence makes to the      *)
(* first candidate that is not leased; none if every candidate is.         *)
Candidate(n, step) ==
  IF n[2] = "A" THEN <<"A", V4Offset(v4 + step)>> ELSE <<"AAAA", V6Offset(v6 + step)>>

Unleased(n, step) == PurgedReverse[Candidate(n, step)] = NoEntry

NextFake(n, cap) ==
  {i \in Tries(cap) : Unleased(n, i) /\ \A j \in 1..(i - 1) : ~Unleased(n, j)}

(* fake_address on a name that holds a live lease: both directions are     *)
(* restarted with this resolver's TTL, be it shorter than what was left.   *)
Extend(n, ttl) ==
  LET entry == [byName[n] EXCEPT !.expires = now + ttl]
  IN  /\ n \in Entries \ Expired
      /\ byName' = [PurgedNames EXCEPT ![n] = entry]
      /\ fakeReverse' = [PurgedReverse EXCEPT ![entry.address] = entry]
      /\ refused' = 0
      /\ UNCHANGED <<now, v4, v6>>

Full(cap) == Cardinality(Entries \ Expired) >= cap

(* At capacity, or with no free candidate, the name is refused; the purge  *)
(* and the moved sequence stay.                                            *)
Moved(n, steps) ==
  /\ v4' = IF n[2] = "A" THEN (v4 + steps) % Usable ELSE v4
  /\ v6' = IF n[2] = "AAAA" THEN (v6 + steps) % (HostMask + 1) ELSE v6

RefuseLease(n, cap) ==
  /\ n \notin Entries \ Expired
  /\ Full(cap) \/ NextFake(n, cap) = {}
  /\ byName' = PurgedNames /\ fakeReverse' = PurgedReverse
  /\ Moved(n, IF Full(cap) THEN 0 ELSE cap + 1)
  /\ refused' = cap
  /\ UNCHANGED now

(* Mutant: a full table is relieved of its other leases.                   *)
AllocateEvicting(n, cap, ttl) ==
  \E step \in NextFake(n, cap) :
    LET entry == [name |-> n, address |-> Candidate(n, step), expires |-> now + ttl]
    IN  /\ n \notin Entries \ Expired
        /\ byName' = [m \in FakeNames |->
                        IF m = n THEN entry ELSE IF Full(cap) THEN NoEntry ELSE PurgedNames[m]]
        /\ fakeReverse' = [a \in Addresses |->
                         IF a = entry.address THEN entry
                         ELSE IF Full(cap) THEN NoEntry ELSE PurgedReverse[a]]
        /\ Moved(n, step)
        /\ refused' = 0
        /\ UNCHANGED now

Allocate(n, cap, ttl) ==
  \E step \in NextFake(n, cap) :
    LET entry == [name |-> n, address |-> Candidate(n, step), expires |-> now + ttl]
    IN  /\ n \notin Entries \ Expired
        /\ ~Full(cap)
        /\ byName' = [PurgedNames EXCEPT ![n] = entry]
        /\ fakeReverse' = [PurgedReverse EXCEPT ![entry.address] = entry]
        /\ Moved(n, step)
        /\ refused' = 0
        /\ UNCHANGED now

(* fake_response: an A or AAAA question takes a lease; SVCB and HTTPS      *)
(* questions are answered without one and change nothing.                  *)
FakeResponse(n, cap, ttl) == Extend(n, ttl) \/ RefuseLease(n, cap) \/ Allocate(n, cap, ttl)

(* Mutant: an expired lease is dropped from the fakeReverse map only.          *)
FakeDomainHalf(a) ==
  /\ fakeReverse[a] # NoEntry
  /\ fakeReverse' = IF Live(fakeReverse[a]) THEN fakeReverse ELSE [fakeReverse EXCEPT ![a] = NoEntry]
  /\ byName' = byName
  /\ refused' = 0
  /\ UNCHANGED <<now, v4, v6>>

(* fake_domain: a flow asks which name an address stands for; a lease      *)
(* found expired goes in both directions.                                  *)
FakeDomain(a) ==
  /\ fakeReverse[a] # NoEntry
  /\ fakeReverse' = IF Live(fakeReverse[a]) THEN fakeReverse ELSE [fakeReverse EXCEPT ![a] = NoEntry]
  /\ byName' = IF Live(fakeReverse[a]) THEN byName ELSE [byName EXCEPT ![fakeReverse[a].name] = NoEntry]
  /\ refused' = 0
  /\ UNCHANGED <<now, v4, v6>>

(* Every FAKE_SWEEP_INTERVAL lookups fake_domain sweeps first.             *)
Sweep ==
  /\ Expired # {}
  /\ byName' = PurgedNames /\ fakeReverse' = PurgedReverse
  /\ refused' = 0
  /\ UNCHANGED <<now, v4, v6>>

FakeTick ==
  /\ now < MaxNow
  /\ now' = now + 1
  /\ refused' = 0
  /\ UNCHANGED <<byName, fakeReverse, v4, v6>>

FakeNext ==
  \/ \E n \in FakeNames, r \in Resolvers : FakeResponse(n, r.capacity, r.ttl)
  \/ \E a \in Addresses : FakeDomain(a)
  \/ Sweep \/ FakeTick

FakeSpec == FakeInit /\ [][FakeNext]_fakeVars

-----------------------------------------------------------------------------
Entry == [name : FakeNames, address : Addresses, expires : 1..(MaxNow + MaxTtl)] \cup {NoEntry}

(* Every variable stays in its range.                                      *)
FakeTypeOK ==
  /\ now \in 0..MaxNow
  /\ byName \in [FakeNames -> Entry] /\ fakeReverse \in [Addresses -> Entry]
  /\ v4 \in 0..(Usable - 1) /\ v6 \in 0..HostMask
  /\ refused \in Capacities \cup {0}

(* The two maps are one lease table seen from both ends, through extension,*)
(* expiry on use, the amortised sweep and allocation: a name's address     *)
(* leads back to that name, with the same expiry, and no address outlives  *)
(* its name.                                                               *)
LeasesInverse ==
  /\ \A n \in Entries : byName[n].name = n /\ fakeReverse[byName[n].address] = byName[n]
  /\ \A a \in Addresses : fakeReverse[a] # NoEntry =>
       /\ fakeReverse[a].address = a
       /\ byName[fakeReverse[a].name] = fakeReverse[a]

(* The TTLs that are lower than another one in use.                        *)
LoweredTtls == {ttl \in FakeTtls : \E longer \in FakeTtls : ttl < longer}

(* fork_for_policy: "A lower admission cap cannot withdraw an address      *)
(* before its advertised TTL."  While a lease runs, its address keeps its  *)
(* name, whichever resolver works on the table, and its expiry moves only  *)
(* to a resolver's whole TTL from now.  The one way it is brought forward  *)
(* is a reply of a resolver whose fake_ttl_s is lower than another's: the  *)
(* lease then runs for that TTL, although an earlier reply promised more.  *)
(* While all resolvers have one TTL it never is.                           *)
PromisesKept ==
  [][\A a \in Addresses : Live(fakeReverse[a]) /\ fakeReverse[a].expires > now' =>
       /\ fakeReverse'[a].name = fakeReverse[a].name
       /\ \/ fakeReverse'[a].expires = fakeReverse[a].expires
          \/ \E ttl \in FakeTtls :
               /\ fakeReverse'[a].expires = now + ttl
               /\ now + ttl < fakeReverse[a].expires => ttl \in LoweredTtls]_fakeVars

(* 01-protocols.md: "Capacity pressure refuses new addresses until         *)
(* existing promises expire."  A refusal means as many live leases as the  *)
(* resolver's capacity: the bounded probing of the pools always finds a    *)
(* free address below it, in either family and from any sequence number.   *)
RefusedOnlyAtCapacity ==
  refused # 0 => Cardinality(Entries) >= refused
=============================================================================
