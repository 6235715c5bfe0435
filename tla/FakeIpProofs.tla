---------------------------- MODULE FakeIpProofs -----------------------------
(***************************************************************************)
(* Proofs about FakeIp for every set of domains, every capacity, pool and  *)
(* set of TTLs: the two lease maps are inverse, and no lease is withdrawn  *)
(* or reassigned while it runs.                                            *)
(*                                                                         *)
(* The invariant is stated over any pair of maps, because every operation  *)
(* first purges both: the purge keeps it, and each operation is then one   *)
(* change to the purged maps.                                              *)
(***************************************************************************)
EXTENDS FakeIp, WellFoundedInduction, TLAPS

USE PoolAssumption, StateAssumption DEF PoolAssumption, StateAssumption

(* The pair of maps is well typed and inverse.                             *)
InverseMaps(names, addresses) ==
  /\ names \in [FakeNames -> Entry]
  /\ addresses \in [Addresses -> Entry]
  /\ \A n \in FakeNames : names[n] # NoEntry => names[n].name = n /\ addresses[names[n].address] = names[n]
  /\ \A a \in Addresses : addresses[a] # NoEntry =>
       addresses[a].address = a /\ names[addresses[a].name] = addresses[a]

Scalars ==
  /\ now \in 0..MaxNow
  /\ v4 \in 0..(Usable - 1) /\ v6 \in 0..HostMask
  /\ refused \in Capacities \cup {0}

IInv == Scalars /\ InverseMaps(byName, fakeReverse)

(* An entry that is not the empty one names a name and an address, and has *)
(* an expiry.                                                              *)
LEMMA EntryFields ==
  ASSUME NEW e \in Entry, e # NoEntry
  PROVE  /\ e.name \in FakeNames /\ e.address \in Addresses /\ e.expires \in 1..(MaxNow + MaxTtl)
         /\ e = [name |-> e.name, address |-> e.address, expires |-> e.expires]
BY DEF Entry, NoEntry

(* A record of a name, an address and a positive expiry is an entry, and   *)
(* not the empty one.                                                      *)
LEMMA MakeEntry ==
  ASSUME NEW n \in FakeNames, NEW a \in Addresses, NEW x \in 1..(MaxNow + MaxTtl)
  PROVE  /\ [name |-> n, address |-> a, expires |-> x] \in Entry
         /\ [name |-> n, address |-> a, expires |-> x] # NoEntry
BY DEF Entry, NoEntry

(* purge_fake keeps the two maps inverse: two names never share an         *)
(* address, so what goes in one map is what goes in the other.             *)
LEMMA PurgeInverse ==
  ASSUME IInv
  PROVE  /\ InverseMaps(PurgedNames, PurgedReverse)
         /\ \A a \in Addresses : PurgedReverse[a] # NoEntry => PurgedReverse[a] = fakeReverse[a]
         /\ \A a \in Addresses : fakeReverse[a] # NoEntry /\ fakeReverse[a].expires > now =>
              PurgedReverse[a] = fakeReverse[a]
         /\ \A n \in FakeNames : n \in Entries \ Expired => PurgedNames[n] = byName[n] /\ byName[n] # NoEntry
         /\ \A n \in FakeNames : n \notin Entries \ Expired => PurgedNames[n] = NoEntry
<1> DEFINE gone == {byName[n].address : n \in Expired}
<1>1. /\ byName \in [FakeNames -> Entry] /\ fakeReverse \in [Addresses -> Entry] /\ now \in Nat
      /\ \A n \in FakeNames : byName[n] # NoEntry => byName[n].name = n /\ fakeReverse[byName[n].address] = byName[n]
      /\ \A a \in Addresses : fakeReverse[a] # NoEntry =>
           fakeReverse[a].address = a /\ byName[fakeReverse[a].name] = fakeReverse[a]
  BY DEF IInv, InverseMaps, Scalars
<1>2. NoEntry \in Entry
  BY ZenonT(40) DEF Entry
<1>3. PurgedNames \in [FakeNames -> Entry]
  BY <1>1, <1>2, SMTT(40) DEF PurgedNames
<1>4. PurgedReverse \in [Addresses -> Entry]
  BY <1>1, <1>2, ZenonT(40) DEF PurgedReverse
<1>5. \A n \in FakeNames : PurgedNames[n] = IF n \in Expired THEN NoEntry ELSE byName[n]
  BY DEF PurgedNames
<1>6. \A a \in Addresses : PurgedReverse[a] = IF a \in gone THEN NoEntry ELSE fakeReverse[a]
  BY SMTT(40) DEF PurgedReverse
<1>7. Expired \subseteq FakeNames /\ \A n \in Expired : byName[n] # NoEntry /\ byName[n].expires <= now
  BY DEF Expired, Entries
<1>8. \A a \in Addresses : a \in gone => fakeReverse[a] # NoEntry /\ fakeReverse[a].expires <= now
                                         /\ fakeReverse[a].name \in Expired
  BY <1>1, <1>7, SMTT(40)
<1>9. \A a \in Addresses : fakeReverse[a] # NoEntry /\ fakeReverse[a].name \in Expired => a \in gone
  <2>1. TAKE a \in Addresses
  <2>2. HAVE fakeReverse[a] # NoEntry /\ fakeReverse[a].name \in Expired
  <2>3. byName[fakeReverse[a].name].address = a
    BY <1>1, <2>2, ZenonT(40)
  <2> QED BY <2>2, <2>3, ZenonT(40)
<1>10. \A n \in FakeNames : PurgedNames[n] # NoEntry =>
         PurgedNames[n].name = n /\ PurgedReverse[PurgedNames[n].address] = PurgedNames[n]
  <2>1. TAKE n \in FakeNames
  <2>2. HAVE PurgedNames[n] # NoEntry
  <2>3. n \notin Expired /\ PurgedNames[n] = byName[n] /\ byName[n] # NoEntry
    BY <2>2, <1>5, ZenonT(40)
  <2>4. byName[n].name = n /\ fakeReverse[byName[n].address] = byName[n]
    BY <2>3, <1>1, ZenonT(40)
  <2>5. byName[n].address \in Addresses
    BY <2>3, <1>1, EntryFields, SMTT(40)
  <2>6. byName[n].address \notin gone
    BY <2>3, <2>4, <2>5, <1>8, Zenon
  <2> QED BY <2>3, <2>4, <2>5, <2>6, <1>6, ZenonT(40)
<1>11. \A a \in Addresses : PurgedReverse[a] # NoEntry =>
         PurgedReverse[a].address = a /\ PurgedNames[PurgedReverse[a].name] = PurgedReverse[a]
  <2>1. TAKE a \in Addresses
  <2>2. HAVE PurgedReverse[a] # NoEntry
  <2>3. a \notin gone /\ PurgedReverse[a] = fakeReverse[a] /\ fakeReverse[a] # NoEntry
    BY <2>2, <1>6, Zenon
  <2>4. fakeReverse[a].name \in FakeNames /\ fakeReverse[a].name \notin Expired
    BY <2>3, <1>9, <1>1, EntryFields, SMTT(40)
  <2> QED BY <2>3, <2>4, <1>1, <1>5, ZenonT(40)
<1>12. InverseMaps(PurgedNames, PurgedReverse)
  BY <1>3, <1>4, <1>10, <1>11, Zenon DEF InverseMaps
<1>13. \A a \in Addresses : PurgedReverse[a] # NoEntry => PurgedReverse[a] = fakeReverse[a]
  BY <1>6, ZenonT(40)
<1>14. \A a \in Addresses : fakeReverse[a] # NoEntry /\ fakeReverse[a].expires > now => PurgedReverse[a] = fakeReverse[a]
  <2>1. TAKE a \in Addresses
  <2>2. HAVE fakeReverse[a] # NoEntry /\ fakeReverse[a].expires > now
  <2>3. fakeReverse[a].expires \in Nat
    BY <2>2, <1>1, EntryFields, SMTT(40)
  <2>4. a \notin gone
    BY <2>2, <2>3, <1>8, <1>1, SMTT(40)
  <2> QED BY <2>4, <1>6, ZenonT(40)
<1>15. \A n \in FakeNames : n \in Entries \ Expired => PurgedNames[n] = byName[n] /\ byName[n] # NoEntry
  BY <1>5, ZenonT(40) DEF Entries
<1>16. \A n \in FakeNames : n \notin Entries \ Expired => PurgedNames[n] = NoEntry
  BY <1>5, Zenon DEF Entries
<1> QED BY <1>12, <1>13, <1>14, <1>15, <1>16, ZenonT(40)

(* Writing one lease over a free address, or over its own old lease, keeps *)
(* the two maps inverse.                                                   *)
LEMMA WriteInverse ==
  ASSUME NEW names, NEW addresses, InverseMaps(names, addresses),
         NEW e \in Entry, e # NoEntry,
         \/ names[e.name] = NoEntry /\ addresses[e.address] = NoEntry
         \/ names[e.name] # NoEntry /\ names[e.name].address = e.address
  PROVE  InverseMaps([names EXCEPT ![e.name] = e], [addresses EXCEPT ![e.address] = e])
<1> DEFINE N == [names EXCEPT ![e.name] = e]
           A == [addresses EXCEPT ![e.address] = e]
<1>1. e.name \in FakeNames /\ e.address \in Addresses
  BY EntryFields, SMTT(40)
<1>2. N \in [FakeNames -> Entry] /\ A \in [Addresses -> Entry]
  BY <1>1, ZenonT(40) DEF InverseMaps
<1>3. \A n \in FakeNames : N[n] = IF n = e.name THEN e ELSE names[n]
  BY DEF InverseMaps
<1>4. \A a \in Addresses : A[a] = IF a = e.address THEN e ELSE addresses[a]
  BY ZenonT(40) DEF InverseMaps
<1>5. ASSUME NEW n \in FakeNames, N[n] # NoEntry
      PROVE  N[n].name = n /\ A[N[n].address] = N[n]
  <2>1. CASE n = e.name
    BY <2>1, <1>1, <1>3, <1>4, ZenonT(40)
  <2>2. CASE n # e.name
    <3>1. N[n] = names[n] /\ names[n] # NoEntry /\ names[n] \in Entry
      BY <2>2, <1>3, <1>5, ZenonT(40) DEF InverseMaps
    <3>2. names[n].name = n /\ addresses[names[n].address] = names[n]
      BY <3>1 DEF InverseMaps
    <3>3. names[n].address \in Addresses
      BY <3>1, EntryFields, ZenonT(40)
    <3>4. names[n].address # e.address
      BY <3>1, <3>2, <3>3, <2>2, <1>1, SMTT(40) DEF InverseMaps
    <3> QED BY <3>1, <3>2, <3>3, <3>4, <1>4, SMTT(40)
  <2> QED BY <2>1, <2>2, Zenon
<1>6. ASSUME NEW a \in Addresses, A[a] # NoEntry
      PROVE  A[a].address = a /\ N[A[a].name] = A[a]
  <2>1. CASE a = e.address
    BY <2>1, <1>1, <1>3, <1>4, ZenonT(40)
  <2>2. CASE a # e.address
    <3>1. A[a] = addresses[a] /\ addresses[a] # NoEntry /\ addresses[a] \in Entry
      BY <2>2, <1>4, <1>6, SMTT(40) DEF InverseMaps
    <3>2. addresses[a].address = a /\ names[addresses[a].name] = addresses[a]
      BY <3>1, ZenonT(40) DEF InverseMaps
    <3>3. addresses[a].name \in FakeNames
      BY <3>1, EntryFields, Zenon
    <3>4. addresses[a].name # e.name
      BY <3>1, <3>2, <2>2, ZenonT(40)
    <3> QED BY <3>1, <3>2, <3>3, <3>4, <1>3, ZenonT(40)
  <2> QED BY <2>1, <2>2, ZenonT(40)
<1> QED BY <1>2, <1>5, <1>6, ZenonT(40) DEF InverseMaps

(* Every candidate the probing computes lies in its pool, and the moved    *)
(* sequence stays within its cycle.                                        *)
LEMMA CandidateInPool ==
  ASSUME IInv, NEW n \in FakeNames, NEW step \in Nat
  PROVE  /\ Candidate(n, step) \in Addresses
         /\ (v4 + step) % Usable \in 0..(Usable - 1)
         /\ (v6 + step) % (HostMask + 1) \in 0..HostMask
<1>1. v4 \in Nat /\ v6 \in Nat /\ Usable \in Nat \ {0} /\ HostMask \in Nat \ {0}
  BY SMTT(40) DEF IInv, Scalars
<1>2. (v4 + step) % Usable \in 0..(Usable - 1)
  BY <1>1, SMTT(40)
<1>3. (v6 + step) % (HostMask + 1) \in 0..HostMask
  BY <1>1, SMTT(40)
<1>4. V4Offset(v4 + step) \in 1..Usable
  BY <1>1, <1>2, SMTT(40) DEF V4Offset
<1>5. V6Offset(v6 + step) \in 1..HostMask
  BY <1>1, <1>3, SMTT(40) DEF V6Offset
<1>6. n[2] \in {"A", "AAAA"}
  BY Zenon DEF FakeNames
<1> QED BY <1>2, <1>3, <1>4, <1>5, <1>6, ZenonT(40) DEF Candidate, Addresses

(* A step that changes something is one operation: a reply is made with    *)
(* the capacity and the TTL of its resolver.                               *)
LEMMA StepCases ==
  ASSUME FakeNext
  PROVE  \/ \E n \in FakeNames, ttl \in FakeTtls : Extend(n, ttl)
         \/ \E n \in FakeNames, cap \in Capacities : RefuseLease(n, cap)
         \/ \E n \in FakeNames, cap \in Capacities, ttl \in FakeTtls : Allocate(n, cap, ttl)
         \/ \E a \in Addresses : FakeDomain(a)
         \/ Sweep \/ FakeTick
<1>1. \A r \in Resolvers : r.capacity \in Capacities /\ r.ttl \in FakeTtls
  BY Zenon DEF Capacities, FakeTtls
<1> QED BY <1>1, ZenonT(40) DEF FakeNext, FakeResponse

(* The initial tables are empty.                                           *)
LEMMA InitIInv == FakeInit => IInv
BY SMTT(40) DEF FakeInit, IInv, InverseMaps, Scalars, Entry, NoEntry

(* Every operation keeps the invariant: it purges both maps and then       *)
(* writes at most one lease, over its own old one or over a free address.  *)
LEMMA NextIInv == IInv /\ [FakeNext]_fakeVars => IInv'
<1> SUFFICES ASSUME IInv, [FakeNext]_fakeVars PROVE IInv'
  BY ZenonT(40)
<1>0. /\ now \in 0..MaxNow /\ v4 \in 0..(Usable - 1) /\ v6 \in 0..HostMask
      /\ byName \in [FakeNames -> Entry] /\ fakeReverse \in [Addresses -> Entry]
      /\ MaxNow \in Nat /\ Usable \in Nat \ {0} /\ HostMask \in Nat \ {0}
  BY DEF IInv, Scalars, InverseMaps
<1>1. \A ttl \in FakeTtls : now + ttl \in 1..(MaxNow + MaxTtl)
  BY <1>0, SMTT(40)
<1>2. ASSUME NEW n \in FakeNames, NEW ttl \in FakeTtls, Extend(n, ttl) PROVE IInv'
  <2> DEFINE e == [byName[n] EXCEPT !.expires = now + ttl]
  <2>1. n \in Entries \ Expired /\ byName[n] \in Entry
    BY <1>2, <1>0, ZenonT(40) DEF Extend
  <2>2. PurgedNames[n] = byName[n] /\ byName[n] # NoEntry
    BY <2>1, PurgeInverse, Zenon
  <2>3. byName[n].name = n /\ byName[n].address \in Addresses
    BY <2>1, <2>2, EntryFields, ZenonT(40) DEF IInv, InverseMaps
  <2>4. e = [name |-> n, address |-> byName[n].address, expires |-> now + ttl]
    BY <2>1, <2>2, <2>3, EntryFields, SMTT(40)
  <2>5. e \in Entry /\ e # NoEntry /\ e.name = n /\ e.address = byName[n].address
    BY <2>3, <2>4, <1>1, MakeEntry, ZenonT(40)
  <2>6. InverseMaps([PurgedNames EXCEPT ![e.name] = e], [PurgedReverse EXCEPT ![e.address] = e])
    BY <2>2, <2>5, PurgeInverse, WriteInverse, ZenonT(40)
  <2>7. byName' = [PurgedNames EXCEPT ![e.name] = e] /\ fakeReverse' = [PurgedReverse EXCEPT ![e.address] = e]
    BY <1>2, <2>5, Zenon DEF Extend
  <2>8. InverseMaps(byName', fakeReverse')
    BY <2>6, <2>7, ZenonT(40)
  <2>9. Scalars'
    BY <1>2, Zenon DEF Extend, IInv, Scalars
  <2> QED BY <2>8, <2>9, ZenonT(40) DEF IInv, InverseMaps
<1>3. ASSUME NEW n \in FakeNames, NEW cap \in Capacities, RefuseLease(n, cap) PROVE IInv'
  <2>1. InverseMaps(byName', fakeReverse')
    BY <1>3, PurgeInverse, ZenonT(40) DEF RefuseLease
  <2>2. PICK step \in Nat : Moved(n, step)
    BY <1>3, SMTT(40) DEF RefuseLease
  <2>3. Scalars'
    BY <1>0, <1>3, <2>2, CandidateInPool, ZenonT(40) DEF RefuseLease, Moved, Scalars
  <2> QED BY <2>1, <2>3, ZenonT(40) DEF IInv, InverseMaps
<1>4. ASSUME NEW n \in FakeNames, NEW cap \in Capacities, NEW ttl \in FakeTtls, Allocate(n, cap, ttl)
      PROVE  IInv'
  <2>1. PICK step \in NextFake(n, cap) :
          /\ n \notin Entries \ Expired
          /\ byName' = [PurgedNames EXCEPT ![n] =
               [name |-> n, address |-> Candidate(n, step), expires |-> now + ttl]]
          /\ fakeReverse' = [PurgedReverse EXCEPT ![Candidate(n, step)] =
               [name |-> n, address |-> Candidate(n, step), expires |-> now + ttl]]
          /\ Moved(n, step) /\ refused' = 0 /\ now' = now
    BY <1>4, Zenon DEF Allocate
  <2> DEFINE e == [name |-> n, address |-> Candidate(n, step), expires |-> now + ttl]
  <2>2. step \in Nat /\ PurgedReverse[Candidate(n, step)] = NoEntry
    BY SMTT(40) DEF NextFake, Tries, Unleased
  <2>3. Candidate(n, step) \in Addresses
    BY <2>2, CandidateInPool, ZenonT(40)
  <2>4. e \in Entry /\ e # NoEntry /\ e.name = n /\ e.address = Candidate(n, step)
    BY <2>3, <1>1, MakeEntry, ZenonT(40)
  <2>5. PurgedNames[n] = NoEntry
    BY <2>1, PurgeInverse, Zenon
  <2>6. InverseMaps([PurgedNames EXCEPT ![e.name] = e], [PurgedReverse EXCEPT ![e.address] = e])
    BY <2>2, <2>4, <2>5, PurgeInverse, WriteInverse, SMTT(40)
  <2>7. InverseMaps(byName', fakeReverse')
    BY <2>1, <2>4, <2>6, ZenonT(40)
  <2>8. Scalars'
    BY <1>0, <2>1, <2>2, CandidateInPool, SMTT(40) DEF Moved, Scalars
  <2> QED BY <2>7, <2>8, ZenonT(40) DEF IInv, InverseMaps
<1>5. ASSUME NEW a \in Addresses, FakeDomain(a) PROVE IInv'
  <2>1. CASE Live(fakeReverse[a])
    BY <1>5, <2>1, Zenon DEF FakeDomain, IInv, Scalars, InverseMaps
  <2>2. CASE ~Live(fakeReverse[a])
    <3>1. /\ fakeReverse[a] # NoEntry /\ fakeReverse[a] \in Entry
          /\ fakeReverse' = [fakeReverse EXCEPT ![a] = NoEntry]
          /\ byName' = [byName EXCEPT ![fakeReverse[a].name] = NoEntry]
      BY <1>5, <2>2, <1>0, ZenonT(40) DEF FakeDomain
    <3>2. fakeReverse[a].name \in FakeNames /\ fakeReverse[a].address = a /\ byName[fakeReverse[a].name] = fakeReverse[a]
      BY <3>1, EntryFields, ZenonT(40) DEF IInv, InverseMaps
    <3>3. NoEntry \in Entry
      BY DEF Entry
    <3>4. byName' \in [FakeNames -> Entry] /\ fakeReverse' \in [Addresses -> Entry]
      BY <3>1, <3>3, <1>0, ZenonT(40)
    <3>5. \A n \in FakeNames : byName'[n] = IF n = fakeReverse[a].name THEN NoEntry ELSE byName[n]
      BY <3>1, <1>0, SMTT(40)
    <3>6. \A b \in Addresses : fakeReverse'[b] = IF b = a THEN NoEntry ELSE fakeReverse[b]
      BY <3>1, <1>0, ZenonT(40)
    <3>7. ASSUME NEW n \in FakeNames, byName'[n] # NoEntry
          PROVE  byName'[n].name = n /\ fakeReverse'[byName'[n].address] = byName'[n]
      <4>1. n # fakeReverse[a].name /\ byName'[n] = byName[n] /\ byName[n] # NoEntry /\ byName[n] \in Entry
        BY <3>5, <3>7, <1>0, ZenonT(40)
      <4>2. byName[n].name = n /\ fakeReverse[byName[n].address] = byName[n] /\ byName[n].address \in Addresses
        BY <4>1, EntryFields, SMTT(40) DEF IInv, InverseMaps
      <4>3. byName[n].address # a
        BY <4>1, <4>2, ZenonT(40)
      <4> QED BY <4>1, <4>2, <4>3, <3>6, ZenonT(40)
    <3>8. ASSUME NEW b \in Addresses, fakeReverse'[b] # NoEntry
          PROVE  fakeReverse'[b].address = b /\ byName'[fakeReverse'[b].name] = fakeReverse'[b]
      <4>1. b # a /\ fakeReverse'[b] = fakeReverse[b] /\ fakeReverse[b] # NoEntry /\ fakeReverse[b] \in Entry
        BY <3>6, <3>8, <1>0, ZenonT(40)
      <4>2. fakeReverse[b].address = b /\ byName[fakeReverse[b].name] = fakeReverse[b] /\ fakeReverse[b].name \in FakeNames
        BY <4>1, EntryFields, SMTT(40) DEF IInv, InverseMaps
      <4>3. fakeReverse[b].name # fakeReverse[a].name
        BY <4>1, <4>2, <3>2, ZenonT(40)
      <4> QED BY <4>1, <4>2, <4>3, <3>5, Zenon
    <3>9. InverseMaps(byName', fakeReverse')
      BY <3>4, <3>7, <3>8, SMTT(40) DEF InverseMaps
    <3>10. Scalars'
      BY <1>5, ZenonT(40) DEF FakeDomain, IInv, Scalars
    <3> QED BY <3>9, <3>10, ZenonT(40) DEF IInv, InverseMaps
  <2> QED BY <2>1, <2>2, ZenonT(40)
<1>6. ASSUME Sweep PROVE IInv'
  <2>1. InverseMaps(byName', fakeReverse')
    BY <1>6, PurgeInverse, ZenonT(40) DEF Sweep
  <2>2. Scalars'
    BY <1>6, Zenon DEF Sweep, IInv, Scalars
  <2> QED BY <2>1, <2>2, ZenonT(40) DEF IInv, InverseMaps
<1>7. ASSUME FakeTick PROVE IInv'
  BY <1>0, <1>7, SMTT(40) DEF FakeTick, IInv, Scalars, InverseMaps
<1>8. CASE UNCHANGED fakeVars
  BY <1>8, Zenon DEF fakeVars, IInv, Scalars, InverseMaps
<1> QED BY <1>2, <1>3, <1>4, <1>5, <1>6, <1>7, <1>8, StepCases, ZenonT(40)

(* FakeSpec keeps the invariant: types and inverse maps.                   *)
THEOREM FakeInvariant == FakeSpec => []IInv
BY InitIInv, NextIInv, PTL DEF FakeSpec

(* Every variable stays in its range, for every pool, capacity and TTL.    *)
THEOREM FakeTypes == FakeSpec => []FakeTypeOK
<1>1. IInv => FakeTypeOK
  BY ZenonT(40) DEF IInv, Scalars, InverseMaps, FakeTypeOK
<1> QED BY <1>1, FakeInvariant, PTL

(* A name's fake address leads back to that name, with one expiry, in      *)
(* every reachable state.                                                  *)
THEOREM LeasesInverseHolds == FakeSpec => []LeasesInverse
<1>1. IInv => LeasesInverse
  BY Zenon DEF IInv, InverseMaps, LeasesInverse, Entries
<1> QED BY <1>1, FakeInvariant, PTL

-----------------------------------------------------------------------------
(* What a step does to the reverse map: an address keeps its entry, loses  *)
(* it, or gets one that expires a resolver's TTL from now; an address      *)
(* whose lease runs keeps the entry or has it restarted under its name.    *)
Restarted(a) == now' = now /\ \E ttl \in FakeTtls : fakeReverse'[a].expires = now + ttl

LEMMA StepOnReverse ==
  ASSUME IInv, FakeNext, NEW a \in Addresses
  PROVE  /\ fakeReverse'[a] \in {fakeReverse[a], NoEntry} \/ Restarted(a)
         /\ fakeReverse[a] # NoEntry /\ fakeReverse[a].expires > now =>
              \/ fakeReverse'[a] = fakeReverse[a]
              \/ fakeReverse'[a].name = fakeReverse[a].name /\ Restarted(a)
<1>0. /\ byName \in [FakeNames -> Entry] /\ fakeReverse \in [Addresses -> Entry]
      /\ PurgedReverse \in [Addresses -> Entry]
  BY PurgeInverse, ZenonT(40) DEF IInv, InverseMaps
<1>1. /\ PurgedReverse[a] \in {fakeReverse[a], NoEntry}
      /\ fakeReverse[a] # NoEntry /\ fakeReverse[a].expires > now => PurgedReverse[a] = fakeReverse[a]
  BY PurgeInverse, Zenon
<1>2. ASSUME NEW n \in FakeNames, NEW ttl \in FakeTtls, Extend(n, ttl)
      PROVE  /\ fakeReverse'[a] = PurgedReverse[a] \/ Restarted(a)
             /\ fakeReverse'[a] # PurgedReverse[a] => fakeReverse'[a].name = fakeReverse[a].name
  <2> DEFINE e == [byName[n] EXCEPT !.expires = now + ttl]
  <2>1. byName[n] \in Entry /\ byName[n] # NoEntry
    BY <1>0, <1>2, PurgeInverse, Zenon DEF Extend
  <2>2. byName[n].name = n /\ fakeReverse[byName[n].address] = byName[n]
    BY <2>1, ZenonT(40) DEF IInv, InverseMaps
  <2>3. e = [name |-> n, address |-> byName[n].address, expires |-> now + ttl]
    BY <2>1, <2>2, EntryFields, SMTT(40)
  <2>4. e.address = byName[n].address /\ e.name = n /\ e.expires = now + ttl
    BY <2>3, ZenonT(40)
  <2>5. fakeReverse' = [PurgedReverse EXCEPT ![e.address] = e] /\ now' = now
    BY <1>2, Zenon DEF Extend
  <2>6. CASE a = e.address
    BY <2>2, <2>4, <2>5, <2>6, <1>0, ZenonT(40) DEF Restarted
  <2>7. CASE a # e.address
    BY <2>5, <2>7, <1>0
  <2> QED BY <2>6, <2>7, ZenonT(40)
<1>3. ASSUME NEW n \in FakeNames, NEW cap \in Capacities, NEW ttl \in FakeTtls, Allocate(n, cap, ttl)
      PROVE  /\ fakeReverse'[a] = PurgedReverse[a] \/ Restarted(a)
             /\ fakeReverse'[a] # PurgedReverse[a] => PurgedReverse[a] = NoEntry
  <2>1. PICK step \in NextFake(n, cap) :
          /\ fakeReverse' = [PurgedReverse EXCEPT ![Candidate(n, step)] =
               [name |-> n, address |-> Candidate(n, step), expires |-> now + ttl]]
          /\ now' = now
    BY <1>3, Zenon DEF Allocate
  <2>2. PurgedReverse[Candidate(n, step)] = NoEntry
    BY ZenonT(40) DEF NextFake, Unleased
  <2>3. CASE a = Candidate(n, step)
    BY <2>1, <2>2, <2>3, <1>0, ZenonT(40) DEF Restarted
  <2>4. CASE a # Candidate(n, step)
    BY <2>1, <2>4, <1>0, ZenonT(40)
  <2> QED BY <2>3, <2>4, ZenonT(40)
<1>4. ASSUME (\E n \in FakeNames, cap \in Capacities : RefuseLease(n, cap)) \/ Sweep
      PROVE  fakeReverse'[a] = PurgedReverse[a]
  BY <1>4, Zenon DEF RefuseLease, Sweep
<1>5. ASSUME NEW b \in Addresses, FakeDomain(b)
      PROVE  /\ fakeReverse'[a] \in {fakeReverse[a], NoEntry}
             /\ fakeReverse[a] # NoEntry /\ fakeReverse[a].expires > now => fakeReverse'[a] = fakeReverse[a]
  <2>1. CASE Live(fakeReverse[b])
    BY <1>5, <2>1, ZenonT(40) DEF FakeDomain
  <2>2. CASE ~Live(fakeReverse[b])
    <3>1. fakeReverse' = [fakeReverse EXCEPT ![b] = NoEntry]
      BY <1>5, <2>2, SMTT(40) DEF FakeDomain
    <3> QED BY <3>1, <2>2, <1>0, ZenonT(40) DEF Live
  <2> QED BY <2>1, <2>2, ZenonT(40)
<1>6. ASSUME FakeTick PROVE fakeReverse'[a] = fakeReverse[a]
  BY <1>6, ZenonT(40) DEF FakeTick
<1>8. CASE \E n \in FakeNames, ttl \in FakeTtls : Extend(n, ttl)
  BY <1>8, <1>2, <1>1, ZenonT(40)
<1>9. CASE \E n \in FakeNames, cap \in Capacities, ttl \in FakeTtls : Allocate(n, cap, ttl)
  BY <1>9, <1>3, <1>1, SMTT(40)
<1> QED BY <1>1, <1>4, <1>5, <1>6, StepCases, <1>8, <1>9, ZenonT(40)

(* No lease promises more than some resolver's TTL from now: only a reply  *)
(* with a TTL below that one can bring an expiry forward.                  *)
Within == \A a \in Addresses : fakeReverse[a] # NoEntry =>
            \E ttl \in FakeTtls : fakeReverse[a].expires <= now + ttl

(* The clock never goes back.                                              *)
LEMMA ClockGoesOn ==
  ASSUME IInv, [FakeNext]_fakeVars
  PROVE  now \in Nat /\ now' \in Nat /\ now' >= now
<1>1. now \in Nat
  BY DEF IInv, Scalars
<1>2. /\ \A n \in FakeNames, ttl \in FakeTtls : Extend(n, ttl) => now' = now
      /\ \A n \in FakeNames, cap \in Capacities : RefuseLease(n, cap) => now' = now
  BY ZenonT(40) DEF Extend, RefuseLease
<1>3. \A n \in FakeNames, cap \in Capacities, ttl \in FakeTtls : Allocate(n, cap, ttl) => now' = now
  BY DEF Allocate
<1>4. (\A b \in Addresses : FakeDomain(b) => now' = now) /\ (Sweep => now' = now)
  BY ZenonT(40) DEF FakeDomain, Sweep
<1>5. now' = now \/ FakeTick
  BY <1>2, <1>3, <1>4, StepCases, ZenonT(40) DEF fakeVars
<1> QED BY <1>1, <1>5, SMTT(40) DEF FakeTick

(* A step keeps every promise within a resolver's TTL of the clock.        *)
LEMMA NextWithin == IInv /\ Within /\ [FakeNext]_fakeVars => Within'
<1> SUFFICES ASSUME IInv, Within, [FakeNext]_fakeVars, NEW a \in Addresses, fakeReverse'[a] # NoEntry
             PROVE  \E ttl \in FakeTtls : fakeReverse'[a].expires <= now' + ttl
  BY ZenonT(40) DEF Within
<1>1. now \in Nat /\ now' \in Nat /\ now' >= now /\ fakeReverse[a] \in Entry
  BY ClockGoesOn, ZenonT(40) DEF IInv, InverseMaps
<1>2. fakeReverse'[a] = fakeReverse[a] \/ Restarted(a)
  BY StepOnReverse, ZenonT(40) DEF fakeVars
<1>3. CASE fakeReverse'[a] = fakeReverse[a]
  <2>1. PICK ttl \in FakeTtls : fakeReverse[a].expires <= now + ttl
    BY <1>3, ZenonT(40) DEF Within
  <2>2. fakeReverse[a].expires \in Nat /\ ttl \in Nat
    BY <1>1, <1>3, EntryFields, SMTT(40)
  <2>3. fakeReverse[a].expires <= now' + ttl
    BY <2>1, <2>2, <1>1, SMTT(40)
  <2> QED BY <2>3, <1>3, ZenonT(40)
<1>4. CASE Restarted(a)
  <2>1. PICK ttl \in FakeTtls : fakeReverse'[a].expires = now + ttl
    BY <1>4, ZenonT(40) DEF Restarted
  <2>2. now' = now /\ ttl \in Nat
    BY <1>4, SMTT(40) DEF Restarted
  <2>3. fakeReverse'[a].expires <= now' + ttl
    BY <2>1, <2>2, <1>1, SMTT(40)
  <2> QED BY <2>3, ZenonT(40)
<1> QED BY <1>2, <1>3, <1>4, ZenonT(40)

(* While a lease runs its address keeps its name and its expiry moves only *)
(* to a resolver's whole TTL from now, and forward only to a TTL lower     *)
(* than another resolver's, for every set of resolvers.                    *)
THEOREM PromisesKeptHolds == FakeSpec => PromisesKept
<1> DEFINE Moves(a) == \E ttl \in FakeTtls :
             /\ fakeReverse'[a].expires = now + ttl
             /\ now + ttl < fakeReverse[a].expires => ttl \in LoweredTtls
           Keeps == \A a \in Addresses : Live(fakeReverse[a]) /\ fakeReverse[a].expires > now' =>
             /\ fakeReverse'[a].name = fakeReverse[a].name
             /\ \/ fakeReverse'[a].expires = fakeReverse[a].expires
                \/ Moves(a)
<1>1. FakeInit => Within
  BY SMTT(40) DEF FakeInit, Within
<1>2. IInv /\ Within /\ [FakeNext]_fakeVars => [Keeps]_fakeVars
  <2> SUFFICES ASSUME IInv, Within, FakeNext, NEW a \in Addresses, Live(fakeReverse[a])
               PROVE  /\ fakeReverse'[a].name = fakeReverse[a].name
                      /\ fakeReverse'[a].expires = fakeReverse[a].expires \/ Moves(a)
    BY ZenonT(40)
  <2>1. fakeReverse[a] # NoEntry /\ fakeReverse[a].expires > now /\ fakeReverse[a] \in Entry
    BY Zenon DEF Live, IInv, InverseMaps
  <2>2. \/ fakeReverse'[a] = fakeReverse[a]
        \/ fakeReverse'[a].name = fakeReverse[a].name /\ Restarted(a)
    BY <2>1, StepOnReverse, Zenon
  <2>3. ASSUME Restarted(a) PROVE Moves(a)
    <3>1. PICK ttl \in FakeTtls : fakeReverse'[a].expires = now + ttl
      BY <2>3, ZenonT(40) DEF Restarted
    <3>2. PICK longer \in FakeTtls : fakeReverse[a].expires <= now + longer
      BY <2>1, ZenonT(40) DEF Within
    <3>3. now \in Nat /\ ttl \in Nat /\ longer \in Nat /\ fakeReverse[a].expires \in Nat
      BY <2>1, EntryFields, SMTT(40) DEF IInv, Scalars
    <3>4. now + ttl < fakeReverse[a].expires => ttl < longer
      BY <3>2, <3>3, SMTT(40)
    <3>5. now + ttl < fakeReverse[a].expires => ttl \in LoweredTtls
      BY <3>4, ZenonT(40) DEF LoweredTtls
    <3> QED BY <3>1, <3>5, ZenonT(40)
  <2> HIDE DEF Moves
  <2> QED BY <2>2, <2>3, ZenonT(40)
<1>3. FakeSpec => []IInv /\ []Within
  BY <1>1, InitIInv, NextIInv, NextWithin, PTL DEF FakeSpec
<1>4. FakeSpec => [][Keeps]_fakeVars
  BY <1>2, <1>3, PTL DEF FakeSpec
<1> QED BY <1>4, Zenon DEF PromisesKept

-----------------------------------------------------------------------------
USE CacheAssumption DEF CacheAssumption

(* What the response cache keeps of an answer: it counts as fresh no       *)
(* longer than any record of it allowed when it came.                      *)
SoundResponse(entry) ==
  /\ entry.inserted \in Nat /\ entry.expires \in Nat
  /\ entry.ttls \subseteq Nat
  /\ \A t \in entry.ttls : entry.expires <= entry.inserted + t

CacheInv ==
  /\ now \in Nat
  /\ \A k \in DOMAIN responses : SoundResponse(responses[k])
  /\ ServedWithinTtl

(* A set of numbers that is not empty has a least one.                     *)
LEMMA LeastNumber ==
  ASSUME NEW T, T \subseteq Nat, T # {}
  PROVE  \E t \in T : \A u \in T : t <= u
<1>1. PICK t \in T : \A u \in T : <<u, t>> \notin OpToRel(<, Nat)
  BY NatLessThanWellFounded, WFMin, Zenon
<1>2. ASSUME NEW u \in T
      PROVE  t <= u
  <2>1. ~(u < t)
    <3>1. SUFFICES ASSUME u < t PROVE FALSE
      BY ZenonT(40)
    <3>2. <<u, t>> \in OpToRel(<, Nat)
      BY <3>1, Zenon DEF OpToRel
    <3> QED BY <3>2, <1>1, ZenonT(40)
  <2> QED BY <2>1, SMTT(40)
<1> QED BY <1>2, ZenonT(40)

(* A response that may be cached has records, and its least TTL is at most *)
(* the TTL of each.                                                        *)
LEMMA LeastTtlBound ==
  ASSUME NEW ttls, ttls \subseteq Nat, LeastTtl(ttls) # 0
  PROVE  LeastTtl(ttls) \in Nat /\ \A t \in ttls : LeastTtl(ttls) <= t
<1> DEFINE least == CHOOSE t \in ttls : \A u \in ttls : t <= u
<1>1. ttls # {}
  BY SMTT(40) DEF LeastTtl
<1>2. least \in ttls /\ \A u \in ttls : least <= u
  BY <1>1, LeastNumber, ZenonT(40)
<1>3. LeastTtl(ttls) = IF least > MaxTtl THEN MaxTtl ELSE least
  BY <1>1, SMTT(40) DEF LeastTtl
<1> HIDE DEF least
<1>4. least \in Nat
  BY <1>2, ZenonT(40)
<1>5. LeastTtl(ttls) \in Nat /\ LeastTtl(ttls) <= least
  BY <1>3, <1>4, SMTT(40)
<1> QED BY <1>2, <1>4, <1>5, SMTT(40)

(* cache_response_inner files only what counts from its shortest record.   *)
LEMMA CacheResponseSound ==
  ASSUME CacheInv, NEW key \in Keys, NEW ttls \in TtlSets, NEW negative \in BOOLEAN, NEW addr \in Addrs,
         CacheResponse(key, ttls, negative, addr)
  PROVE  \A k \in DOMAIN responses' : SoundResponse(responses'[k])
<1> DEFINE entry == [ttls |-> ttls, inserted |-> now, expires |-> now + LeastTtl(ttls)]
           kept == ToSet(EvictIfNeeded(Touch(recency, key)))
<1>1. CASE (negative /\ ~NegativeCache) \/ LeastTtl(ttls) = 0
  BY <1>1, SMTT(40) DEF CacheResponse, CacheInv
<1>2. CASE ~((negative /\ ~NegativeCache) \/ LeastTtl(ttls) = 0)
  <2>1. responses' = Narrow(Put(responses, key, entry), kept)
    BY <1>2, SMTT(40) DEF CacheResponse
  <2>2. SoundResponse(entry)
    <3>1. LeastTtl(ttls) \in Nat /\ \A t \in ttls : LeastTtl(ttls) <= t
      BY <1>2, LeastTtlBound, Zenon
    <3>2. now \in Nat /\ ttls \subseteq Nat
      BY ZenonT(40) DEF CacheInv
    <3> QED BY <3>1, <3>2, SMTT(40) DEF SoundResponse
  <2> HIDE DEF entry, kept
  <2>3. ASSUME NEW k \in DOMAIN responses'
        PROVE  SoundResponse(responses'[k])
    <3>1. \/ k = key /\ responses'[k] = entry
          \/ k \in DOMAIN responses /\ responses'[k] = responses[k]
      BY <2>1, <2>3, ZenonT(40) DEF Narrow, Put
    <3> QED BY <3>1, <2>2, ZenonT(40) DEF CacheInv
  <2> QED BY <2>3, ZenonT(40)
<1> QED BY <1>1, <1>2, ZenonT(40)

(* What cached_response_inner hands out of a sound entry is within the     *)
(* TTLs of its records, and a stale answer has none left.                  *)
LEMMA ServeSound ==
  ASSUME CacheInv, NEW key \in Keys, NEW allowStale \in BOOLEAN, Serve(key, allowStale)
  PROVE  ServedWithinTtl'
<1> DEFINE entry == responses[key]
<1>1. SoundResponse(entry) /\ now \in Nat
  BY ZenonT(40) DEF CacheInv, Serve
<1>2. served' = [key |-> <<key>>, stale |-> allowStale, fields |-> Remaining(entry)]
  BY Zenon DEF Serve
<1>3. served'.key[1] = key /\ served'.stale = allowStale /\ served'.fields = Remaining(entry)
  BY <1>2, ZenonT(40)
<1>4. responses'[served'.key[1]] = entry /\ now' = now
  BY <1>3, Zenon DEF Serve
<1>5. entry.expires + StaleTtl > now /\ (entry.expires > now \/ allowStale)
  BY ZenonT(40) DEF Serve
<1> HIDE DEF entry
<1>6. ASSUME NEW field \in Remaining(entry)
      PROVE  /\ field.original \in entry.ttls
             /\ now >= entry.expires => field.left = 0
             /\ field.left > 0 => now + field.left <= entry.inserted + field.original
  <2>1. PICK t \in entry.ttls : field = [original |-> t, left |->
          IF now >= entry.expires \/ now - entry.inserted > t THEN 0 ELSE t - (now - entry.inserted)]
    BY <1>6, ZenonT(40) DEF Remaining
  <2>2. /\ field.original = t
        /\ field.left = IF now >= entry.expires \/ now - entry.inserted > t THEN 0
                        ELSE t - (now - entry.inserted)
    BY <2>1, ZenonT(40)
  <2>3. t \in Nat /\ entry.inserted \in Nat /\ entry.expires \in Nat
    BY <1>1, ZenonT(40) DEF SoundResponse
  <2>4. field.left > 0 => field.left = t - (now - entry.inserted)
    BY <2>2, SMTT(40)
  <2>5. field.left > 0 => now + field.left <= entry.inserted + t
    BY <2>3, <2>4, <1>1, SMTT(40)
  <2>6. now >= entry.expires => field.left = 0
    BY <2>2, SMTT(40)
  <2> QED BY <2>2, <2>5, <2>6, ZenonT(40)
<1>7. ASSUME NEW field \in Remaining(entry), field.left > 0, NEW t \in entry.ttls
      PROVE  now < entry.inserted + t
  <2>1. ~(now >= entry.expires)
    BY <1>6, <1>7, SMTT(40)
  <2> QED BY <2>1, <1>1, SMTT(40) DEF SoundResponse
<1>8. ASSUME entry.expires <= now
      PROVE  /\ allowStale /\ now < entry.expires + StaleTtl
             /\ \A field \in Remaining(entry) : field.left = 0
  <2>1. allowStale /\ now < entry.expires + StaleTtl
    BY <1>5, <1>8, <1>1, SMTT(40) DEF SoundResponse
  <2>2. now >= entry.expires
    BY <1>8, <1>1, SMTT(40) DEF SoundResponse
  <2> QED BY <2>1, <2>2, <1>6, ZenonT(40)
<1> QED BY <1>3, <1>4, <1>6, <1>7, <1>8, ZenonT(40) DEF ServedWithinTtl

(* An empty cache has served nothing.                                      *)
LEMMA CacheInvInit == CacheInit => CacheInv
BY SMTT(40) DEF CacheInit, CacheInv, Empty, ServedWithinTtl

(* Every call, the clock's ticks included, keeps the cache sound; every    *)
(* call but a lookup that answers clears what was served last.             *)
LEMMA CacheInvNext == CacheInv /\ [CacheNext]_cacheVars => CacheInv'
<1> SUFFICES ASSUME CacheInv, [CacheNext]_cacheVars PROVE CacheInv'
  BY ZenonT(40)
<1>q. served' = NoAnswer => ServedWithinTtl'
  BY Zenon DEF ServedWithinTtl, NoAnswer
<1>1. ASSUME NEW k \in Keys, NEW ttls \in TtlSets, NEW n \in BOOLEAN, NEW a \in Addrs,
             CacheResponse(k, ttls, n, a)
      PROVE  CacheInv'
  <2>1. \A j \in DOMAIN responses' : SoundResponse(responses'[j])
    BY <1>1, CacheResponseSound, Zenon
  <2>2. now' = now /\ served' = NoAnswer
    BY <1>1, ZenonT(40) DEF CacheResponse
  <2> QED BY <2>1, <2>2, <1>q, ZenonT(40) DEF CacheInv, SoundResponse
<1>2. ASSUME NEW k \in Keys, NEW stale \in BOOLEAN, DropStale(k)
      PROVE  CacheInv'
  <2>1. now' = now /\ served' = NoAnswer /\ responses' = Narrow(responses, Keys \ {k})
    BY <1>2, ZenonT(40) DEF DropStale
  <2>2. \A j \in DOMAIN responses' : j \in DOMAIN responses /\ responses'[j] = responses[j]
    BY <2>1, Zenon DEF Narrow
  <2> QED BY <2>1, <2>2, <1>q, ZenonT(40) DEF CacheInv, SoundResponse
<1>3. ASSUME NEW k \in Keys, NEW stale \in BOOLEAN, Serve(k, stale)
      PROVE  CacheInv'
  <2>1. ServedWithinTtl'
    BY <1>3, ServeSound, ZenonT(40)
  <2>2. now' = now /\ responses' = responses
    BY <1>3, ZenonT(40) DEF Serve
  <2> QED BY <2>1, <2>2, ZenonT(40) DEF CacheInv, SoundResponse
<1>4. ASSUME NEW a \in Addrs, ReverseDomain(a)
      PROVE  CacheInv'
  BY <1>4, <1>q, SMTT(40) DEF ReverseDomain, CacheInv, SoundResponse
<1>5. ASSUME FlushResponses \/ ForkForPolicy
      PROVE  CacheInv'
  <2>1. now' = now /\ served' = NoAnswer /\ responses' = Empty
    BY <1>5, SMTT(40) DEF FlushResponses, ForkForPolicy
  <2> QED BY <2>1, <1>q, ZenonT(40) DEF CacheInv, SoundResponse, Empty
<1>6. ASSUME CacheTick
      PROVE  CacheInv'
  <2>1. now' \in Nat /\ served' = NoAnswer /\ responses' = responses
    BY <1>6, SMTT(40) DEF CacheTick, CacheInv
  <2> QED BY <2>1, <1>q, ZenonT(40) DEF CacheInv, SoundResponse
<1>7. ASSUME UNCHANGED cacheVars
      PROVE  CacheInv'
  BY <1>7, ZenonT(40) DEF cacheVars, CacheInv, SoundResponse, ServedWithinTtl, NoAnswer
<1> QED BY <1>1, <1>2, <1>3, <1>4, <1>5, <1>6, <1>7, ZenonT(40) DEF CacheNext, CachedResponse

(* No answer outlives a record of it: every TTL a lookup hands out ends no *)
(* later than the one it came with, none is left once a record ran out,    *)
(* and an expired answer goes only to a caller that takes stale ones,      *)
(* inside the window and with no time left, for every capacity, TTL and    *)
(* stale window.                                                           *)
THEOREM ServedWithinTtlHolds == CacheSpec => []ServedWithinTtl
<1>1. CacheInv => ServedWithinTtl
  BY DEF CacheInv
<1> QED BY <1>1, CacheInvInit, CacheInvNext, PTL DEF CacheSpec
=============================================================================
