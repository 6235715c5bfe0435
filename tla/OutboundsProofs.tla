--------------------------- MODULE OutboundsProofs --------------------------
(***************************************************************************)
(* Proofs about the selector and the lanes of Outbounds, for any number of *)
(* members, flows, entries and retry passes.                               *)
(*                                                                         *)
(* The selector's invariant: a reservation was made one after an even      *)
(* revision, no two have the same number, the newest is the selection's,   *)
(* and an odd revision belongs to one.                                     *)
(***************************************************************************)
EXTENDS Outbounds, FiniteSetTheorems, TLAPS

(* What an actor in state s knows of a selection.                          *)
Sound(s, current, rev) ==
  /\ s.pc \in {"idle", "measure"} => ~s.held
  /\ s.pc = "ask" => s.held
  /\ s.pc = "try" => (s.held <=> s.at # s.start)
  /\ s.pc # "idle" => s.seen < MaxRevision /\ ~Odd(s.seen)
  /\ s.overruled => s.held /\ s.reserved < rev
  /\ s.held => /\ s.at # s.start /\ s.reserved = s.seen + 1 /\ s.reserved <= rev
               /\ s.reserved = rev => s.start = current

SelectorInv ==
  /\ SelectorTypeOK
  /\ \A a \in Actors : Sound(actor[a], active, revision)
  /\ \A a, b \in Actors : actor[a].held /\ actor[b].held /\ actor[a].reserved = actor[b].reserved => a = b
  /\ Odd(revision) => \E a \in Actors : actor[a].held /\ actor[a].reserved = revision

-----------------------------------------------------------------------------
(* The numbers of the members, and what follows one.                       *)
LEMMA MemberFacts == 0 \in Members /\ \A m \in Members : (m + 1) % Count \in Members
<1>1. Count \in Nat /\ Count > 0
  BY SelectorAssumption DEF SelectorAssumption
<1>2. \A k \in Int : k % Count \in 0..(Count - 1)
  BY <1>1
<1> QED
  BY <1>1, <1>2 DEF Members

(* Parity of the revision.                                                 *)
LEMMA Parity == \A n \in Nat : (Odd(n) <=> ~Odd(n + 1)) /\ (Odd(n) <=> Odd(n + 2)) /\ n % 2 \in {0, 1}
BY DEF Odd

(* The numbers of an actor at rest.                                        *)
LEMMA ZeroTypes == 0 \in 0..MaxRevision /\ 0 \in 0..(MaxRevision + 1) /\ 0 \in Members
BY SelectorAssumption, MemberFacts DEF SelectorAssumption

(* The bounds of an actor's numbers.                                       *)
LEMMA ActorTypes ==
  ASSUME SelectorInv, NEW a \in Actors
  PROVE  /\ actor[a] \in ActorStates /\ Sound(actor[a], active, revision)
         /\ actor[a].start \in Members /\ actor[a].at \in Members
         /\ actor[a].seen \in Nat /\ actor[a].reserved \in Nat /\ actor[a].held \in BOOLEAN
         /\ actor[a].pc \in {"idle", "try", "measure", "ask"}
         /\ revision \in Nat /\ active \in Members /\ MaxRevision \in Nat
<1>1. actor[a] \in ActorStates /\ Sound(actor[a], active, revision) /\ MaxRevision \in Nat
  BY SelectorAssumption DEF SelectorInv, SelectorTypeOK, SelectorAssumption
<1> QED
  BY <1>1 DEF ActorStates, SelectorInv, SelectorTypeOK

(* An actor comes to rest while the selection stays, and was not the owner *)
(* of an odd revision.                                                     *)
LEMMA RestsAside ==
  ASSUME SelectorInv, NEW a \in Actors, NEW x \in ActorStates, ~x.held, ~x.overruled,
         x.pc \in {"idle", "measure"} \/ (x.pc = "try" /\ x.at = x.start),
         x.pc # "idle" => x.seen < MaxRevision /\ ~Odd(x.seen),
         actor' = [actor EXCEPT ![a] = x], UNCHANGED <<active, revision>>, built' \subseteq Members,
         Odd(revision) => ~(actor[a].held /\ actor[a].reserved = revision)
  PROVE  SelectorInv'
<1>1. SelectorTypeOK'
  BY DEF SelectorInv, SelectorTypeOK
<1>2. \A b \in Actors : Sound(actor'[b], active', revision')
  BY DEF SelectorInv, SelectorTypeOK, Sound
<1>3. \A b, c \in Actors : actor'[b].held /\ actor'[c].held /\ actor'[b].reserved = actor'[c].reserved => b = c
  BY DEF SelectorInv, SelectorTypeOK
<1>4. Odd(revision') => \E b \in Actors : actor'[b].held /\ actor'[b].reserved = revision'
  BY DEF SelectorInv, SelectorTypeOK
<1> QED
  BY <1>1, <1>2, <1>3, <1>4 DEF SelectorInv

(* The owner of an odd revision comes to rest: the revision is even again, *)
(* and every other reservation is older.                                   *)
LEMMA OwnerRests ==
  ASSUME SelectorInv, NEW a \in Actors, NEW x \in ActorStates, ~x.held, ~x.overruled, x.pc = "idle",
         actor[a].held, actor[a].reserved = revision,
         actor' = [actor EXCEPT ![a] = x], active' \in Members, revision' = revision + 1, built' \subseteq Members
  PROVE  SelectorInv'
<1>0. /\ actor[a].seen < MaxRevision /\ ~Odd(actor[a].seen) /\ revision = actor[a].seen + 1
      /\ actor[a].seen \in Nat /\ revision \in Nat /\ MaxRevision \in Nat
  BY ActorTypes DEF Sound
<1>1. ~Odd(revision') /\ revision' \in 0..(MaxRevision + 1)
  BY <1>0, Parity
<1>2. SelectorTypeOK'
  BY <1>1 DEF SelectorInv, SelectorTypeOK
<1>3. ASSUME NEW b \in Actors PROVE Sound(actor'[b], active', revision')
  <2>1. CASE b = a
    BY <2>1, SMTT(40) DEF Sound, SelectorInv, SelectorTypeOK
  <2>2. CASE b # a
    BY <1>0, <2>2, ActorTypes DEF Sound, SelectorInv, SelectorTypeOK
  <2> QED BY <2>1, <2>2, ZenonT(40)
<1>4. \A b, c \in Actors : actor'[b].held /\ actor'[c].held /\ actor'[b].reserved = actor'[c].reserved => b = c
  BY DEF SelectorInv, SelectorTypeOK
<1> QED
  BY <1>1, <1>2, <1>3, <1>4 DEF SelectorInv

-----------------------------------------------------------------------------
(* Drop: a reservation that is still the selection's is released.          *)
LEMMA DropKeeps ==
  ASSUME SelectorInv, NEW a \in Actors, NEW out \in {"none", "ok", "err"}, Drop(a, out), built' \subseteq Members
  PROVE  SelectorInv'
<1> DEFINE x == [Idle EXCEPT !.out = out, !.at = actor[a].at]
<1>0. actor[a].at \in Members /\ x = [Idle EXCEPT !.out = out, !.at = actor[a].at]
  BY ActorTypes
<1>2. actor' = [actor EXCEPT ![a] = x] /\ active' = active /\ active \in Members
  BY ActorTypes DEF Drop, End
<1> HIDE DEF x
<1>1. x \in ActorStates /\ x.pc = "idle" /\ ~x.held /\ ~x.overruled
  BY <1>0, ZeroTypes, Zenon DEF Idle, ActorStates
<1>3. CASE actor[a].held /\ SelectionIs(actor[a].start, actor[a].reserved)
  BY <1>1, <1>2, <1>3, OwnerRests, Zenon DEF Drop, SelectionIs
<1>4. CASE ~(actor[a].held /\ SelectionIs(actor[a].start, actor[a].reserved))
  <2>1. ~(actor[a].held /\ actor[a].reserved = revision)
    BY <1>4, ActorTypes DEF Sound, SelectionIs
  <2>2. revision' = revision
    BY <1>4 DEF Drop
  <2> QED
    BY <1>1, <1>2, <2>1, <2>2, RestsAside, Zenon
<1> QED
  BY <1>3, <1>4

(* Finish with a winner: only the owner of the odd revision moves the      *)
(* selection.                                                              *)
LEMMA FinishKeeps ==
  ASSUME SelectorInv, NEW a \in Actors, NEW winner \in Members, actor[a].held, Finish(a, winner),
         built' \subseteq Members
  PROVE  SelectorInv'
<1>0. Odd(actor[a].reserved)
  BY ActorTypes, Parity DEF Sound
<1>1. CASE SelectionIs(actor[a].start, actor[a].reserved)
  <2> DEFINE x == [Idle EXCEPT !.out = "ok", !.at = actor[a].at]
  <2>0. actor[a].at \in Members /\ x = [Idle EXCEPT !.out = "ok", !.at = actor[a].at]
    BY ActorTypes
  <2> HIDE DEF x
  <2>1. x \in ActorStates /\ x.pc = "idle" /\ ~x.held /\ ~x.overruled
    BY <2>0, ZeroTypes, Zenon DEF Idle, ActorStates
  <2>2. actor' = [actor EXCEPT ![a] = x] /\ active' = winner /\ revision' = revision + 1
    BY <1>0, <1>1 DEF Finish, End, x
  <2> QED
    BY <1>1, <2>1, <2>2, OwnerRests, Zenon DEF SelectionIs
<1>2. CASE ~SelectionIs(actor[a].start, actor[a].reserved)
  <2> DEFINE x == [Idle EXCEPT !.out = "err", !.at = actor[a].at]
  <2>0. actor[a].at \in Members /\ x = [Idle EXCEPT !.out = "err", !.at = actor[a].at]
    BY ActorTypes
  <2> HIDE DEF x
  <2>1. x \in ActorStates /\ x.pc = "idle" /\ ~x.held /\ ~x.overruled
    BY <2>0, ZeroTypes, Zenon DEF Idle, ActorStates
  <2>2. actor' = [actor EXCEPT ![a] = x] /\ UNCHANGED <<active, revision>>
    BY <1>2 DEF Finish, End, x
  <2>3. ~(actor[a].held /\ actor[a].reserved = revision)
    BY <1>2, ActorTypes DEF Sound, SelectionIs
  <2> QED
    BY <2>1, <2>2, <2>3, RestsAside, Zenon
<1> QED
  BY <1>1, <1>2

(* reserve: the selection was even, so nobody owned it; the new owner's    *)
(* number is larger than every other.                                      *)
LEMMA ReserveKeeps ==
  ASSUME SelectorInv, NEW a \in Actors, NEW at \in Members, Reserve(a, at), built' \subseteq Members,
         actor[a].pc # "idle", ~actor[a].held, at # actor[a].start
  PROVE  SelectorInv'
<1>1. CASE ~(SelectionIs(actor[a].start, actor[a].seen) /\ ~Odd(actor[a].seen))
  BY <1>1, DropKeeps, ZenonT(40) DEF Reserve
<1>2. CASE SelectionIs(actor[a].start, actor[a].seen) /\ ~Odd(actor[a].seen)
  <2> DEFINE x == [actor[a] EXCEPT !.pc = "ask", !.reserved = revision + 1, !.held = TRUE, !.at = at]
  <2>0. /\ actor[a].seen < MaxRevision /\ revision = actor[a].seen /\ revision \in Nat /\ MaxRevision \in Nat
        /\ actor[a].start = active /\ ~Odd(revision) /\ actor[a] \in ActorStates
        /\ revision + 1 \in 0..(MaxRevision + 1) /\ ~actor[a].overruled /\ Odd(revision + 1)
    BY <1>2, ActorTypes, Parity DEF Sound, SelectionIs
  <2>1. /\ x \in ActorStates /\ x.pc = "ask" /\ x.reserved = revision + 1 /\ x.held /\ x.at = at
        /\ x.start = active /\ x.seen = revision /\ ~x.overruled
    BY <2>0, Zenon DEF ActorStates
  <2>2. actor' = [actor EXCEPT ![a] = x] /\ active' = active /\ revision' = revision + 1
    BY <1>2, Zenon DEF Reserve, SelectorInv, SelectorTypeOK
  <2> HIDE DEF x
  <2>3. SelectorTypeOK'
    BY <2>0, <2>1, <2>2 DEF SelectorInv, SelectorTypeOK
  <2>4. ASSUME NEW b \in Actors PROVE Sound(actor'[b], active', revision')
    <3>1. CASE b = a
      BY <3>1, <2>0, <2>1, <2>2, SMTT(40) DEF Sound, SelectorInv, SelectorTypeOK
    <3>2. CASE b # a
      BY <3>2, <2>2, ActorTypes, SMTT(40) DEF Sound, SelectorInv, SelectorTypeOK
    <3> QED BY <3>1, <3>2, SMTT(40)
  <2>5. ASSUME NEW b \in Actors, b # a PROVE actor'[b] = actor[b] /\ (actor[b].held => actor[b].reserved # revision + 1)
    BY <2>2, <2>5, ActorTypes, SMTT(40) DEF Sound, SelectorInv, SelectorTypeOK
  <2>6. actor'[a] = x
    BY <2>2 DEF SelectorInv, SelectorTypeOK
  <2>7. \A b, c \in Actors : actor'[b].held /\ actor'[c].held /\ actor'[b].reserved = actor'[c].reserved => b = c
    BY <2>1, <2>5, <2>6 DEF SelectorInv
  <2>8. Odd(revision') => \E b \in Actors : actor'[b].held /\ actor'[b].reserved = revision'
    BY <2>1, <2>2, <2>6, SMTT(40)
  <2> QED
    BY <2>3, <2>4, <2>7, <2>8 DEF SelectorInv
<1> QED
  BY <1>1, <1>2

(* Every step of the selector keeps the invariant.                         *)
LEMMA SelectorInvNext == SelectorInv /\ [SelectorNext]_selectorVars => SelectorInv'
<1> SUFFICES ASSUME SelectorInv, [SelectorNext]_selectorVars PROVE SelectorInv'
  OBVIOUS
<1>0. /\ built \subseteq Members /\ active \in Members /\ revision \in Nat /\ MaxRevision \in Nat
      /\ Flows \subseteq Actors /\ Prober \in Actors
  BY SelectorAssumption DEF SelectorInv, SelectorTypeOK, Actors, SelectorAssumption
<1>1. ASSUME NEW m \in Members, Select(m) PROVE SelectorInv'
  <2>1. CASE ~(active # m \/ Odd(revision))
    BY <1>1, <2>1 DEF Select, SelectorInv, SelectorTypeOK
  <2>2. CASE active # m \/ Odd(revision)
    <3>1. /\ revision' \in 0..(MaxRevision + 1) /\ revision < revision' /\ ~Odd(revision') /\ active' = m
          /\ actor' = [a \in Actors |-> [actor[a] EXCEPT !.overruled = actor[a].held]] /\ built' = built
      BY <1>0, <1>1, <2>2, Parity DEF Select
    <3>2. ASSUME NEW a \in Actors
          PROVE  /\ actor'[a] \in ActorStates /\ actor'[a].pc = actor[a].pc /\ actor'[a].start = actor[a].start
                 /\ actor'[a].seen = actor[a].seen /\ actor'[a].reserved = actor[a].reserved
                 /\ actor'[a].held = actor[a].held /\ actor'[a].at = actor[a].at
                 /\ actor'[a].overruled = actor[a].held
      <4>1. actor[a] \in ActorStates /\ actor[a].held \in BOOLEAN
        BY ActorTypes
      <4> QED
        BY <3>1, <4>1 DEF ActorStates
    <3>3. SelectorTypeOK'
      BY <1>0, <3>1, <3>2, SMTT(40) DEF SelectorTypeOK
    <3>4. ASSUME NEW a \in Actors PROVE Sound(actor'[a], active', revision')
      BY <1>0, <3>1, <3>2, ActorTypes DEF Sound
    <3>5. \A a, b \in Actors : actor'[a].held /\ actor'[b].held /\ actor'[a].reserved = actor'[b].reserved => a = b
      BY <3>2 DEF SelectorInv
    <3> QED
      BY <3>1, <3>3, <3>4, <3>5 DEF SelectorInv
  <2> QED BY <2>1, <2>2
<1>2. ASSUME NEW f \in Flows, Begin(f) PROVE SelectorInv'
  <2>1. CASE Odd(revision)
    BY <1>0, <1>2, <2>1, DropKeeps DEF Begin
  <2>2. CASE ~Odd(revision)
    <3> DEFINE x == [Idle EXCEPT !.pc = "try", !.start = active, !.seen = revision, !.at = active]
    <3>1. revision \in 0..MaxRevision /\ 0 \in 0..(MaxRevision + 1)
      BY <1>0, <1>2 DEF Begin
    <3>2. /\ x \in ActorStates /\ x.pc = "try" /\ x.at = x.start /\ ~x.held /\ ~x.overruled /\ x.seen = revision
      BY <1>0, <3>1, Zenon DEF Idle, ActorStates
    <3> HIDE DEF x
    <3>3. /\ actor' = [actor EXCEPT ![f] = x] /\ UNCHANGED <<active, revision, built>> /\ revision < MaxRevision
      BY <1>2, <2>2 DEF Begin, x
    <3> QED
      BY <1>0, <2>2, <3>2, <3>3, RestsAside, Zenon
  <2> QED BY <2>1, <2>2
<1>3. ASSUME NEW f \in Flows, Connected(f) PROVE SelectorInv'
  <2>1. built' \subseteq Members /\ actor[f].at \in Members
    BY <1>0, <1>3, ActorTypes, SMTT(40) DEF Connected
  <2>2. CASE actor[f].at # actor[f].start
    <3>1. actor[f].held
      BY <1>0, <1>3, <2>2, ActorTypes, SMTT(40) DEF Connected, Sound
    <3> QED
      BY <1>0, <1>3, <2>1, <2>2, <3>1, FinishKeeps, Zenon DEF Connected
  <2>3. CASE actor[f].at = actor[f].start
    <3>1. PICK out \in {"ok", "err"} : Drop(f, out)
      BY <1>3, <2>3 DEF Connected
    <3> QED
      BY <1>0, <2>1, <3>1, DropKeeps
  <2> QED BY <2>2, <2>3
<1>4. ASSUME NEW f \in Flows, Failed(f) PROVE SelectorInv'
  <2> DEFINE next == (actor[f].at + 1) % Count
  <2>1. built' \subseteq Members /\ actor[f].at \in Members /\ next \in Members /\ actor[f].pc = "try"
    BY <1>0, <1>4, ActorTypes, MemberFacts, SMTT(40) DEF Failed, Build
  <2>2. CASE next = actor[f].start
    BY <1>0, <1>4, <2>1, <2>2, DropKeeps, Zenon DEF Failed
  <2>3. CASE next # actor[f].start /\ actor[f].at = actor[f].start
    <3>1. ~actor[f].held
      BY <1>0, <2>1, <2>3, ActorTypes DEF Sound
    <3>2. Reserve(f, next)
      BY <1>4, <2>3, SMTT(40) DEF Failed
    <3> HIDE DEF next
    <3> QED
      BY <1>0, <2>1, <2>3, <3>1, <3>2, ReserveKeeps, SMTT(40)
  <2>4. CASE next # actor[f].start /\ actor[f].at # actor[f].start
    <3> DEFINE x == [actor[f] EXCEPT !.at = next]
    <3>1. actor' = [actor EXCEPT ![f] = x] /\ UNCHANGED <<active, revision>>
      BY <1>4, <2>4 DEF Failed, SelectorInv, SelectorTypeOK
    <3> HIDE DEF next
    <3>2. /\ x \in ActorStates /\ x.pc = actor[f].pc /\ x.start = actor[f].start /\ x.seen = actor[f].seen
          /\ x.reserved = actor[f].reserved /\ x.held = actor[f].held /\ x.at = next
          /\ x.overruled = actor[f].overruled
      BY <1>0, <2>1, ActorTypes DEF ActorStates
    <3> HIDE DEF x
    <3>3. SelectorTypeOK'
      BY <2>1, <3>1, <3>2, Zenon DEF SelectorInv, SelectorTypeOK
    <3>4. ASSUME NEW b \in Actors PROVE Sound(actor'[b], active', revision')
      <4>1. CASE b = f
        <5>1. Sound(actor[f], active, revision) /\ actor'[f] = x
          BY <1>0, <3>1, ActorTypes, Zenon DEF SelectorInv, SelectorTypeOK
        <5> QED
          BY <2>1, <2>4, <3>1, <3>2, <4>1, <5>1, Zenon DEF Sound
      <4>2. CASE b # f
        BY <3>1, <4>2, ActorTypes DEF SelectorInv, SelectorTypeOK
      <4> QED BY <4>1, <4>2, Zenon
    <3>5. ASSUME NEW b \in Actors PROVE actor'[b].held = actor[b].held /\ actor'[b].reserved = actor[b].reserved
      BY <3>1, <3>2 DEF SelectorInv, SelectorTypeOK
    <3> QED
      BY <3>1, <3>3, <3>4, <3>5 DEF SelectorInv
  <2> QED BY <2>2, <2>3, <2>4
<1>5. ASSUME NEW f \in Flows, Permitted(f) PROVE SelectorInv'
  <2>1. CASE ~SelectionIs(actor[f].start, actor[f].reserved)
    BY <1>0, <1>5, <2>1, DropKeeps, Zenon DEF Permitted
  <2>2. CASE SelectionIs(actor[f].start, actor[f].reserved)
    <3> DEFINE x == [actor[f] EXCEPT !.pc = "try"]
    <3>1. actor' = [actor EXCEPT ![f] = x] /\ UNCHANGED <<active, revision, built>> /\ actor[f].pc = "ask"
      BY <1>5, <2>2 DEF Permitted, SelectorInv, SelectorTypeOK
    <3>2. /\ x \in ActorStates /\ x.pc = "try" /\ x.start = actor[f].start /\ x.seen = actor[f].seen
          /\ x.reserved = actor[f].reserved /\ x.held = actor[f].held /\ x.at = actor[f].at
          /\ x.overruled = actor[f].overruled
      BY <1>0, ActorTypes DEF ActorStates
    <3> HIDE DEF x
    <3>3. SelectorTypeOK'
      BY <3>1, <3>2, Zenon DEF SelectorInv, SelectorTypeOK
    <3>4. ASSUME NEW b \in Actors PROVE Sound(actor'[b], active', revision')
      <4>1. CASE b = f
        <5>1. Sound(actor[f], active, revision) /\ actor'[f] = x
          BY <1>0, <3>1, ActorTypes, Zenon DEF SelectorInv, SelectorTypeOK
        <5> QED
          BY <3>1, <3>2, <4>1, <5>1, ZenonT(40) DEF Sound
      <4>2. CASE b # f
        BY <3>1, <4>2, ActorTypes DEF SelectorInv, SelectorTypeOK
      <4> QED BY <4>1, <4>2
    <3>5. ASSUME NEW b \in Actors PROVE actor'[b].held = actor[b].held /\ actor'[b].reserved = actor[b].reserved
      BY <3>1, <3>2 DEF SelectorInv, SelectorTypeOK
    <3> QED
      BY <3>1, <3>3, <3>4, <3>5 DEF SelectorInv
  <2> QED BY <2>1, <2>2
<1>6. ASSUME NEW a \in Actors, Abandoned(a) PROVE SelectorInv'
  BY <1>0, <1>6, DropKeeps, SMTT(40) DEF Abandoned
<1>7. CASE ProbeBegin
  <2> DEFINE x == [Idle EXCEPT !.pc = "measure", !.start = active, !.seen = revision]
  <2>1. revision \in 0..MaxRevision /\ 0 \in 0..(MaxRevision + 1)
    BY <1>0, <1>7 DEF ProbeBegin
  <2>2. x \in ActorStates /\ x.pc = "measure" /\ ~x.held /\ ~x.overruled /\ x.seen = revision
    BY <1>0, <2>1, MemberFacts, Zenon DEF Idle, ActorStates
  <2> HIDE DEF x
  <2>3. /\ actor' = [actor EXCEPT ![Prober] = x] /\ UNCHANGED <<active, revision, built>> /\ revision < MaxRevision
        /\ ~Odd(revision)
    BY <1>7 DEF ProbeBegin, x
  <2> QED
    BY <1>0, <2>2, <2>3, RestsAside, Zenon
<1>8. CASE ProbePermitted
  <2>1. actor[Prober].held /\ actor[Prober].at \in Members
    BY <1>0, <1>8, ActorTypes, Zenon DEF ProbePermitted, Sound
  <2> QED
    BY <1>0, <1>8, <2>1, FinishKeeps, Zenon DEF ProbePermitted
<1>9. ASSUME NEW latency \in [Members -> 0..MaxLatency], ProbeMeasured(latency) PROVE SelectorInv'
  <2>1. built' \subseteq Members
    BY <1>0, <1>9 DEF ProbeMeasured
  <2>2. CASE Drop(Prober, "none")
    BY <1>0, <2>1, <2>2, DropKeeps, Zenon
  <2>3. ASSUME NEW m \in PickWinner(actor[Prober].start, latency), Reserve(Prober, m) PROVE SelectorInv'
    <3>1. m \in Members /\ m # actor[Prober].start
      BY ZenonT(40) DEF PickWinner
    <3>2. actor[Prober].pc = "measure" /\ ~actor[Prober].held
      BY <1>0, <1>9, ActorTypes, SMTT(40) DEF ProbeMeasured, Sound
    <3> QED
      BY <1>0, <2>1, <2>3, <3>1, <3>2, ReserveKeeps
  <2> QED
    BY <1>9, <2>2, <2>3, Zenon DEF ProbeMeasured
<1>10. CASE UNCHANGED selectorVars
  BY <1>10, Zenon DEF selectorVars, SelectorInv, SelectorTypeOK
<1> QED
  BY <1>1, <1>2, <1>3, <1>4, <1>5, <1>6, <1>7, <1>8, <1>9, <1>10 DEF SelectorNext

(* At the start everyone rests.                                            *)
LEMMA SelectorInvInit == SelectorInit => SelectorInv
<1> SUFFICES ASSUME SelectorInit PROVE SelectorInv
  OBVIOUS
<1>1. Idle \in ActorStates /\ Idle.pc = "idle" /\ ~Idle.held /\ ~Idle.overruled
  BY ZeroTypes DEF Idle, ActorStates
<1>2. revision = 0 /\ revision \in 0..(MaxRevision + 1) /\ ~Odd(revision)
  BY ZeroTypes DEF SelectorInit, Odd
<1> QED
  BY <1>1, <1>2 DEF SelectorInit, SelectorInv, SelectorTypeOK, Sound

(* The invariant holds throughout.                                         *)
LEMMA SelectorInvHolds == SelectorSpec => []SelectorInv
BY SelectorInvInit, SelectorInvNext, PTL DEF SelectorSpec

(* The revision is odd exactly while one actor holds the reservation that  *)
(* will make it even (reserve, finish_reservation and its drop).           *)
THEOREM ReservedOnce == SelectorSpec => []ReservedHasOwner
<1>1. SelectorInv => ReservedHasOwner
  <2> SUFFICES ASSUME SelectorInv PROVE ReservedHasOwner
    OBVIOUS
  <2> DEFINE owners == {a \in Actors : actor[a].held /\ SelectionIs(actor[a].start, actor[a].reserved)}
  <2>0. revision \in Nat
    BY DEF SelectorInv, SelectorTypeOK
  <2>1. CASE Odd(revision)
    <3>1. PICK a \in Actors : actor[a].held /\ actor[a].reserved = revision
      BY <2>1, ZenonT(40) DEF SelectorInv
    <3>2. owners = {a}
      BY <3>1, ActorTypes DEF SelectorInv, Sound, SelectionIs
    <3>3. Cardinality(owners) = 1
      BY <3>2, FS_Singleton, Zenon
    <3> QED
      BY <2>1, <3>3, ZenonT(40) DEF ReservedHasOwner, Odd
  <2>2. CASE ~Odd(revision)
    <3>1. ASSUME NEW a \in Actors, actor[a].held PROVE actor[a].reserved # revision
      BY <2>2, <3>1, ActorTypes, Parity DEF Sound
    <3>2. owners = {}
      BY <3>1 DEF SelectionIs
    <3>3. Cardinality(owners) = 0
      BY <3>2, FS_EmptySet, Zenon
    <3>4. revision % 2 = 0
      BY <2>0, <2>2, SMTT(40) DEF Odd
    <3> QED
      BY <3>3, <3>4, Zenon DEF ReservedHasOwner
  <2> QED BY <2>1, <2>2
<1> QED
  BY <1>1, SelectorInvHolds, PTL

(* Which actor a step of the selector belongs to, and what it does to the  *)
(* selection.                                                              *)
LEMMA ActorStep ==
  ASSUME SelectorInv, SelectorNext, NEW a \in Actors, actor[a].pc # "idle", actor'[a].pc = "idle"
  PROVE  \/ actor'[a].out # "ok" /\ active' = active
         \/ /\ a \in Flows /\ actor[a].pc = "try" /\ actor[a].at = actor[a].start
            /\ SelectionIs(actor[a].start, actor[a].seen) /\ active' = active
         \/ actor[a].pc # "measure" /\ Finish(a, actor[a].at)
<1>0. actor[a] \in ActorStates /\ actor[a].at \in Members /\ actor \in [Actors -> ActorStates]
      /\ Flows \subseteq Actors /\ Prober \in Actors
  BY ActorTypes DEF SelectorInv, SelectorTypeOK, Actors
<1>1. ASSUME NEW out, Drop(a, out) PROVE actor'[a].out = out /\ active' = active
  BY <1>0, <1>1 DEF Drop, End, Idle
<1>2. ASSUME NEW b \in Actors, b # a, NEW out, End(b, out) PROVE FALSE
  BY <1>0, <1>2, Zenon DEF End
<1>3. ASSUME NEW b \in Actors, b # a, NEW out, Drop(b, out) PROVE FALSE
  BY <1>2, <1>3 DEF Drop
<1>4. ASSUME NEW b \in Actors, b # a, NEW w, Finish(b, w) PROVE FALSE
  BY <1>2, <1>4 DEF Finish
<1>5. ASSUME NEW b \in Actors, NEW at, Reserve(b, at) PROVE b = a /\ Drop(a, "err")
  <2>1. ASSUME actor' = [actor EXCEPT ![b].pc = "ask", ![b].reserved = revision + 1, ![b].held = TRUE, ![b].at = at]
        PROVE  FALSE
    <3>1. CASE b = a
      BY <1>0, <2>1, <3>1 DEF ActorStates
    <3>2. CASE b # a
      BY <1>0, <2>1, <3>2
    <3> QED BY <3>1, <3>2
  <2> QED
    BY <1>3, <1>5, <2>1 DEF Reserve
<1>6. ASSUME NEW m \in Members, Select(m) PROVE FALSE
  BY <1>0, <1>6 DEF Select, ActorStates
<1>7. ASSUME NEW f \in Flows, Begin(f) PROVE FALSE
  BY <1>0, <1>3, <1>7, Zenon DEF Begin
<1>8. ASSUME NEW f \in Flows, Connected(f)
      PROVE  \/ Drop(a, "err")
             \/ /\ a \in Flows /\ actor[a].pc = "try" /\ actor[a].at = actor[a].start
                /\ SelectionIs(actor[a].start, actor[a].seen) /\ Drop(a, "ok")
             \/ actor[a].pc # "measure" /\ Finish(a, actor[a].at)
  <2>1. CASE f = a
    BY <1>8, <2>1, Zenon DEF Connected
  <2>2. CASE f # a
    BY <1>0, <1>3, <1>4, <1>8, <2>2 DEF Connected
  <2> QED BY <2>1, <2>2
<1>9. ASSUME NEW f \in Flows, Failed(f) PROVE Drop(a, "err")
  <2>1. CASE f = a
    BY <1>0, <1>5, <1>9, <2>1 DEF Failed, ActorStates
  <2>2. CASE f # a
    BY <1>0, <1>3, <1>5, <1>9, <2>2, Zenon DEF Failed
  <2> QED BY <2>1, <2>2
<1>10. ASSUME NEW f \in Flows, Permitted(f) PROVE Drop(a, "err")
  <2>1. CASE f = a
    BY <1>0, <1>10, <2>1 DEF Permitted, ActorStates
  <2>2. CASE f # a
    BY <1>0, <1>3, <1>10, <2>2 DEF Permitted
  <2> QED BY <2>1, <2>2
<1>11. ASSUME NEW b \in Actors, Abandoned(b) PROVE Drop(a, "err")
  BY <1>3, <1>11 DEF Abandoned
<1>12. CASE ProbeBegin
  BY <1>0, <1>12, Zenon DEF ProbeBegin, Idle
<1>13. CASE ProbePermitted
  BY <1>0, <1>4, <1>13, Zenon DEF ProbePermitted
<1>14. ASSUME NEW latency \in [Members -> 0..MaxLatency], ProbeMeasured(latency)
       PROVE  Drop(a, "none") \/ Drop(a, "err")
  BY <1>0, <1>3, <1>5, <1>14, Zenon DEF ProbeMeasured
<1> QED
  BY <1>1, <1>6, <1>7, <1>8, <1>9, <1>10, <1>11, <1>12, <1>13, <1>14, SMTT(40) DEF SelectorNext

(* A transition that select overruled never moves the selection            *)
(* (finish_reservation).                                                   *)
THEOREM PickStays == SelectorSpec => SelectionSticks
<1> DEFINE Stays == \A a \in Actors : actor[a].overruled /\ actor'[a].pc = "idle" => active' = active
<1>1. SelectorInv /\ [SelectorNext]_selectorVars => [Stays]_selectorVars
  <2> SUFFICES ASSUME SelectorInv, SelectorNext, NEW a \in Actors, actor[a].overruled, actor'[a].pc = "idle"
               PROVE  active' = active
    OBVIOUS
  <2>1. actor[a].held /\ actor[a].reserved < revision /\ actor[a].pc # "idle" /\ actor[a].reserved \in Nat
        /\ revision \in Nat
    BY ActorTypes DEF Sound
  <2>2. Finish(a, actor[a].at) => active' = active
    BY <2>1 DEF Finish, SelectionIs
  <2> QED
    BY <2>1, <2>2, ActorStep, Zenon
<1> QED
  BY <1>1, SelectorInvHolds, PTL DEF SelectorSpec, SelectionSticks

(* A connect that returns a stream went through the member that is active  *)
(* when it returns (failover).                                             *)
THEOREM StreamOnSelection == SelectorSpec => OkOnSelection
<1> DEFINE There == \A f \in Flows :
                      actor[f].pc = "try" /\ actor'[f].out = "ok" /\ actor'[f].pc = "idle" => active' = actor[f].at
<1>1. SelectorInv /\ [SelectorNext]_selectorVars => [There]_selectorVars
  <2> SUFFICES ASSUME SelectorInv, SelectorNext, NEW f \in Flows,
                      actor[f].pc = "try", actor'[f].out = "ok", actor'[f].pc = "idle"
               PROVE  active' = actor[f].at
    OBVIOUS
  <2>1. f \in Actors /\ actor[f].pc # "idle"
    BY DEF Actors
  <2>2. Finish(f, actor[f].at) => active' = actor[f].at
    <3>1. ASSUME End(f, "err") PROVE FALSE
      BY <2>1, <3>1 DEF End, Idle, SelectorInv, SelectorTypeOK
    <3> QED
      BY <3>1 DEF Finish
  <2> QED
    BY <2>1, <2>2, ActorStep DEF SelectionIs
<1> QED
  BY <1>1, SelectorInvHolds, PTL DEF SelectorSpec, OkOnSelection

-----------------------------------------------------------------------------
Steps == {"none", "look", "claim", "build", "up", "timeout", "config"}

(* The registry: passes and reports come only once it runs, and then every *)
(* entry has its sink; the claim of an entry is held by one pass, which    *)
(* has not used the last attempt; only the default can be a stand-in, and  *)
(* what is up was built.                                                   *)
LanesInv ==
  /\ stage \in {"build", "run", "failed"} /\ packetTunnel \in BOOLEAN /\ gates \subseteq Overlays
  /\ entry \in [Entries -> EntryStates] /\ caller \in [Callers -> {"idle", "spawn"}]
  /\ pass \in [Passes -> [Entries -> Steps]]
  /\ \A c \in Callers : caller[c] = "spawn" => stage = "run"
  /\ \A e \in Entries :
       /\ stage = "run" => entry[e].sink /\ entry[e].form # "building"
       /\ entry[e].form = "standin" => e = Primary
       /\ entry[e].up => entry[e].attempts > 0
  /\ \A p \in Passes, e \in Entries :
       /\ pass[p][e] # "none" => stage = "run"
       /\ pass[p][e] = "build" => entry[e].building /\ entry[e].attempts < MaxAttempts
  /\ \A p, q \in Passes, e \in Entries : pass[p][e] = "build" /\ pass[q][e] = "build" => p = q

(* Nothing is built, and no pass has begun.                                *)
LEMMA LanesInvInit == LanesInit => LanesInv
<1> SUFFICES ASSUME LanesInit PROVE LanesInv
  OBVIOUS
<1>1. 0 \in 0..MaxAttempts
  BY LanesAssumption DEF LanesAssumption
<1>2. Unbuilt \in EntryStates /\ ~Unbuilt.up /\ Unbuilt.form = "building"
  BY <1>1, Zenon DEF Unbuilt, EntryStates, Reasons
<1> QED
  BY <1>2 DEF LanesInit, LanesInv, Steps

(* One entry changes while the registry is being built: nothing else of    *)
(* the registry has begun.                                                 *)
LEMMA EntryBuilt ==
  ASSUME LanesInv, stage = "build", NEW e \in Entries, NEW x \in EntryStates,
         entry' = [entry EXCEPT ![e] = x], x.form = "standin" => e = Primary, x.up => x.attempts > 0,
         UNCHANGED <<stage, packetTunnel, gates, caller, pass>>
  PROVE  LanesInv'
BY DEF LanesInv

(* One pass goes on with one entry, without a build.                       *)
LEMMA PassMoves ==
  ASSUME LanesInv, NEW p \in Passes, NEW e \in Entries, pass[p][e] # "none",
         NEW step \in Steps \ {"build"}, At(p, e, step),
         UNCHANGED <<stage, packetTunnel, gates, entry, caller>>
  PROVE  LanesInv'
<1>1. pass' \in [Passes -> [Entries -> Steps]]
  BY DEF LanesInv, At
<1>2. ASSUME NEW q \in Passes, NEW d \in Entries
      PROVE  pass'[q][d] = IF q = p /\ d = e THEN step ELSE pass[q][d]
  BY Zenon DEF LanesInv, At
<1> QED
  BY <1>1, <1>2, SMTT(40) DEF LanesInv

(* A build ends and releases its claim.                                    *)
LEMMA BuildEnds ==
  ASSUME LanesInv, NEW p \in Passes, NEW e \in Entries, pass[p][e] = "build",
         NEW step \in Steps \ {"build"}, At(p, e, step), NEW x \in EntryStates,
         entry' = [entry EXCEPT ![e] = x], x.form = entry[e].form, x.sink = entry[e].sink, x.attempts > 0,
         UNCHANGED <<stage, packetTunnel, gates, caller>>
  PROVE  LanesInv'
<1>1. pass' \in [Passes -> [Entries -> Steps]]
  BY Zenon DEF LanesInv, At
<1>2. ASSUME NEW q \in Passes, NEW d \in Entries
      PROVE  pass'[q][d] = IF q = p /\ d = e THEN step ELSE pass[q][d]
  BY SMTT(40) DEF LanesInv, At
<1>3. ASSUME NEW q \in Passes PROVE pass'[q][e] # "build"
  BY <1>2, SMTT(40) DEF LanesInv
<1>4. ASSUME NEW d \in Entries PROVE entry'[d] = IF d = e THEN x ELSE entry[d]
  BY DEF LanesInv
<1> QED
  BY <1>1, <1>2, <1>3, <1>4 DEF LanesInv

(* Every step of the registry keeps the invariant.                         *)
LEMMA LanesInvNext == LanesInv /\ [LanesNext]_laneVars => LanesInv'
<1> SUFFICES ASSUME LanesInv, [LanesNext]_laneVars PROVE LanesInv'
  OBVIOUS
<1>0. MaxAttempts \in Nat /\ 1 \in 0..MaxAttempts
  BY LanesAssumption DEF LanesAssumption
<1>1. ASSUME NEW e \in Entries, GatedOff(e) PROVE LanesInv'
  <2> DEFINE x == [entry[e] EXCEPT !.form = "deferred"]
  <2>1. entry[e] \in EntryStates /\ (entry[e].up => entry[e].attempts > 0)
    BY DEF LanesInv
  <2>2. x \in EntryStates /\ x.form = "deferred" /\ x.up = entry[e].up /\ x.attempts = entry[e].attempts
    BY <2>1 DEF EntryStates
  <2>3. entry' = [entry EXCEPT ![e] = x]
    BY <1>1 DEF GatedOff, LanesInv
  <2> HIDE DEF x
  <2> QED
    BY <1>1, <2>1, <2>2, <2>3, EntryBuilt, Zenon DEF GatedOff
<1>2. ASSUME NEW e \in Entries, JoinedOk(e) PROVE LanesInv'
  <2> DEFINE form == IF packetTunnel /\ e = Primary THEN "standin" ELSE "plain"
             x == [entry[e] EXCEPT !.form = form, !.up = TRUE, !.attempts = 1]
  <2>1. entry[e] \in EntryStates /\ form \in {"standin", "plain"} /\ (form = "standin" => e = Primary)
    BY DEF LanesInv
  <2>3. entry' = [entry EXCEPT ![e] = x]
    BY <1>2, Zenon DEF JoinedOk, LanesInv
  <2> HIDE DEF form
  <2>2. x \in EntryStates /\ x.form = form /\ x.attempts = 1
    BY <1>0, <2>1, Zenon DEF EntryStates
  <2> HIDE DEF x
  <2> QED
    <3>1. stage = "build" /\ UNCHANGED <<stage, packetTunnel, gates, caller, pass>>
      BY <1>2 DEF JoinedOk, Builds
    <3>2. x.attempts > 0
      BY <2>2
    <3> QED
      BY <2>1, <2>2, <2>3, <3>1, <3>2, EntryBuilt, Zenon
<1>3. ASSUME NEW e \in Entries, NEW reason \in Reasons, JoinedErr(e, reason) PROVE LanesInv'
  <2> DEFINE x == [entry[e] EXCEPT !.form = "deferred", !.reason = reason, !.attempts = 1]
  <2>1. entry[e] \in EntryStates
    BY DEF LanesInv
  <2>2. x \in EntryStates /\ x.form = "deferred" /\ x.attempts = 1
    BY <1>0, <2>1, Zenon DEF EntryStates
  <2>3. entry' = [entry EXCEPT ![e] = x]
    BY <1>3, Zenon DEF JoinedErr, LanesInv
  <2> HIDE DEF x
  <2> QED
    <3>1. stage = "build" /\ UNCHANGED <<stage, packetTunnel, gates, caller, pass>>
      BY <1>3 DEF JoinedErr, Builds
    <3>2. x.attempts > 0 /\ x.form # "standin"
      BY <2>2
    <3> QED
      BY <2>2, <2>3, <3>1, <3>2, EntryBuilt, Zenon
<1>4. ASSUME NEW e \in Entries, JoinedPanic(e) PROVE LanesInv'
  BY <1>4 DEF JoinedPanic, Builds, LanesInv
<1>5. CASE Registered
  <2>1. ASSUME NEW e \in Entries
        PROVE  /\ entry'[e] \in EntryStates /\ entry'[e].sink /\ entry'[e].form = entry[e].form
               /\ entry'[e].up = entry[e].up /\ entry'[e].attempts = entry[e].attempts
               /\ entry[e].form # "building"
    <3>1. entry[e] \in EntryStates /\ entry'[e] = [entry[e] EXCEPT !.sink = TRUE]
      BY <1>5 DEF Registered, LanesInv
    <3> QED
      BY <1>5, <3>1, Zenon DEF EntryStates, Registered
  <2>2. entry' \in [Entries -> EntryStates]
    BY <1>5, <2>1, Zenon DEF Registered
  <2> QED
    BY <1>5, <2>1, <2>2 DEF Registered, LanesInv
<1>6. ASSUME NEW c \in Callers, NEW on \in SUBSET Overlays, Report(c, on) PROVE LanesInv'
  BY <1>6 DEF Report, LanesInv
<1>7. ASSUME NEW c \in Callers, SpawnOutboundRetry(c) PROVE LanesInv'
  <2>0. stage = "run" /\ caller' \in [Callers -> {"idle", "spawn"}]
    BY <1>7, Zenon DEF SpawnOutboundRetry, LanesInv
  <2>1. CASE UNCHANGED pass
    BY <1>7, <2>0, <2>1, SMTT(40) DEF SpawnOutboundRetry, LanesInv
  <2>2. ASSUME NEW p \in Passes, \A e \in Entries : pass[p][e] = "none",
               pass' = [pass EXCEPT ![p] = [e \in Entries |-> IF e \in Deferred THEN "look" ELSE "none"]]
        PROVE  LanesInv'
    <3>1. pass' \in [Passes -> [Entries -> Steps]]
      BY <2>2, Zenon DEF LanesInv, Steps
    <3>2. ASSUME NEW q \in Passes, NEW e \in Entries
          PROVE  pass'[q][e] = "build" => pass[q][e] = "build"
      BY <2>2, SMTT(40) DEF LanesInv
    <3>3. UNCHANGED <<stage, packetTunnel, gates, entry>>
      BY <1>7, ZenonT(40) DEF SpawnOutboundRetry
    <3> QED
      BY <2>0, <3>1, <3>2, <3>3, SMTT(40) DEF LanesInv
  <2> QED
    BY <1>7, <2>1, <2>2, Zenon DEF SpawnOutboundRetry
<1>8. ASSUME NEW p \in Passes, NEW e \in Entries, Look(p, e) PROVE LanesInv'
  <2>1. PICK step \in {"claim", "none"} : At(p, e, step)
    BY <1>8 DEF Look
  <2> QED
    BY <1>8, <2>1, PassMoves, SMTT(40) DEF Look, Steps
<1>9. ASSUME NEW p \in Passes, NEW e \in Entries, Claim(p, e) PROVE LanesInv'
  <2>1. CASE entry[e].building
    BY <1>9, <2>1, PassMoves, ZenonT(40) DEF Claim, Steps
  <2>2. CASE ~entry[e].building
    <3> DEFINE x == [entry[e] EXCEPT !.building = TRUE]
    <3>1. /\ pass' = [pass EXCEPT ![p][e] = "build"] /\ entry' = [entry EXCEPT ![e] = x]
          /\ pass[p][e] = "claim" /\ entry[e].attempts < MaxAttempts
          /\ UNCHANGED <<stage, packetTunnel, gates, caller>>
      BY <1>9, <2>2 DEF Claim, At, LanesInv
    <3>2. entry[e] \in EntryStates
      BY DEF LanesInv
    <3>3. /\ x \in EntryStates /\ x.building /\ x.attempts = entry[e].attempts /\ x.up = entry[e].up
          /\ x.form = entry[e].form /\ x.sink = entry[e].sink
      BY <3>2, Zenon DEF EntryStates
    <3> HIDE DEF x
    <3>4. pass' \in [Passes -> [Entries -> Steps]]
      BY <3>1 DEF LanesInv, Steps
    <3>5. ASSUME NEW q \in Passes, NEW d \in Entries
          PROVE  pass'[q][d] = IF q = p /\ d = e THEN "build" ELSE pass[q][d]
      BY <3>1, Zenon DEF LanesInv
    <3>6. ASSUME NEW q \in Passes PROVE pass[q][e] # "build"
      BY <2>2 DEF LanesInv
    <3>7. ASSUME NEW d \in Entries PROVE entry'[d] = IF d = e THEN x ELSE entry[d]
      BY <3>1, SMTT(40) DEF LanesInv
    <3> QED
      BY <3>1, <3>3, <3>4, <3>5, <3>6, <3>7, SMTT(40) DEF LanesInv
  <2> QED BY <2>1, <2>2, SMTT(40)
<1>10. ASSUME NEW p \in Passes, NEW e \in Entries, Resolve(p, e) PROVE LanesInv'
  <2> DEFINE x == [entry[e] EXCEPT !.up = TRUE, !.attempts = @ + 1, !.building = FALSE]
  <2>1. entry[e] \in EntryStates /\ entry[e].attempts < MaxAttempts /\ pass[p][e] = "build"
    BY <1>10 DEF Resolve, LanesInv
  <2>2. entry[e].attempts \in Nat /\ entry[e].attempts + 1 \in 0..MaxAttempts
    BY <1>0, <2>1 DEF EntryStates
  <2>3. /\ x \in EntryStates /\ x.form = entry[e].form /\ x.sink = entry[e].sink
        /\ x.attempts = entry[e].attempts + 1
    BY <2>1, <2>2, Zenon DEF EntryStates
  <2>4. entry' = [entry EXCEPT ![e] = x]
    BY <1>10, Zenon DEF Resolve, LanesInv
  <2> HIDE DEF x
  <2> QED
    <3>1. At(p, e, "up") /\ "up" \in Steps \ {"build"} /\ UNCHANGED <<stage, packetTunnel, gates, caller>>
      BY <1>10, SMTT(40) DEF Resolve, Steps
    <3>2. x.attempts > 0
      BY <2>2, <2>3
    <3> QED
      BY <2>1, <2>3, <2>4, <3>1, <3>2, BuildEnds, Zenon
<1>11. ASSUME NEW p \in Passes, NEW e \in Entries, NEW reason \in Reasons, RecordFailure(p, e, reason)
       PROVE  LanesInv'
  <2> DEFINE x == [entry[e] EXCEPT !.reason = reason, !.attempts = @ + 1, !.building = FALSE]
  <2>1. entry[e] \in EntryStates /\ entry[e].attempts < MaxAttempts /\ pass[p][e] = "build"
    BY <1>11 DEF RecordFailure, LanesInv
  <2>2. entry[e].attempts \in Nat /\ entry[e].attempts + 1 \in 0..MaxAttempts
    BY <1>0, <2>1 DEF EntryStates
  <2>3. /\ x \in EntryStates /\ x.form = entry[e].form /\ x.sink = entry[e].sink
        /\ x.attempts = entry[e].attempts + 1
    BY <2>1, <2>2, Zenon DEF EntryStates
  <2>4. entry' = [entry EXCEPT ![e] = x]
    BY <1>11, Zenon DEF RecordFailure, LanesInv
  <2> HIDE DEF x
  <2>5. PICK step \in {"timeout", "config", "none"} : At(p, e, step)
    BY <1>11 DEF RecordFailure, Reasons
  <2> QED
    <3>1. step \in Steps \ {"build"} /\ UNCHANGED <<stage, packetTunnel, gates, caller>>
      BY <1>11 DEF RecordFailure, Steps
    <3>2. x.attempts > 0
      BY <2>2, <2>3
    <3> QED
      BY <2>1, <2>3, <2>4, <2>5, <3>1, <3>2, BuildEnds, Zenon
<1>12. ASSUME NEW p \in Passes, NEW e \in Entries, AttemptPanic(p, e) \/ Publish(p, e) PROVE LanesInv'
  BY <1>12, PassMoves, Zenon DEF AttemptPanic, Publish, Steps
<1>13. CASE UNCHANGED laneVars
  BY <1>13 DEF laneVars, LanesInv
<1> QED
  BY <1>1, <1>2, <1>3, <1>4, <1>5, <1>6, <1>7, <1>8, <1>9, <1>10, <1>11, <1>12, <1>13, Zenon DEF LanesNext

(* However many reports arrive together, no entry is built twice at a      *)
(* time, and nothing but an outbound that was built carries traffic        *)
(* (begin_attempt, select_route, selected_outbound, resolve).              *)
THEOREM LanesHold == LanesSpec => []LanesSound
<1>1. LanesSpec => []LanesInv
  BY LanesInvInit, LanesInvNext, PTL DEF LanesSpec
<1>2. LanesInv => LanesSound
  <2> SUFFICES ASSUME LanesInv PROVE LanesSound
    OBVIOUS
  <2>1. OneBuildAtATime
    <3> SUFFICES ASSUME NEW e \in Entries
                 PROVE  LET builders == {p \in Passes : pass[p][e] = "build"}
                        IN  /\ Cardinality(builders) <= 1
                            /\ builders # {} => entry[e].building /\ entry[e].sink
      BY Zenon DEF OneBuildAtATime
    <3> DEFINE builders == {p \in Passes : pass[p][e] = "build"}
    <3>1. CASE builders = {}
      BY <3>1, FS_EmptySet
    <3>2. CASE builders # {}
      <4>1. PICK p \in Passes : pass[p][e] = "build"
        BY <3>2
      <4>2. builders = {p}
        BY <4>1, Zenon DEF LanesInv
      <4>3. Cardinality(builders) = 1
        BY <4>2, FS_Singleton, Zenon
      <4>4. entry[e].building /\ entry[e].sink
        BY <4>1, SMTT(40) DEF LanesInv
      <4> QED
        BY <4>3, <4>4, SMTT(40)
    <3> QED BY <3>1, <3>2
  <2>2. NothingOnStandIn
    BY DEF NothingOnStandIn, LanesInv, Carriers, SelectRoute, SelectedOutbound, LanResolve, StandIn, IsAvailable
  <2> QED
    BY <2>1, <2>2, ZenonT(40) DEF LanesSound
<1> QED
  BY <1>1, <1>2, PTL
=============================================================================
