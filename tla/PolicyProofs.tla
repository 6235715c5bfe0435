---------------------------- MODULE PolicyProofs ----------------------------
(***************************************************************************)
(* Proofs about the policy store and its two consumers, for any number of  *)
(* controllers, flows, 5-tuples, documents and bundles.                    *)
(*                                                                         *)
(* The store's invariant says who is inside the mutex and which epoch that *)
(* controller has still to cancel.  The consumers' invariants rest on one  *)
(* fact about epochs: as long as an epoch is the published one, the kill   *)
(* switch stays as it was when the epoch was loaded.                       *)
(***************************************************************************)
EXTENDS FlowAdmission, TLAPS

Holding == {"cancel", "flush", "netswap", "netcancel"}
Revoking == {"cancel", "netcancel"}

Settings == {FALSE} \cup {r.continuity : r \in Requests}
Blocklists == {r.blocked : r \in Requests}
Pinnings == {r.sources : r \in Requests}
Filters == [Names -> Bundles \cup {NoBundle, EmbeddedArtifact, NoArtifact}]

Calls ==
  [pc : {"idle", "reload", "cancel", "flush", "apply", "publish", "fail",
         "install", "report", "netswap", "netcancel"},
   kill : BOOLEAN, continuity : Settings,
   outcome : {"none", "invalid", "conflict", "refused", "emergency", "applied"},
   previous : Nat, revision : Nat, epoch : Nat, proxy : Nat]

Snapshots ==
  [revision : Nat, kill : BOOLEAN, continuity : Settings, blocked : Blocklists,
   sources : Pinnings, artifacts : Filters, cache : Nat, proxy : Nat, epoch : Nat]

StoreTypes ==
  /\ snap \in Snapshots
  /\ installed \in [Names -> Bundles \cup {NoBundle}]
  /\ nextEpoch \in Nat /\ mutex \in Controllers \cup {NoOne}
  /\ call \in [Controllers -> Calls]

(* Epochs below nextEpoch have been handed out; the mutex is held exactly  *)
(* by the controller between a swap and the end of its revocation, and the *)
(* only epoch it remembers is one that it has replaced.                    *)
EpochInv ==
  /\ snap.epoch \in 1..(nextEpoch - 1) /\ cancelled \subseteq 1..(nextEpoch - 1)
  /\ \A c \in Controllers :
       /\ (mutex = c) <=> (call[c].pc \in Holding)
       /\ IF call[c].pc \in Revoking
            THEN call[c].epoch \in 1..(nextEpoch - 1) /\ call[c].epoch # snap.epoch
            ELSE call[c].epoch = 0

StoreInv == StoreTypes /\ EpochInv /\ StoreConsistent

-----------------------------------------------------------------------------
(* What a validated policy document holds.                                 *)
LEMMA RequestTypes ==
  ASSUME NEW r \in Requests
  PROVE  /\ r.kill \in BOOLEAN /\ r.continuity \in Settings /\ r.blocked \in Blocklists /\ r.sources \in Pinnings
         /\ \A n \in Names : r.sources[n] # Unpinned => r.sources[n].minimum \in Nat
  BY PolicyAssumption, Zenon DEF PolicyAssumption, Settings, Blocklists, Pinnings

(* A controller between calls, and the free mutex, which is no controller. *)
LEMMA IdleTypes ==
  /\ NoOne \notin Controllers /\ FALSE \in Settings
  /\ Idle \in Calls /\ Idle.epoch = 0 /\ Idle.pc = "idle"
  BY PolicyAssumption DEF PolicyAssumption, Settings, Idle, Calls

(* The initial snapshot is consistent (new_with_trusted_rule_sets).        *)
LEMMA StoreInvInit == StoreInit => StoreInv
<1> SUFFICES ASSUME StoreInit PROVE StoreInv
  OBVIOUS
<1>1. PICK r \in Requests, b \in [Names -> Bundles \cup {NoBundle}] :
        ~Refused(r.sources, b) /\ installed = b /\ snap = InitialSnapshot(r, b)
  BY DEF StoreInit
<1>2. snap.artifacts \in Filters
  BY <1>1 DEF InitialSnapshot, Artifacts, Artifact, Filters
<1>3. StoreTypes
  BY <1>1, <1>2, RequestTypes, IdleTypes DEF StoreInit, StoreTypes, InitialSnapshot, Snapshots
<1>4. EpochInv
  BY <1>1, IdleTypes DEF StoreInit, EpochInv, InitialSnapshot, Holding, Revoking
<1>5. EveryEpochAccounted
  BY <1>1 DEF StoreInit, EveryEpochAccounted, InitialSnapshot
<1>6. ResolverServesInstalled
  BY <1>1 DEF ResolverServesInstalled, InitialSnapshot, Refused, Artifacts
<1> QED
  BY <1>3, <1>4, <1>5, <1>6 DEF StoreInv, StoreConsistent
-----------------------------------------------------------------------------
(* A step of a call outside the mutex that touches nothing of the store.   *)
LEMMA QuietStep ==
  ASSUME StoreInv, NEW c \in Controllers, NEW x \in Calls,
         call[c].pc \notin Holding, x.pc \notin Holding, x.epoch = 0,
         call' = [call EXCEPT ![c] = x],
         UNCHANGED <<snap, installed, cancelled, nextEpoch, mutex>>
  PROVE  StoreInv'
<1>1. StoreTypes'
  BY DEF StoreInv, StoreTypes
<1>2. EpochInv'
  BY DEF StoreInv, StoreTypes, EpochInv, Holding, Revoking
<1>3. EveryEpochAccounted'
  BY DEF StoreInv, StoreTypes, EpochInv, StoreConsistent, EveryEpochAccounted
<1>4. ResolverServesInstalled'
  BY DEF StoreInv, StoreConsistent, ResolverServesInstalled, Artifacts
<1> QED
  BY <1>1, <1>2, <1>3, <1>4 DEF StoreInv, StoreConsistent

(* The swap of a revoking controller: a fresh epoch is published, and the  *)
(* replaced one is remembered by the controller inside the mutex.          *)
LEMMA SwapStep ==
  ASSUME StoreInv, NEW c \in Controllers, NEW x \in Calls,
         \/ mutex = NoOne
         \/ mutex = c /\ call[c].pc = "netswap",
         x.pc \in Revoking, x.epoch = snap.epoch, mutex' = c,
         call' = [call EXCEPT ![c] = x],
         nextEpoch' = nextEpoch + 1, snap'.epoch = nextEpoch, cancelled' = cancelled,
         snap' \in Snapshots, installed' = installed,
         ResolverServesInstalled'
  PROVE  StoreInv'
<1>1. StoreTypes'
  BY DEF StoreInv, StoreTypes
<1>2. EpochInv'
  BY IdleTypes DEF StoreInv, StoreTypes, EpochInv, Holding, Revoking, Snapshots
<1>3. EveryEpochAccounted'
  BY IdleTypes DEF StoreInv, StoreTypes, EpochInv, StoreConsistent, EveryEpochAccounted, Holding, Revoking, Snapshots, Calls
<1> QED
  BY <1>1, <1>2, <1>3 DEF StoreInv, StoreConsistent

(* Every step of a controller keeps the store consistent, and the clock    *)
(* too, which makes bundles unfresh after they were admitted.              *)
LEMMA StoreInvNext == StoreInv /\ [StoreNext]_storeVars => StoreInv'
<1> SUFFICES ASSUME StoreInv, [StoreNext]_storeVars PROVE StoreInv'
  OBVIOUS
<1>0. /\ snap \in Snapshots /\ nextEpoch \in Nat /\ snap.kill \in BOOLEAN
      /\ snap.revision \in Nat /\ snap.revision + 1 \in Nat /\ snap.epoch \in Nat /\ snap.proxy \in Nat
  BY DEF StoreInv, StoreTypes, Snapshots
<1>1. CASE \E c \in Controllers : Reload(c)
  <2> PICK c \in Controllers : Reload(c)
    BY <1>1
  <2> /\ call[c] \in Calls /\ (mutex = c <=> call[c].pc \in Holding) /\ c # NoOne
      /\ call[c].pc \notin Revoking => call[c].epoch = 0
    BY IdleTypes DEF StoreInv, StoreTypes, EpochInv
  <2> DEFINE Kept(x) == /\ x \in Calls /\ call[c].pc \notin Holding /\ x.pc \notin Holding /\ x.epoch = 0
                        /\ call' = [call EXCEPT ![c] = x]
                        /\ UNCHANGED <<snap, installed, cancelled, nextEpoch, mutex>>
  <2>0. ASSUME NEW x, Kept(x) PROVE StoreInv'
    BY <2>0, QuietStep, Zenon
  <2>1. CASE ReloadCall(c)
    <3> DEFINE x == [call[c] EXCEPT !.pc = "reload", !.previous = snap.revision]
    <3> Kept(x)
      BY <1>0, <2>1, Zenon DEF ReloadCall, Calls, Snapshots, Holding, Revoking, StoreInv, StoreTypes
    <3> QED BY <2>0, Zenon
  <2>2. CASE ReloadInvalid(c)
    <3> DEFINE x == [call[c] EXCEPT !.pc = "fail", !.outcome = "invalid"]
    <3> Kept(x)
      BY <1>0, <2>2, Zenon DEF ReloadInvalid, Calls, Holding, Revoking, StoreInv, StoreTypes
    <3> QED BY <2>0, Zenon
  <2>3. CASE ReloadApply(c)
    <3> DEFINE x == [call[c] EXCEPT !.pc = "publish", !.continuity = FALSE]
    <3> Kept(x)
      BY <1>0, <2>3, IdleTypes, Zenon DEF ReloadApply, Calls, Holding, Revoking, StoreInv, StoreTypes
    <3> QED BY <2>0, Zenon
  <2>4. CASE ReloadPublish(c) \/ ReloadFail(c)
    <3> Kept(Idle)
      BY <2>4, IdleTypes DEF ReloadPublish, ReloadFail, Holding
    <3> QED BY <2>0, Zenon
  <2>5. ASSUME NEW request \in Requests, NEW expected \in 0..MaxRevision,
               ReloadConflict(c, request, expected) \/ ReloadRefuse(c, request, expected)
        PROVE  StoreInv'
    <3> PICK out \in {"conflict", "refused"} :
            call' = [call EXCEPT ![c].pc = "fail", ![c].outcome = out, ![c].kill = request.kill]
      BY <2>5 DEF ReloadConflict, ReloadRefuse
    <3> DEFINE x == [call[c] EXCEPT !.pc = "fail", !.outcome = out, !.kill = request.kill]
    <3>1. x \in Calls
      BY <1>0, RequestTypes, Zenon DEF Calls
    <3>2. Kept(x)
      BY <1>0, <2>5, <3>1, ZenonT(40) DEF ReloadConflict, ReloadRefuse, Calls, Holding, Revoking, StoreInv, StoreTypes
    <3> QED BY <2>0, <3>2, Zenon
  <2>6. ASSUME NEW request \in Requests, NEW expected \in 0..MaxRevision,
               ReloadEmergency(c, request, expected)
        PROVE  StoreInv'
    <3> DEFINE x == [call[c] EXCEPT !.pc = "cancel", !.outcome = "emergency", !.kill = TRUE,
                                    !.epoch = snap.epoch, !.proxy = snap.proxy]
    <3>0. x \in Calls
      BY <1>0, Zenon DEF Calls
    <3>1. x \in Calls /\ x.pc \in Revoking /\ x.epoch = snap.epoch /\ call' = [call EXCEPT ![c] = x]
      BY <1>0, <2>6, <3>0, ZenonT(40) DEF ReloadEmergency, Calls, Revoking, StoreInv, StoreTypes
    <3>2. snap' \in Snapshots
      BY <1>0, <2>6, Zenon DEF ReloadEmergency, Snapshots
    <3>4. snap'.epoch = nextEpoch /\ snap'.artifacts = snap.artifacts /\ snap'.sources = snap.sources
      BY <1>0, <2>6 DEF ReloadEmergency, Snapshots
    <3>3. ResolverServesInstalled'
      BY <2>6, <3>4 DEF ReloadEmergency, ResolverServesInstalled, Artifacts, StoreInv, StoreConsistent
    <3> QED
      BY <2>6, <3>1, <3>2, <3>4, <3>3, SwapStep, Zenon DEF ReloadEmergency
  <2>7. ASSUME NEW request \in Requests, NEW expected \in 0..MaxRevision,
               ReloadSwap(c, request, expected)
        PROVE  StoreInv'
    <3> DEFINE revoke == request.kill \/ snap.kill
               x == [call[c] EXCEPT !.pc = IF revoke THEN "cancel" ELSE "apply",
                              !.outcome = "applied", !.kill = request.kill,
                              !.continuity = request.continuity,
                              !.revision = snap.revision + 1,
                              !.epoch = IF revoke THEN snap.epoch ELSE 0,
                              !.proxy = IF revoke THEN snap.proxy ELSE 0]
    <3>0. x \in Calls
      BY <1>0, RequestTypes, ZenonT(40) DEF Calls
    <3>1. x \in Calls /\ call' = [call EXCEPT ![c] = x]
      BY <2>7, <3>0, ZenonT(40) DEF ReloadSwap, StoreInv, StoreTypes
    <3>2. Artifacts(request.sources, installed) \in Filters
      BY DEF Artifacts, Artifact, Filters, StoreInv, StoreTypes
    <3>3. snap' \in Snapshots
      BY <1>0, <2>7, <3>2, RequestTypes, Zenon DEF ReloadSwap, Snapshots
    <3>4. ResolverServesInstalled'
      BY <2>7 DEF ReloadSwap, ResolverServesInstalled, Refused, Artifacts
    <3>5. CASE revoke
      <4>1. x.pc \in Revoking /\ x.epoch = snap.epoch
        BY <1>0, <3>5, Zenon DEF Calls, Revoking
      <4>2. /\ mutex = NoOne /\ mutex' = c /\ nextEpoch' = nextEpoch + 1 /\ snap'.epoch = nextEpoch
            /\ cancelled' = cancelled /\ installed' = installed
        BY <2>7, <3>5, Zenon DEF ReloadSwap
      <4> QED
        BY <3>1, <3>3, <3>4, <4>1, <4>2, SwapStep, Zenon
    <3>6. CASE ~revoke
      <4>1. StoreTypes'
        BY <2>7, <3>1, <3>3, <3>6, SMTT(40) DEF ReloadSwap, StoreInv, StoreTypes
      <4>0. x.pc \notin Holding /\ x.epoch = 0 /\ snap'.epoch = snap.epoch
        BY <1>0, <2>7, <3>6 DEF ReloadSwap, Calls, Holding
      <4>2. EpochInv'
        <5>1. /\ mutex = NoOne /\ mutex' = NoOne /\ nextEpoch' = nextEpoch /\ cancelled' = cancelled
              /\ call[c].pc \notin Holding
          BY <2>7, <3>6, IdleTypes, ZenonT(40) DEF ReloadSwap, Holding
        <5> HIDE DEF x
        <5> QED
          BY <3>1, <4>0, <5>1, IdleTypes, ZenonT(40) DEF StoreInv, StoreTypes, EpochInv, Holding, Revoking
      <4>3. EveryEpochAccounted'
        BY <1>0, <2>7, <3>1, <3>6 DEF ReloadSwap, StoreInv, StoreTypes, StoreConsistent, EveryEpochAccounted
      <4> QED
        BY <3>4, <4>1, <4>2, <4>3, ZenonT(40) DEF StoreInv, StoreConsistent
    <3> QED BY <3>5, <3>6
  <2>8. CASE ReloadCancel(c)
    <3>0. call' = [call EXCEPT ![c] = [call[c] EXCEPT !.pc = "flush", !.epoch = 0]]
      BY <2>8, Zenon DEF ReloadCancel, StoreInv, StoreTypes
    <3>1. StoreTypes'
      <4> [call[c] EXCEPT !.pc = "flush", !.epoch = 0] \in Calls
        BY Zenon DEF Calls
      <4> QED BY <2>8, <3>0 DEF ReloadCancel, StoreInv, StoreTypes
    <3>2. EpochInv'
      BY <1>0, <2>8 DEF ReloadCancel, StoreInv, StoreTypes, EpochInv, Holding, Revoking, Calls
    <3>3. EveryEpochAccounted'
      BY <1>0, <2>8 DEF ReloadCancel, StoreInv, StoreTypes, EpochInv, StoreConsistent, EveryEpochAccounted,
                        Holding, Revoking
    <3>4. ResolverServesInstalled'
      BY <2>8 DEF ReloadCancel, StoreInv, StoreConsistent, ResolverServesInstalled, Artifacts
    <3> QED
      BY <3>1, <3>2, <3>3, <3>4 DEF StoreInv, StoreConsistent
  <2>9. CASE ReloadFlush(c)
    <3> DEFINE next == IF call[c].outcome = "applied" THEN "apply" ELSE "fail"
    <3>0. call' = [call EXCEPT ![c] = [call[c] EXCEPT !.pc = next, !.proxy = 0]]
      BY <2>9, Zenon DEF ReloadFlush, StoreInv, StoreTypes
    <3>1. StoreTypes'
      <4> [call[c] EXCEPT !.pc = next, !.proxy = 0] \in Calls
        BY Zenon DEF Calls
      <4> QED BY <2>9, <3>0 DEF ReloadFlush, StoreInv, StoreTypes
    <3>2. EpochInv'
      BY <2>9, IdleTypes DEF ReloadFlush, StoreInv, StoreTypes, EpochInv, Holding, Revoking, Calls
    <3>3. EveryEpochAccounted'
      BY <1>0, <2>9 DEF ReloadFlush, StoreInv, StoreTypes, EpochInv, StoreConsistent, EveryEpochAccounted,
                        Holding, Revoking
    <3>4. ResolverServesInstalled'
      BY <2>9 DEF ReloadFlush, StoreInv, StoreConsistent, ResolverServesInstalled, Artifacts
    <3> QED
      BY <3>1, <3>2, <3>3, <3>4 DEF StoreInv, StoreConsistent
  <2> QED
    BY <2>1, <2>2, <2>3, <2>4, <2>5, <2>6, <2>7, <2>8, <2>9 DEF Reload, ReloadElse
<1>2. CASE \E c \in Controllers : Install(c)
  <2> PICK c \in Controllers : Install(c)
    BY <1>2
  <2> /\ call[c] \in Calls /\ (mutex = c <=> call[c].pc \in Holding) /\ c # NoOne
      /\ call[c].pc \notin Revoking => call[c].epoch = 0
    BY IdleTypes DEF StoreInv, StoreTypes, EpochInv
  <2>1. CASE InstallCall(c)
    <3> DEFINE x == [call[c] EXCEPT !.pc = "install", !.previous = snap.revision]
    <3> x \in Calls /\ call[c].pc \notin Holding /\ x.pc \notin Holding /\ x.epoch = 0
        /\ call' = [call EXCEPT ![c] = x]
      BY <1>0, <2>1, Zenon DEF InstallCall, Calls, Snapshots, Holding, Revoking, StoreInv, StoreTypes
    <3> QED BY <2>1, QuietStep, Zenon DEF InstallCall
  <2>2. ASSUME NEW b \in Bundles, InstallSame(c, b) PROVE StoreInv'
    <3> DEFINE x == [call[c] EXCEPT !.pc = "report", !.revision = snap.revision]
    <3> x \in Calls /\ call[c].pc \notin Holding /\ x.pc \notin Holding /\ x.epoch = 0
        /\ call' = [call EXCEPT ![c] = x]
      BY <1>0, <2>2, Zenon DEF InstallSame, Calls, Snapshots, Holding, Revoking, StoreInv, StoreTypes
    <3> QED BY <2>2, QuietStep, Zenon DEF InstallSame
  <2>3. ASSUME InstallReport(c) \/ \E b \in Bundles : InstallRefuse(c, b) PROVE StoreInv'
    <3> Idle \in Calls /\ call[c].pc \notin Holding /\ Idle.pc \notin Holding /\ Idle.epoch = 0
        /\ call' = [call EXCEPT ![c] = Idle]
      BY <2>3, IdleTypes, Zenon DEF InstallReport, InstallRefuse, Holding
    <3> QED BY <2>3, QuietStep, Zenon DEF InstallReport, InstallRefuse
  <2>4. ASSUME NEW b \in Bundles, InstallSwap(c, b) PROVE StoreInv'
    <3> DEFINE candidate == [installed EXCEPT ![b.name] = b]
               x == [call[c] EXCEPT !.pc = "report", !.revision = snap.revision + 1]
    <3>0. x \in Calls
      BY <1>0, Zenon DEF Calls
    <3>1. x \in Calls /\ call' = [call EXCEPT ![c] = x]
      BY <2>4, <3>0, Zenon DEF InstallSwap, StoreInv, StoreTypes
    <3>2. candidate \in [Names -> Bundles \cup {NoBundle}] /\ installed' = candidate
      BY <2>4, Zenon DEF InstallSwap, StoreInv, StoreTypes
    <3>3. Artifacts(snap.sources, candidate) \in Filters
      BY <3>2 DEF Artifacts, Artifact, Filters
    <3>9. snap' \in Snapshots
      BY <1>0, <2>4, <3>3, Zenon DEF InstallSwap, Snapshots
    <3>4. /\ snap' \in Snapshots /\ snap'.epoch = snap.epoch /\ snap'.sources = snap.sources
          /\ snap'.artifacts = Artifacts(snap.sources, candidate)
      BY <1>0, <2>4, <3>9 DEF InstallSwap, Snapshots
    <3>5. StoreTypes'
      BY <2>4, <3>1, <3>2, <3>4, ZenonT(40) DEF InstallSwap, StoreInv, StoreTypes
    <3>6. EpochInv'
      BY <1>0, <2>4, <3>1, <3>4 DEF InstallSwap, StoreInv, StoreTypes, EpochInv, Holding, Revoking, Calls
    <3>7. EveryEpochAccounted'
      BY <1>0, <2>4, <3>1, <3>4 DEF InstallSwap, StoreInv, StoreTypes, StoreConsistent, EveryEpochAccounted
    <3>8. ResolverServesInstalled'
      BY <2>4, <3>2, <3>4 DEF InstallSwap, ResolverServesInstalled, Refused, Artifacts
    <3> QED
      BY <3>5, <3>6, <3>7, <3>8 DEF StoreInv, StoreConsistent
  <2> QED
    BY <2>1, <2>2, <2>3, <2>4 DEF Install
<1>3. CASE \E c \in Controllers : NetworkChange(c)
  <2> PICK c \in Controllers : NetworkChange(c)
    BY <1>3
  <2> /\ call[c] \in Calls /\ (mutex = c <=> call[c].pc \in Holding) /\ c # NoOne
      /\ call[c].pc \notin Revoking => call[c].epoch = 0
    BY IdleTypes DEF StoreInv, StoreTypes, EpochInv
  <2>1. CASE NetFlush(c)
    <3>1. StoreTypes'
      BY <1>0, <2>1 DEF NetFlush, StoreInv, StoreTypes, Calls
    <3>2. EpochInv'
      BY <2>1, IdleTypes DEF NetFlush, StoreInv, StoreTypes, EpochInv, Holding, Revoking, Calls
    <3>3. EveryEpochAccounted'
      BY <1>0, <2>1 DEF NetFlush, StoreInv, StoreConsistent, EveryEpochAccounted
    <3>4. ResolverServesInstalled'
      BY <2>1 DEF NetFlush, StoreInv, StoreConsistent, ResolverServesInstalled, Artifacts
    <3> QED
      BY <3>1, <3>2, <3>3, <3>4 DEF StoreInv, StoreConsistent
  <2>2. CASE NetSwap(c)
    <3> DEFINE x == [call[c] EXCEPT !.pc = "netcancel", !.epoch = snap.epoch]
    <3>1. x \in Calls /\ x.pc \in Revoking /\ x.epoch = snap.epoch /\ call' = [call EXCEPT ![c] = x]
      BY <1>0, <2>2, Zenon DEF NetSwap, Calls, Snapshots, Revoking, StoreInv, StoreTypes
    <3>2. snap' \in Snapshots /\ snap'.epoch = nextEpoch
          /\ snap'.artifacts = snap.artifacts /\ snap'.sources = snap.sources
      BY <1>0, <2>2 DEF NetSwap, Snapshots
    <3>3. ResolverServesInstalled'
      BY <2>2, <3>2 DEF NetSwap, ResolverServesInstalled, Artifacts, StoreInv, StoreConsistent
    <3>4. mutex = c
      BY <1>0, <2>2 DEF NetSwap, Holding
    <3> QED
      BY <2>2, <3>1, <3>2, <3>3, <3>4, SwapStep, Zenon DEF NetSwap
  <2>3. CASE NetCancel(c)
    <3>1. StoreTypes'
      BY <2>3, IdleTypes DEF NetCancel, StoreInv, StoreTypes
    <3>2. EpochInv'
      BY <2>3, IdleTypes, Zenon DEF NetCancel, StoreInv, StoreTypes, EpochInv, Holding, Revoking
    <3>3. EveryEpochAccounted'
      BY <1>0, <2>3 DEF NetCancel, StoreInv, StoreTypes, EpochInv, StoreConsistent, EveryEpochAccounted,
                        Holding, Revoking
    <3>4. ResolverServesInstalled'
      BY <2>3 DEF NetCancel, StoreInv, StoreConsistent, ResolverServesInstalled, Artifacts
    <3> QED
      BY <3>1, <3>2, <3>3, <3>4 DEF StoreInv, StoreConsistent
  <2> QED
    BY <2>1, <2>2, <2>3 DEF NetworkChange
<1>4. CASE (\E b \in Bundles : Lapse(b)) \/ UNCHANGED storeVars
  <2> UNCHANGED <<snap, installed, cancelled, nextEpoch, mutex, call>>
    BY <1>4 DEF Lapse, storeVars
  <2> QED
    BY DEF StoreInv, StoreTypes, EpochInv, StoreConsistent, EveryEpochAccounted, ResolverServesInstalled, Artifacts
<1> QED
  BY <1>1, <1>2, <1>3, <1>4 DEF StoreNext

(* Whatever the controllers do, every epoch is within reach and the        *)
(* resolver serves what is installed (FlowPolicyStore).                    *)
THEOREM StoreConsistentHolds == StoreSpec => []StoreConsistent
<1>1. StoreSpec => []StoreInv
  BY StoreInvInit, StoreInvNext, PTL DEF StoreSpec
<1>2. StoreInv => StoreConsistent
  BY DEF StoreInv
<1> QED
  BY <1>1, <1>2, PTL

(* No reload, install or network change replaces an installed rule set by  *)
(* an older one (install_dns_rule_set).                                    *)
THEOREM NoRollBack == StoreSpec => RuleSetsNeverRollBack
<1> DEFINE Up == \A n \in Names : installed[n] # NoBundle /\ installed'[n] # installed[n] =>
                   installed'[n].sequence > installed[n].sequence
<1>1. StoreInv /\ [StoreNext]_storeVars => [Up]_storeVars
  <2> SUFFICES ASSUME StoreInv, StoreNext, NEW n \in Names, installed[n] # NoBundle,
                      installed'[n] # installed[n]
               PROVE  installed'[n].sequence > installed[n].sequence
    OBVIOUS
  <2>1. PICK c \in Controllers, b \in Bundles : InstallSwap(c, b)
    <3>1. ASSUME NEW c \in Controllers, Reload(c) PROVE installed' = installed
      <4>1. ASSUME NEW r \in Requests, NEW e \in 0..MaxRevision,
                   \/ ReloadConflict(c, r, e) \/ ReloadRefuse(c, r, e)
                   \/ ReloadEmergency(c, r, e) \/ ReloadSwap(c, r, e)
            PROVE  installed' = installed
        BY <4>1, Zenon DEF ReloadConflict, ReloadRefuse, ReloadEmergency, ReloadSwap
      <4>2. CASE ReloadCall(c) \/ ReloadInvalid(c) \/ ReloadCancel(c) \/ ReloadFlush(c)
        BY <4>2 DEF ReloadCall, ReloadInvalid, ReloadCancel, ReloadFlush
      <4>3. CASE ReloadApply(c) \/ ReloadPublish(c) \/ ReloadFail(c)
        BY <4>3 DEF ReloadApply, ReloadPublish, ReloadFail
      <4> QED
        BY <3>1, <4>1, <4>2, <4>3, SMTT(40) DEF Reload, ReloadElse
    <3>2. ASSUME NEW c \in Controllers, NetworkChange(c) PROVE installed' = installed
      BY <3>2 DEF NetworkChange, NetFlush, NetSwap, NetCancel
    <3>3. ASSUME NEW c \in Controllers, Install(c), \A b \in Bundles : ~InstallSwap(c, b) PROVE installed' = installed
      BY <3>3, Zenon DEF Install, InstallCall, InstallReport, InstallRefuse, InstallSame
    <3>4. ASSUME NEW b \in Bundles, Lapse(b) PROVE installed' = installed
      BY <3>4 DEF Lapse
    <3> QED
      BY <3>1, <3>2, <3>3, <3>4 DEF StoreNext
  <2>2. b.name = n /\ installed'[n] = b /\ installed[n] \in Bundles /\ b.sequence \in Nat /\ installed[n].sequence \in Nat
    BY <2>1, PolicyAssumption DEF PolicyAssumption, InstallSwap, StoreInv, StoreTypes
  <2>3. snap.sources[n] # Unpinned => snap.sources[n].minimum \in Nat
    BY RequestTypes DEF StoreInv, StoreTypes, Snapshots, Pinnings
  <2> QED
    BY <2>1, <2>2, <2>3 DEF InstallSwap, Verified, Reused, MinimumSequence, Larger
<1>2. StoreSpec => []StoreInv
  BY StoreInvInit, StoreInvNext, PTL DEF StoreSpec
<1> QED
  BY <1>1, <1>2, PTL DEF StoreSpec, RuleSetsNeverRollBack

-----------------------------------------------------------------------------
(* Epochs only grow, and an epoch that stays published keeps its kill      *)
(* switch: a reload that moves the switch starts a new epoch.              *)
EpochKeepsKill ==
  /\ nextEpoch <= nextEpoch'
  /\ snap'.epoch \in {snap.epoch, nextEpoch}
  /\ snap'.epoch = snap.epoch => snap'.kill = snap.kill

(* Every step of the store is one.                                         *)
LEMMA StoreStepEpoch == StoreInv /\ StoreNext => EpochKeepsKill
<1> SUFFICES ASSUME StoreInv, StoreNext PROVE EpochKeepsKill
  OBVIOUS
<1>0. /\ snap \in Snapshots /\ nextEpoch \in Nat /\ snap.epoch \in 1..(nextEpoch - 1) /\ snap.kill \in BOOLEAN
  BY DEF StoreInv, StoreTypes, EpochInv, Snapshots
<1>1. ASSUME snap' = snap, nextEpoch' = nextEpoch PROVE EpochKeepsKill
  BY <1>0, <1>1 DEF EpochKeepsKill
<1>2. ASSUME NEW c \in Controllers, Reload(c) PROVE EpochKeepsKill
  <2>1. CASE ReloadCall(c) \/ ReloadInvalid(c) \/ ReloadCancel(c) \/ ReloadFlush(c) \/ ReloadApply(c)
             \/ ReloadPublish(c) \/ ReloadFail(c)
    BY <1>1, <2>1 DEF ReloadCall, ReloadInvalid, ReloadCancel, ReloadFlush, ReloadApply, ReloadPublish, ReloadFail
  <2>2. ASSUME NEW r \in Requests, NEW e \in 0..MaxRevision, ReloadConflict(c, r, e) \/ ReloadRefuse(c, r, e)
        PROVE  EpochKeepsKill
    BY <1>1, <2>2 DEF ReloadConflict, ReloadRefuse
  <2>3. ASSUME NEW r \in Requests, NEW e \in 0..MaxRevision, ReloadEmergency(c, r, e) PROVE EpochKeepsKill
    <3>1. snap'.epoch = nextEpoch
      BY <1>0, <2>3 DEF ReloadEmergency, Snapshots
    <3>2. nextEpoch' = nextEpoch + 1
      BY <2>3, Zenon DEF ReloadEmergency
    <3> QED
      BY <1>0, <3>1, <3>2 DEF EpochKeepsKill
  <2>4. ASSUME NEW r \in Requests, NEW e \in 0..MaxRevision, ReloadSwap(c, r, e) PROVE EpochKeepsKill
    <3>1. snap'.epoch = IF r.kill \/ snap.kill THEN nextEpoch ELSE snap.epoch
      BY <2>4, ZenonT(40) DEF ReloadSwap
    <3>2. snap'.kill = r.kill /\ nextEpoch' = IF r.kill \/ snap.kill THEN nextEpoch + 1 ELSE nextEpoch
      BY <2>4 DEF ReloadSwap
    <3> QED
      BY <1>0, <3>1, <3>2, RequestTypes, SMTT(40) DEF EpochKeepsKill
  <2> QED
    BY <1>2, <2>1, <2>2, <2>3, <2>4 DEF Reload, ReloadElse
<1>3. ASSUME NEW c \in Controllers, Install(c) PROVE EpochKeepsKill
  <2>1. ASSUME NEW b \in Bundles, InstallSwap(c, b) PROVE EpochKeepsKill
    BY <1>0, <2>1 DEF InstallSwap, EpochKeepsKill, Snapshots
  <2> QED
    BY <1>1, <1>3, <2>1, Zenon DEF Install, InstallCall, InstallReport, InstallRefuse, InstallSame
<1>4. ASSUME NEW c \in Controllers, NetworkChange(c) PROVE EpochKeepsKill
  <2>1. CASE NetSwap(c)
    BY <1>0, <2>1 DEF NetSwap, EpochKeepsKill, Snapshots
  <2> QED
    BY <1>1, <1>4, <2>1 DEF NetworkChange, NetFlush, NetCancel
<1> QED
  BY <1>1, <1>2, <1>3, <1>4 DEF StoreNext, Lapse

-----------------------------------------------------------------------------
FlowRows ==
  [pc : {"idle", "attribute", "select", "dial", "relay"}, kind : {"engine", "lan"},
   app : Apps \cup {NoApp}, epoch : Nat, kill : BOOLEAN,
   blocks : BOOLEAN, known : BOOLEAN, lookup : BOOLEAN, revoked : BOOLEAN]

(* An epoch was handed out, and if it is still the published one, the kill *)
(* switch is where it was when it was loaded.                              *)
Loaded(epoch, kill) ==
  epoch \in 1..(nextEpoch - 1) /\ (epoch = snap.epoch => kill = snap.kill)

FlowLoaded(f) ==
  flow[f].pc # "idle" => Loaded(flow[f].epoch, flow[f].kill) /\ (Listed(f) => ~flow[f].kill)

FlowInv == flow \in [Flows -> FlowRows] /\ \A f \in Flows : FlowLoaded(f)

Decisions == [route : {"none", "Tunnel", "Stack", "Block"}, token : Nat, kill : BOOLEAN,
              blocks : BOOLEAN, row : Nat]
Packets == [pc : {"idle", "token", "load", "attribute", "send"}, key : Keys \cup {NoPacket.key},
            token : Nat, kill : BOOLEAN, blocks : BOOLEAN, route : {"none", "Tunnel", "Stack", "Block"}]

(* The token is loaded first: a decision's token is never newer than the   *)
(* snapshot that it was decided under.                                     *)
SplitInv ==
  /\ cached \in [Keys -> Decisions] /\ pkt \in Packets /\ rows \in Nat
  /\ \A k \in Keys : cached[k] # Empty => Loaded(cached[k].token, cached[k].kill)
  /\ pkt.pc = "load" => pkt.token \in 1..(nextEpoch - 1)
  /\ pkt.pc = "attribute" => Loaded(pkt.token, pkt.kill)

AdmissionInv == StoreInv /\ FlowInv /\ SplitInv

(* A step of the store leaves the two consumers' invariants alone.         *)
LEMMA StoreStepKeeps ==
  ASSUME AdmissionInv, StoreNext, UNCHANGED <<flow, cached, pkt, rows>>
  PROVE  AdmissionInv'
<1>1. StoreInv' /\ EpochKeepsKill
  BY StoreInvNext, StoreStepEpoch DEF AdmissionInv
<1>2. nextEpoch' \in Nat /\ StoreInv
  BY <1>1 DEF AdmissionInv, StoreInv, StoreTypes
<1>4. ASSUME NEW f \in Flows PROVE FlowLoaded(f)'
  <2>1. flow'[f] = flow[f] /\ Listed(f)' = Listed(f) /\ FlowLoaded(f)
    BY Zenon DEF AdmissionInv, FlowInv, Listed
  <2>2. Loaded(flow[f].epoch, flow[f].kill) => Loaded(flow[f].epoch, flow[f].kill)'
    BY <2>1, <1>1, <1>2 DEF Loaded, StoreInv, StoreTypes, EpochInv, EpochKeepsKill
  <2> QED
    BY <2>1, <2>2 DEF FlowLoaded
<1>5. FlowInv'
  BY <1>4, ZenonT(40) DEF AdmissionInv, FlowInv
<1>6. ASSUME NEW k \in Keys, cached'[k] # Empty PROVE Loaded(cached[k].token, cached[k].kill)'
  BY <1>1, <1>2, <1>6, SMTT(40) DEF AdmissionInv, SplitInv, Loaded, StoreInv, StoreTypes, EpochInv, EpochKeepsKill
<1>7. pkt'.pc = "load" => pkt'.token \in 1..(nextEpoch' - 1)
  BY <1>1, <1>2, SMTT(40) DEF AdmissionInv, SplitInv, StoreInv, StoreTypes, EpochKeepsKill
<1>8. pkt'.pc = "attribute" => Loaded(pkt.token, pkt.kill)'
  BY <1>1, <1>2, SMTT(40) DEF AdmissionInv, SplitInv, Loaded, StoreInv, StoreTypes, EpochInv, EpochKeepsKill
<1>9. SplitInv'
  BY <1>6, <1>7, <1>8 DEF AdmissionInv, SplitInv
<1> QED
  BY <1>1, <1>5, <1>9 DEF AdmissionInv

-----------------------------------------------------------------------------
(* Both consumers start without a flow, a decision or a packet.            *)
LEMMA AdmissionInvInit == FlowInit /\ SplitInit => AdmissionInv
<1> SUFFICES ASSUME FlowInit, SplitInit PROVE AdmissionInv
  OBVIOUS
<1>1. StoreInv
  BY StoreInvInit DEF FlowInit
<1>2. NoFlow \in FlowRows /\ NoFlow.pc = "idle"
  BY DEF NoFlow, FlowRows
<1>3. FlowInv
  BY <1>2 DEF FlowInit, FlowInv, FlowLoaded
<1>4. Empty \in Decisions
  BY DEF Empty, Decisions
<1>5. NoPacket \in Packets /\ NoPacket.pc = "idle"
  <2>1. NoPacket.key \in Keys \cup {NoPacket.key}
    BY SMTT(40)
  <2> QED
    BY <2>1, SMTT(40) DEF NoPacket, Packets
<1>6. SplitInv
  BY <1>4, <1>5 DEF SplitInit, SplitInv
<1> QED
  BY <1>1, <1>3, <1>6 DEF AdmissionInv

(* A step of one flow: the row it becomes was loaded under a snapshot, and *)
(* is listed only if that snapshot did not have the kill switch on.        *)
LEMMA FlowBecomes ==
  ASSUME AdmissionInv, NEW f \in Flows, NEW x \in FlowRows, flow' = [flow EXCEPT ![f] = x],
         x.pc # "idle" => Loaded(x.epoch, x.kill) /\ (x.pc \in {"dial", "relay"} => ~x.kill),
         UNCHANGED <<storeVars, splitVars>>
  PROVE  AdmissionInv'
<1>1. StoreInv' /\ snap' = snap /\ nextEpoch' = nextEpoch
  BY StoreInvNext, SMTT(40) DEF AdmissionInv, storeVars
<1>2. FlowInv'
  BY <1>1, SMTT(40) DEF AdmissionInv, FlowInv, FlowLoaded, Loaded, Listed
<1>3. SplitInv'
  BY <1>1 DEF AdmissionInv, SplitInv, splitVars, Loaded
<1> QED
  BY <1>1, <1>2, <1>3, SMTT(40) DEF AdmissionInv

(* Every step of a flow and of a revocation is such a step, or sets only   *)
(* the flows' own tokens.                                                  *)
LEMMA FlowStepKeeps ==
  ASSUME AdmissionInv, UNCHANGED splitVars,
         (\E f \in Flows : FlowStep(f)) \/ (\E r \in Revokers : Revoke(r))
  PROVE  AdmissionInv'
<1>0. /\ snap.epoch \in 1..(nextEpoch - 1) /\ snap.kill \in BOOLEAN
      /\ snap.epoch \in Nat
  BY ZenonT(40) DEF AdmissionInv, StoreInv, StoreTypes, EpochInv, Snapshots
<1>1. ASSUME NEW f \in Flows, FlowStep(f) PROVE AdmissionInv'
  <2>0. flow[f] \in FlowRows /\ FlowLoaded(f)
    BY SMTT(40) DEF AdmissionInv, FlowInv
  <2>1. ASSUME Gone(f) PROVE AdmissionInv'
    <3>1. NoFlow \in FlowRows /\ NoFlow.pc = "idle"
      BY DEF NoFlow, FlowRows
    <3> QED
      BY <2>1, <3>1, FlowBecomes, Zenon DEF Gone
  <2>2. ASSUME NEW a \in Apps, Admit(f, a) PROVE AdmissionInv'
    <3> DEFINE first == IF RequiresIdentity THEN "attribute" ELSE "select"
               denied == a \in snap.blocked
               x == [NoFlow EXCEPT !.pc = first, !.app = a, !.epoch = snap.epoch, !.kill = snap.kill,
                                   !.blocks = denied]
    <3>0. first \in {"attribute", "select"} /\ denied \in BOOLEAN
      OBVIOUS
    <3> HIDE DEF first, denied
    <3>1. x \in FlowRows /\ x.epoch = snap.epoch /\ x.kill = snap.kill /\ x.pc \notin {"dial", "relay"}
      BY <1>0, <3>0, Zenon DEF NoFlow, FlowRows
    <3> HIDE DEF x
    <3>2. flow' = [flow EXCEPT ![f] = x] /\ UNCHANGED storeVars
      BY <2>2 DEF Admit, Becomes, x, first, denied
    <3> QED
      BY <1>0, <3>1, <3>2, FlowBecomes, Zenon DEF Loaded
  <2>3. CASE Attribute(f)
    <3> DEFINE x == [flow[f] EXCEPT !.pc = "select", !.known = TRUE]
    <3>1. x \in FlowRows /\ x.pc = "select" /\ x.epoch = flow[f].epoch /\ x.kill = flow[f].kill
      BY <2>0, Zenon DEF FlowRows
    <3>2. flow' = [flow EXCEPT ![f] = x] /\ UNCHANGED storeVars /\ Loaded(x.epoch, x.kill)
      BY <2>0, <2>3, <3>1 DEF Attribute, Becomes, FlowLoaded
    <3> HIDE DEF x
    <3> QED
      BY <3>1, <3>2, FlowBecomes, Zenon
  <2>4. CASE Open(f)
    <3> DEFINE x == [flow[f] EXCEPT !.pc = "dial", !.lookup = ~flow[f].known]
    <3>1. x \in FlowRows /\ x.pc = "dial" /\ x.epoch = flow[f].epoch /\ x.kill = flow[f].kill
      BY <2>0, Zenon DEF FlowRows
    <3>2. flow' = [flow EXCEPT ![f] = x] /\ UNCHANGED storeVars /\ Loaded(x.epoch, x.kill) /\ ~x.kill
      BY <2>0, <2>4, <3>1 DEF Open, Becomes, FlowLoaded
    <3> HIDE DEF x
    <3> QED
      BY <3>1, <3>2, FlowBecomes, Zenon
  <2>5. CASE Telemetry(f)
    <3>0. PICK known \in BOOLEAN : Becomes(f, [flow[f] EXCEPT !.known = known, !.lookup = FALSE])
      BY <2>5, Zenon DEF Telemetry
    <3> DEFINE x == [flow[f] EXCEPT !.known = known, !.lookup = FALSE]
    <3>1. x \in FlowRows /\ x.pc = flow[f].pc /\ x.epoch = flow[f].epoch /\ x.kill = flow[f].kill
      BY <2>0, Zenon DEF FlowRows
    <3>2. flow' = [flow EXCEPT ![f] = x] /\ UNCHANGED storeVars /\ Loaded(x.epoch, x.kill) /\ ~x.kill
      BY <2>0, <2>5, <3>0, <3>1, Zenon DEF Telemetry, Becomes, FlowLoaded, Listed
    <3> HIDE DEF x
    <3> QED
      BY <3>1, <3>2, FlowBecomes, Zenon
  <2>6. CASE Dialled(f) \/ LanDialled(f)
    <3> DEFINE x == [flow[f] EXCEPT !.pc = "relay"]
    <3>1. x \in FlowRows /\ x.pc = "relay" /\ x.epoch = flow[f].epoch /\ x.kill = flow[f].kill
      BY <2>0 DEF FlowRows
    <3>2. flow' = [flow EXCEPT ![f] = x] /\ UNCHANGED storeVars /\ Loaded(x.epoch, x.kill) /\ ~x.kill
      BY <2>0, <2>6, <3>1 DEF Dialled, LanDialled, Becomes, FlowLoaded, Listed
    <3> HIDE DEF x
    <3> QED
      BY <3>1, <3>2, FlowBecomes, Zenon
  <2>7. CASE LanConnect(f)
    <3> DEFINE x == [NoFlow EXCEPT !.pc = "dial", !.kind = "lan", !.epoch = snap.epoch]
    <3>1. x \in FlowRows /\ x.epoch = snap.epoch /\ x.kill = FALSE
      BY <1>0, Zenon DEF NoFlow, FlowRows
    <3>2. flow' = [flow EXCEPT ![f] = x] /\ UNCHANGED storeVars /\ snap.kill = FALSE
      BY <1>0, <2>7 DEF LanConnect, Becomes
    <3> HIDE DEF x
    <3> QED
      BY <1>0, <3>1, <3>2, FlowBecomes, Zenon DEF Loaded
  <2> QED
    BY <1>1, <2>1, <2>2, <2>3, <2>4, <2>5, <2>6, <2>7
       DEF FlowStep, Unattributed, Refuse, DialFailed, Stop, End, LanAborted
<1>2. ASSUME NEW r \in Revokers, Revoke(r) PROVE AdmissionInv'
  <2>1. UNCHANGED storeVars /\ snap' = snap /\ nextEpoch' = nextEpoch
    BY <1>2, ZenonT(40) DEF Revoke, RevokeCollect, RevokeCancel, storeVars
  <2>2. StoreInv' /\ SplitInv'
    BY <2>1, StoreInvNext DEF AdmissionInv, SplitInv, splitVars, Loaded
  <2>3. ASSUME NEW f \in Flows
        PROVE  flow'[f] \in FlowRows /\ flow'[f].pc = flow[f].pc /\ flow'[f].epoch = flow[f].epoch
               /\ flow'[f].kill = flow[f].kill
    <3>1. flow[f] \in FlowRows
      BY DEF AdmissionInv, FlowInv
    <3>2. flow'[f] = flow[f] \/ flow'[f] = [flow[f] EXCEPT !.revoked = TRUE]
      BY <1>2, Zenon DEF Revoke, RevokeCollect, RevokeCancel
    <3> QED
      BY <3>1, <3>2, Zenon DEF FlowRows
  <2>4. flow' \in [Flows -> FlowRows]
    <3>1. flow' = [f \in Flows |-> flow'[f]]
      BY <1>2, Zenon DEF Revoke, RevokeCollect, RevokeCancel, AdmissionInv, FlowInv
    <3> QED
      BY <2>3, <3>1, SMTT(40)
  <2>5. FlowInv'
    BY <2>1, <2>3, <2>4, SMTT(40) DEF AdmissionInv, FlowInv, FlowLoaded, Loaded, Listed
  <2> QED
    BY <2>2, <2>5, ZenonT(40) DEF AdmissionInv
<1> QED
  BY <1>1, <1>2, ZenonT(40)

(* A step of the packet path: a decision is cached under the token that    *)
(* was loaded before the snapshot it was taken from.                       *)
LEMMA SplitStepKeeps ==
  ASSUME AdmissionInv, UNCHANGED flowVars, SplitNext, ~SplitPolicyStep
  PROVE  AdmissionInv'
<1>0. /\ snap.epoch \in 1..(nextEpoch - 1) /\ snap.kill \in BOOLEAN /\ snap.epoch \in Nat
      /\ cached \in [Keys -> Decisions] /\ pkt \in Packets /\ rows \in Nat /\ SplitInv
  BY SMTT(40) DEF AdmissionInv, StoreInv, StoreTypes, EpochInv, Snapshots, SplitInv
<1>1. UNCHANGED storeVars
  BY ZenonT(40) DEF SplitNext, LookupHit, LookupMiss, Idles, RevokeRow, LoadToken, LoadPolicy, Decide, Decided, Insert, Send
<1>2. StoreInv' /\ FlowInv' /\ snap' = snap /\ nextEpoch' = nextEpoch
  BY <1>1, StoreInvNext, SMTT(40) DEF AdmissionInv, FlowInv, FlowLoaded, Loaded, Listed, storeVars, flowVars
<1>3. Empty \in Decisions /\ NoPacket \in Packets /\ NoPacket.pc = "idle"
  <2>1. NoPacket.key \in Keys \cup {NoPacket.key}
    BY SMTT(40)
  <2> QED
    BY <2>1 DEF Empty, Decisions, NoPacket, Packets
<1>4. SplitInv'
  <2>1. ASSUME NEW k \in Keys, LookupHit(k) PROVE SplitInv'
    <3> DEFINE x == [NoPacket EXCEPT !.pc = "send", !.key = k, !.route = cached[k].route]
    <3>0. cached[k].route \in {"none", "Tunnel", "Stack", "Block"}
      BY <1>0 DEF Decisions
    <3>1. x \in Packets /\ x.pc = "send"
      BY <1>3, <3>0, Zenon DEF Packets
    <3> HIDE DEF x
    <3>2. pkt' = x /\ UNCHANGED <<cached, rows>>
      BY <2>1 DEF LookupHit, x
    <3> QED
      BY <1>0, <1>2, <3>1, <3>2 DEF SplitInv, Loaded
  <2>2. ASSUME NEW k \in Keys, LookupMiss(k) PROVE SplitInv'
    <3> DEFINE x == [NoPacket EXCEPT !.pc = "token", !.key = k]
    <3>1. x \in Packets /\ x.pc = "token"
      BY <1>3, Zenon DEF Packets
    <3> HIDE DEF x
    <3>2. pkt' = x /\ cached' = [cached EXCEPT ![k] = Empty] /\ rows' = rows
      BY <2>2, SMTT(40) DEF LookupMiss, x
    <3>3. cached' \in [Keys -> Decisions]
      BY <1>0, <1>3, <3>2
    <3> QED
      BY <1>0, <1>2, <3>1, <3>2, <3>3 DEF SplitInv, Loaded
  <2>3. CASE LoadToken
    <3> DEFINE x == [pkt EXCEPT !.pc = "load", !.token = snap.epoch]
    <3>1. x \in Packets /\ x.pc = "load" /\ x.token = snap.epoch
      BY <1>0, Zenon DEF Packets
    <3> HIDE DEF x
    <3>2. pkt' = x /\ UNCHANGED <<cached, rows>>
      BY <2>3, SMTT(40) DEF LoadToken, x
    <3> QED
      BY <1>0, <1>2, <3>1, <3>2 DEF SplitInv, Loaded
  <2>4. CASE LoadPolicy
    <3> DEFINE denied == pkt.key \in snap.blocked
               x == [pkt EXCEPT !.pc = "attribute", !.kill = snap.kill, !.blocks = denied]
    <3>0. denied \in BOOLEAN
      OBVIOUS
    <3> HIDE DEF denied
    <3>1. x \in Packets /\ x.pc = "attribute" /\ x.token = pkt.token /\ x.kill = snap.kill
      BY <1>0, <3>0, Zenon DEF Packets
    <3> HIDE DEF x
    <3>2. pkt' = x /\ UNCHANGED <<cached, rows>> /\ pkt.pc = "load"
      BY <2>4, Zenon DEF LoadPolicy, x, denied
    <3> QED
      BY <1>0, <1>2, <3>1, <3>2 DEF SplitInv, Loaded
  <2>5. CASE Decide
    <3>1. PICK route \in PacketVerdicts, gone \in Evictions : Insert(pkt.token, route, gone)
      BY <2>5, SMTT(40) DEF Decide, Decided
    <3> DEFINE row == IF route = "Tunnel" THEN rows + 1 ELSE 0
               d == [route |-> route, token |-> pkt.token, kill |-> pkt.kill,
                     blocks |-> pkt.blocks, row |-> row]
               x == [pkt EXCEPT !.pc = "send", !.route = route]
    <3>2. route \in {"none", "Tunnel", "Stack", "Block"} /\ row \in Nat
      BY <1>0 DEF PacketVerdicts
    <3> HIDE DEF row
    <3>3. d \in Decisions /\ d.token = pkt.token /\ d.kill = pkt.kill
      BY <1>0, <3>2 DEF Decisions, Packets
    <3>4. x \in Packets /\ x.pc = "send"
      BY <1>0, <3>2, Zenon DEF Packets
    <3> HIDE DEF d, x
    <3>5. /\ pkt' = x /\ pkt.pc = "attribute" /\ rows' \in {rows, row}
          /\ cached' = [k \in Keys |-> IF k = pkt.key THEN d ELSE IF k \in gone THEN Empty ELSE cached[k]]
      BY <3>1, SMTT(40) DEF Insert, d, x, row
    <3>6. cached' \in [Keys -> Decisions]
      BY <1>0, <1>3, <3>3, <3>5, Zenon
    <3>7. ASSUME NEW k \in Keys, cached'[k] # Empty PROVE Loaded(cached'[k].token, cached'[k].kill)
      BY <1>0, <3>3, <3>5, <3>7 DEF SplitInv
    <3> QED
      BY <1>2, <3>2, <3>4, <3>5, <3>6, <3>7, <1>0 DEF SplitInv, Loaded
  <2>6. CASE Send
    BY <1>0, <1>2, <1>3, <2>6, Zenon DEF Send, SplitInv, Loaded
  <2>7. ASSUME NEW k \in Keys, Idles(k) \/ RevokeRow(k) PROVE SplitInv'
    BY <1>0, <1>2, <2>7 DEF Idles, RevokeRow, SplitInv, Loaded
  <2> QED
    BY <2>1, <2>2, <2>3, <2>4, <2>5, <2>6, <2>7, Zenon DEF SplitNext
<1> QED
  BY <1>2, <1>4, Zenon DEF AdmissionInv

(* The steps of the store, of the flows and of the packet path together.   *)
LEMMA AdmissionInvNext == AdmissionInv /\ [AdmissionNext]_policyVars => AdmissionInv'
<1> SUFFICES ASSUME AdmissionInv, [AdmissionNext]_policyVars PROVE AdmissionInv'
  OBVIOUS
<1>1. CASE FlowNext /\ UNCHANGED splitVars
  BY <1>1, StoreStepKeeps, FlowStepKeeps, SMTT(40) DEF FlowNext, StoreStep, flowVars, splitVars
<1>2. CASE SplitNext /\ UNCHANGED flowVars
  BY <1>2, StoreStepKeeps, SplitStepKeeps, Zenon DEF SplitPolicyStep, flowVars, splitVars
<1>3. CASE UNCHANGED policyVars
  <2>1. StoreInv' /\ snap' = snap /\ nextEpoch' = nextEpoch
    BY <1>3, StoreInvNext DEF AdmissionInv, policyVars, storeVars
  <2> QED
    BY <1>3, <2>1 DEF AdmissionInv, FlowInv, FlowLoaded, SplitInv, Loaded, Listed, policyVars, flowVars, splitVars
<1> QED
  BY <1>1, <1>2, <1>3 DEF AdmissionNext

(* The invariant says what the kill switch promises: an epoch that is not  *)
(* the published one is cancelled once the mutex is free.                  *)
LEMMA AdmissionInvImplies == AdmissionInv => KillSwitchHolds
<1> SUFFICES ASSUME AdmissionInv, mutex = NoOne PROVE KillSwitchHolds
  BY DEF KillSwitchHolds, KillSwitchCutsEveryFlow, CachedDecisionsFollowKillSwitch
<1>1. ASSUME NEW e \in 1..(nextEpoch - 1), e # snap.epoch PROVE e \in cancelled
  <2>1. ASSUME NEW c \in Controllers PROVE call[c].epoch = 0
    BY IdleTypes, Zenon DEF AdmissionInv, StoreInv, StoreTypes, EpochInv, Holding, Revoking
  <2> QED
    BY <1>1, <2>1 DEF AdmissionInv, StoreInv, StoreTypes, StoreConsistent, EveryEpochAccounted
<1>2. KillSwitchCutsEveryFlow
  BY <1>1, ZenonT(40) DEF KillSwitchCutsEveryFlow, AdmissionInv, FlowInv, FlowLoaded, Loaded, Listed
<1>3. CachedDecisionsFollowKillSwitch
  BY <1>1 DEF CachedDecisionsFollowKillSwitch, AdmissionInv, SplitInv, Loaded, Live, IsVoid
<1> QED
  BY <1>2, <1>3 DEF KillSwitchHolds

(* The kill switch holds on every path, for any number of controllers,     *)
(* flows and 5-tuples (FlowPolicyStore, handle_tcp, handle_udp,            *)
(* RegistryUpstream::connect and classify).                                *)
THEOREM KillSwitch == AdmissionSpec => []KillSwitchHolds
<1>1. AdmissionSpec => []AdmissionInv
  BY AdmissionInvInit, AdmissionInvNext, PTL DEF AdmissionSpec
<1> QED
  BY <1>1, AdmissionInvImplies, PTL
=============================================================================
