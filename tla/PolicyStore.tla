----------------------------- MODULE PolicyStore -----------------------------
(***************************************************************************)
(* The policy source of one runtime generation, FlowPolicyStore in         *)
(* foxcore-tun/src/flow/policy.rs, and the control calls that write it     *)
(* (reload_policy and install_dns_rule_set in foxcore-runtime/src/         *)
(* control.rs).  Readers take an atomic load of `snap'; writers are        *)
(* serialised by the `reload' mutex but publish a snapshot and revoke the  *)
(* one it replaces in two steps, and the calls around the store read and   *)
(* write other state outside the mutex.                                    *)
(*                                                                         *)
(* Routes are abstracted to the kill switch and the set of applications    *)
(* they block; a DNS configuration to the rule sets it pins; a rule-set    *)
(* bundle to what the verification compares.                               *)
(***************************************************************************)
EXTENDS Integers

CONSTANTS
  Controllers,  \* application threads inside a control call
  Names,        \* rule-set names
  Requests,     \* policy documents the application may load
  Bundles,      \* signed rule-set bundles in existence
  Embedded,     \* names with an artifact shipped inside the application
  MaxRevision,  \* bound on the revisions one behaviour installs
  MaxEpoch,     \* bound on the cancellation epochs one behaviour creates
  NoOne,        \* no controller holds the mutex
  NoBundle,     \* no verified rule set is installed under a name
  Unpinned,     \* the DNS configuration does not name the rule set
  EmbeddedArtifact, \* the artifact shipped under a name of Embedded
  NoArtifact    \* the name contributes nothing to the blocklist

ASSUME PolicyAssumption ==
  /\ NoOne \notin Controllers /\ MaxRevision \in Nat /\ MaxEpoch \in Nat
  /\ \A b \in Bundles : b.name \in Names /\ b.sequence \in Nat
  /\ \A r \in Requests : /\ r.kill \in BOOLEAN
                          /\ \A n \in Names : r.sources[n] # Unpinned => r.sources[n].minimum \in Nat

VARIABLES
  snap,       \* the published FlowPolicySnapshot
  installed,  \* PolicyMutable.rule_sets: the verified bundle of each name
  lapsed,     \* categorized bundles the clock has made unfresh
  cancelled,  \* revocation tokens that have been cancelled
  nextEpoch,  \* the next fresh revocation token
  mutex,      \* the controller inside the reload mutex
  call,       \* where each controller is in its call
  published,  \* the newest ConfigApplied event
  gateConfig, \* the continuity setting the gate holds lanes by
  lastError   \* last_policy_error is set

storeVars == <<snap, installed, lapsed, cancelled, nextEpoch, mutex, call,
               published, gateConfig, lastError>>
effects == <<published, gateConfig, lastError>>

Revisions == 1..(MaxRevision + 1)
Epochs == 1..(MaxEpoch + 1)

(* A call's progress, the request, what it read and what it must revoke.   *)
Idle == [pc |-> "idle", kill |-> FALSE, continuity |-> FALSE, outcome |-> "none",
         previous |-> 0, revision |-> 0, epoch |-> 0, proxy |-> 0]

(* active_rule_set_artifacts: which artifact each pinned name resolves to, *)
(* and whether the configuration has to be refused.                        *)
Compatible(source, bundle) ==
  /\ bundle # NoBundle
  /\ bundle.sequence >= source.minimum
  /\ bundle.key = source.key

Artifact(name, source, bundle) ==
  IF source = Unpinned THEN NoArtifact
  ELSE IF Compatible(source, bundle) THEN bundle
  ELSE IF name \in Embedded THEN EmbeddedArtifact
  ELSE NoArtifact

Unfresh(bundle) == bundle # NoBundle /\ bundle.categorized /\ bundle \in lapsed

Refused(sources, bundles) ==
  \E n \in Names :
    /\ sources[n] # Unpinned
    /\ \/ Unfresh(bundles[n])
       \/ sources[n].required /\ Artifact(n, sources[n], bundles[n]) = NoArtifact

Artifacts(sources, bundles) ==
  [n \in Names |-> Artifact(n, sources[n], bundles[n])]

Conflict(expected) == expected # 0 /\ expected # snap.revision

-----------------------------------------------------------------------------
(* new_with_trusted_rule_sets_and_dns_continuation: revision one, verified *)
(* from the start configuration.                                           *)
VerifiedAtStart(sources, bundles) ==
  /\ \A n \in Embedded : sources[n] # Unpinned
  /\ \A n \in Names : bundles[n] # NoBundle =>
       /\ bundles[n].name = n
       /\ sources[n] # Unpinned
       /\ Compatible(sources[n], bundles[n])

InitialSnapshot(request, bundles) ==
  [revision |-> 1, kill |-> request.kill, continuity |-> request.continuity,
   blocked |-> request.blocked, sources |-> request.sources,
   artifacts |-> Artifacts(request.sources, bundles),
   cache |-> 1, proxy |-> 1, epoch |-> 1]

StoreInit ==
  /\ lapsed = {}
  /\ \E r \in Requests, b \in [Names -> Bundles \cup {NoBundle}] :
       /\ VerifiedAtStart(r.sources, b)
       /\ ~Refused(r.sources, b)
       /\ installed = b
       /\ snap = InitialSnapshot(r, b)
       /\ gateConfig = r.continuity
  /\ cancelled = {}
  /\ nextEpoch = 2
  /\ mutex = NoOne
  /\ call = [c \in Controllers |-> Idle]
  /\ published = [revision |-> 0, previous |-> 0]
  /\ lastError = FALSE

(* reload_policy_inner reads the revision it will report as replaced, then *)
(* enters FlowPolicyStore::reload; one action per way the mutex-protected  *)
(* part can end.  The request is fixed by the step that serves it.         *)
ReloadCall(c) ==
  /\ call[c].pc = "idle"
  /\ call' = [call EXCEPT ![c].pc = "reload", ![c].previous = snap.revision]
  /\ UNCHANGED <<snap, installed, lapsed, cancelled, nextEpoch, mutex, effects>>

(* A document that does not parse, does not validate or cannot be met by   *)
(* this generation's outbounds is refused before the store is reached.     *)
ReloadInvalid(c) ==
  /\ call[c].pc = "idle"
  /\ call' = [call EXCEPT ![c].pc = "fail", ![c].outcome = "invalid"]
  /\ UNCHANGED <<snap, installed, lapsed, cancelled, nextEpoch, mutex, effects>>

ReloadConflict(c, request, expected) ==
  /\ call[c].pc = "reload" /\ mutex = NoOne
  /\ Conflict(expected)
  /\ call' = [call EXCEPT ![c].pc = "fail", ![c].outcome = "conflict", ![c].kill = request.kill]
  /\ UNCHANGED <<snap, installed, lapsed, cancelled, nextEpoch, mutex, effects>>

ReloadRefuse(c, request, expected) ==
  /\ call[c].pc = "reload" /\ mutex = NoOne
  /\ ~Conflict(expected)
  /\ Refused(request.sources, installed)
  /\ ~(request.kill /\ ~snap.kill)
  /\ call' = [call EXCEPT ![c].pc = "fail", ![c].outcome = "refused", ![c].kill = request.kill]
  /\ UNCHANGED <<snap, installed, lapsed, cancelled, nextEpoch, mutex, effects>>

(* A refused document that asked for the kill switch still arms it, on the *)
(* admitted DNS policy.                                                    *)
ReloadEmergency(c, request, expected) ==
  /\ call[c].pc = "reload" /\ mutex = NoOne
  /\ ~Conflict(expected)
  /\ Refused(request.sources, installed)
  /\ request.kill /\ ~snap.kill
  /\ snap.revision <= MaxRevision /\ nextEpoch <= MaxEpoch
  /\ snap' = [snap EXCEPT !.revision = snap.revision + 1, !.kill = TRUE, !.epoch = nextEpoch]
  /\ nextEpoch' = nextEpoch + 1
  /\ mutex' = c
  /\ call' = [call EXCEPT ![c].pc = "cancel", ![c].outcome = "emergency", ![c].kill = TRUE,
                          ![c].epoch = snap.epoch, ![c].proxy = snap.proxy]
  /\ UNCHANGED <<installed, lapsed, cancelled, effects>>

(* The snapshot is stored first.  Only entering or leaving the kill switch *)
(* starts a new epoch; any other reload hands the old token on.            *)
ReloadSwap(c, request, expected) ==
  LET revoke == request.kill \/ snap.kill
  IN  /\ call[c].pc = "reload" /\ mutex = NoOne
      /\ ~Conflict(expected)
      /\ ~Refused(request.sources, installed)
      /\ snap.revision <= MaxRevision /\ (revoke => nextEpoch <= MaxEpoch)
      /\ snap' = [revision |-> snap.revision + 1, kill |-> request.kill,
                  continuity |-> request.continuity, blocked |-> request.blocked,
                  sources |-> request.sources, artifacts |-> Artifacts(request.sources, installed),
                  cache |-> snap.revision + 1, proxy |-> snap.revision + 1,
                  epoch |-> IF revoke THEN nextEpoch ELSE snap.epoch]
      /\ nextEpoch' = IF revoke THEN nextEpoch + 1 ELSE nextEpoch
      /\ mutex' = IF revoke THEN c ELSE NoOne
      /\ call' = [call EXCEPT ![c].pc = IF revoke THEN "cancel" ELSE "apply",
                              ![c].outcome = "applied", ![c].kill = request.kill,
                              ![c].continuity = request.continuity,
                              ![c].revision = snap.revision + 1,
                              ![c].epoch = IF revoke THEN snap.epoch ELSE 0,
                              ![c].proxy = IF revoke THEN snap.proxy ELSE 0]
      /\ UNCHANGED <<installed, lapsed, cancelled, effects>>

(* Mutant: the replaced token is cancelled only on arming the kill switch. *)
ReloadCancelArming(c) ==
  /\ call[c].pc = "cancel"
  /\ cancelled' = IF call[c].kill THEN cancelled \cup {call[c].epoch} ELSE cancelled
  /\ call' = [call EXCEPT ![c].pc = "flush", ![c].epoch = 0]
  /\ UNCHANGED <<snap, installed, lapsed, nextEpoch, mutex, effects>>

(* The replaced snapshot's token, after the swap.                          *)
ReloadCancel(c) ==
  /\ call[c].pc = "cancel"
  /\ cancelled' = cancelled \cup {call[c].epoch}
  /\ call' = [call EXCEPT ![c].pc = "flush", ![c].epoch = 0]
  /\ UNCHANGED <<snap, installed, lapsed, nextEpoch, mutex, effects>>

(* The replaced snapshot's resolver is told the network changed, and the   *)
(* mutex is released.                                                      *)
ReloadFlush(c) ==
  /\ call[c].pc = "flush"
  /\ mutex' = NoOne
  /\ call' = [call EXCEPT ![c].pc = IF call[c].outcome = "applied" THEN "apply" ELSE "fail",
                          ![c].proxy = 0]
  /\ UNCHANGED <<snap, installed, lapsed, cancelled, nextEpoch, effects>>

(* The rest of reload_policy, outside the mutex: the gate takes the new    *)
(* continuity setting, then the journal records the change with the        *)
(* revision read before the call and the last error is cleared.  The       *)
(* attribution cache's flush and the spawned outbound retry touch nothing  *)
(* the store reads.                                                        *)
ReloadApply(c) ==
  /\ call[c].pc = "apply"
  /\ gateConfig' = call[c].continuity
  /\ call' = [call EXCEPT ![c].pc = "publish", ![c].continuity = FALSE]
  /\ UNCHANGED <<snap, installed, lapsed, cancelled, nextEpoch, mutex, published, lastError>>

ReloadPublish(c) ==
  /\ call[c].pc = "publish"
  /\ published' = [revision |-> call[c].revision, previous |-> call[c].previous]
  /\ lastError' = FALSE
  /\ call' = [call EXCEPT ![c] = Idle]
  /\ UNCHANGED <<snap, installed, lapsed, cancelled, nextEpoch, mutex, gateConfig>>

ReloadFail(c) ==
  /\ call[c].pc = "fail"
  /\ lastError' = TRUE
  /\ call' = [call EXCEPT ![c] = Idle]
  /\ UNCHANGED <<snap, installed, lapsed, cancelled, nextEpoch, mutex, published, gateConfig>>

-----------------------------------------------------------------------------
(* install_dns_rule_set.  The sequence a bundle must reach is the larger   *)
(* of the installed one and the pinned minimum.                            *)
Larger(a, b) == IF a >= b THEN a ELSE b

(* Mutant: only the pinned minimum bounds an update.                       *)
MinimumSequencePinned(source, bundle) == source.minimum

MinimumSequence(source, bundle) ==
  IF bundle = NoBundle THEN source.minimum ELSE Larger(bundle.sequence, source.minimum)

Verified(b) ==
  /\ snap.sources[b.name] # Unpinned
  /\ b.key = snap.sources[b.name].key
  /\ b.sequence >= MinimumSequence(snap.sources[b.name], installed[b.name])
  /\ b \notin lapsed

Reused(b) == installed[b.name] # NoBundle /\ installed[b.name].sequence = b.sequence

InstallCall(c) ==
  /\ call[c].pc = "idle"
  /\ call' = [call EXCEPT ![c].pc = "install", ![c].previous = snap.revision]
  /\ UNCHANGED <<snap, installed, lapsed, cancelled, nextEpoch, mutex, effects>>

InstallRefuse(c, b) ==
  /\ call[c].pc = "install" /\ mutex = NoOne
  /\ \/ ~Verified(b)
     \/ Reused(b) /\ b # installed[b.name]
     \/ ~Reused(b) /\ Refused(snap.sources, [installed EXCEPT ![b.name] = b])
  /\ call' = [call EXCEPT ![c] = Idle]
  /\ UNCHANGED <<snap, installed, lapsed, cancelled, nextEpoch, mutex, effects>>

(* The bundle that is already installed: the current revision is the       *)
(* answer.                                                                 *)
InstallSame(c, b) ==
  /\ call[c].pc = "install" /\ mutex = NoOne
  /\ Verified(b) /\ Reused(b) /\ b = installed[b.name]
  /\ call' = [call EXCEPT ![c].pc = "report", ![c].revision = snap.revision]
  /\ UNCHANGED <<snap, installed, lapsed, cancelled, nextEpoch, mutex, effects>>

(* Mutant: the new bundle is recorded but the resolver keeps the old one.  *)
InstallSwapStale(c, b) ==
  LET candidate == [installed EXCEPT ![b.name] = b]
  IN  /\ call[c].pc = "install" /\ mutex = NoOne
      /\ Verified(b) /\ ~Reused(b)
      /\ ~Refused(snap.sources, candidate)
      /\ snap.revision <= MaxRevision
      /\ snap' = [snap EXCEPT !.revision = snap.revision + 1, !.proxy = snap.revision + 1]
      /\ installed' = candidate
      /\ call' = [call EXCEPT ![c].pc = "report", ![c].revision = snap.revision + 1]
      /\ UNCHANGED <<lapsed, cancelled, nextEpoch, mutex, effects>>

(* A new proxy over the same cache and the same cancellation epoch.        *)
InstallSwap(c, b) ==
  LET candidate == [installed EXCEPT ![b.name] = b]
  IN  /\ call[c].pc = "install" /\ mutex = NoOne
      /\ Verified(b) /\ ~Reused(b)
      /\ ~Refused(snap.sources, candidate)
      /\ snap.revision <= MaxRevision
      /\ snap' = [snap EXCEPT !.revision = snap.revision + 1, !.proxy = snap.revision + 1,
                              !.artifacts = Artifacts(snap.sources, candidate)]
      /\ installed' = candidate
      /\ call' = [call EXCEPT ![c].pc = "report", ![c].revision = snap.revision + 1]
      /\ UNCHANGED <<lapsed, cancelled, nextEpoch, mutex, effects>>

(* The journal records an install whose revision is not the one read       *)
(* before the call.                                                        *)
InstallReport(c) ==
  /\ call[c].pc = "report"
  /\ published' = IF call[c].revision # call[c].previous
                   THEN [revision |-> call[c].revision, previous |-> call[c].previous]
                   ELSE published
  /\ call' = [call EXCEPT ![c] = Idle]
  /\ UNCHANGED <<snap, installed, lapsed, cancelled, nextEpoch, mutex, gateConfig, lastError>>

-----------------------------------------------------------------------------
(* network_changed_transaction: the resolver is flushed first, then an     *)
(* identical snapshot with a fresh epoch replaces the current one, then    *)
(* the old epoch is cancelled.                                             *)
NetFlush(c) ==
  /\ call[c].pc = "idle" /\ mutex = NoOne
  /\ nextEpoch <= MaxEpoch
  /\ mutex' = c
  /\ call' = [call EXCEPT ![c].pc = "netswap"]
  /\ UNCHANGED <<snap, installed, lapsed, cancelled, nextEpoch, effects>>

NetSwap(c) ==
  /\ call[c].pc = "netswap"
  /\ snap' = [snap EXCEPT !.epoch = nextEpoch]
  /\ nextEpoch' = nextEpoch + 1
  /\ call' = [call EXCEPT ![c].pc = "netcancel", ![c].epoch = snap.epoch]
  /\ UNCHANGED <<installed, lapsed, cancelled, mutex, effects>>

NetCancel(c) ==
  /\ call[c].pc = "netcancel"
  /\ cancelled' = cancelled \cup {call[c].epoch}
  /\ mutex' = NoOne
  /\ call' = [call EXCEPT ![c] = Idle]
  /\ UNCHANGED <<snap, installed, lapsed, nextEpoch, effects>>

(* validate_categorized_freshness: the clock passes a bundle's expiry.     *)
Lapse(b) ==
  /\ b \notin lapsed
  /\ lapsed' = lapsed \cup {b}
  /\ UNCHANGED <<snap, installed, cancelled, nextEpoch, mutex, call, effects>>

ReloadElse(c) ==
  \/ ReloadCall(c) \/ ReloadCancel(c) \/ ReloadApply(c)
  \/ ReloadPublish(c) \/ ReloadInvalid(c) \/ ReloadFail(c)
  \/ \E request \in Requests, expected \in 0..MaxRevision :
       \/ ReloadConflict(c, request, expected) \/ ReloadRefuse(c, request, expected)
       \/ ReloadEmergency(c, request, expected) \/ ReloadSwap(c, request, expected)

Reload(c) == ReloadElse(c) \/ ReloadFlush(c)

Install(c) ==
  \/ InstallCall(c) \/ InstallReport(c)
  \/ \E b \in Bundles : InstallRefuse(c, b) \/ InstallSame(c, b) \/ InstallSwap(c, b)

NetworkChange(c) == NetFlush(c) \/ NetSwap(c) \/ NetCancel(c)

StoreNext ==
  \/ \E c \in Controllers : Reload(c) \/ Install(c) \/ NetworkChange(c)
  \/ \E b \in Bundles : Lapse(b)

StoreSpec == StoreInit /\ [][StoreNext]_storeVars

-----------------------------------------------------------------------------
(* network_changed, policy.rs: "new flows never observe a cancelled        *)
(* token": the published token is live, whatever two controllers do.  And  *)
(* no epoch is lost: any other token that some flow may hold is cancelled, *)
(* or is about to be by the controller inside the mutex.  Retained flows   *)
(* of every ordinary reload stay within reach of the next revocation.      *)
EveryEpochAccounted ==
  /\ snap.epoch \notin cancelled
  /\ \A e \in 1..(nextEpoch - 1) \ {snap.epoch} :
       e \in cancelled \/ (mutex # NoOne /\ call[mutex].epoch = e)

(* An installed rule set is only ever replaced by one with a higher        *)
(* sequence, across reloads that pin another key or minimum in between.    *)
RuleSetsNeverRollBack ==
  [][\A n \in Names : installed[n] # NoBundle /\ installed'[n] # installed[n] =>
       installed'[n].sequence > installed[n].sequence]_storeVars

(* What the resolver filters by is what the published configuration        *)
(* resolves to over the installed bundles, with nothing required missing:  *)
(* reload, emergency block, install and network change all keep the two    *)
(* in step.                                                                *)
ResolverServesInstalled ==
  /\ snap.artifacts = Artifacts(snap.sources, installed)
  /\ \A n \in Names : snap.sources[n] # Unpinned /\ snap.sources[n].required =>
       snap.artifacts[n] # NoArtifact

(* Whoever loads the snapshot can be reached by the next revocation and is *)
(* answered by the bundles installed, at every step of every controller.   *)
StoreConsistent == EveryEpochAccounted /\ ResolverServesInstalled

(* README.md: "A rejected reload changes nothing."                         *)
RejectedReloadChangesNothing ==
  [][\A c \in Controllers :
       call[c].pc = "reload" /\ call'[c].outcome \in {"conflict", "refused", "emergency"}
       => snap' = snap]_storeVars
=============================================================================
