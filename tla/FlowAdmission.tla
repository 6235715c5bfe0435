--------------------------- MODULE FlowAdmission ----------------------------
(***************************************************************************)
(* Flows admitted by the policy of PolicyStore and cut by its epochs:      *)
(* handle_tcp and handle_udp of foxcore-tun/src/flow, the LAN sessions of  *)
(* foxcore-runtime/src/lan.rs, and revoke_flows over the traffic map.  A   *)
(* flow loads one snapshot, awaits the platform's attribution and a dial   *)
(* under it, and relays until one of its two tokens is cancelled.          *)
(***************************************************************************)
EXTENDS PolicyStore, FiniteSets

CONSTANTS
  Flows,     \* flow slots: the permits of tcp_slots and udp_slots
  Apps,      \* applications that open flows
  Revokers,  \* threads inside revoke_flows
  NoApp      \* the owner of a LAN session

VARIABLES
  flow,      \* the flow in each slot
  doomed     \* the flows each revocation collected and has not cancelled yet

flowVars == <<flow, doomed>>
allVars == <<storeVars, flowVars>>

(* `kill' and `blocks' are what the loaded snapshot says of this flow,     *)
(* `known' that its row names the owner, `lookup' that a best-effort       *)
(* attribution is still running, `revoked' the flow's own token.           *)
NoFlow == [pc |-> "idle", kind |-> "engine", app |-> NoApp, epoch |-> 0, kill |-> FALSE,
           blocks |-> FALSE, known |-> FALSE, lookup |-> FALSE, revoked |-> FALSE]

Listed(f) == flow[f].pc \in {"dial", "relay"}
TokenCancelled(f) == flow[f].epoch \in cancelled \/ flow[f].revoked

FlowInit ==
  /\ StoreInit
  /\ flow = [f \in Flows |-> NoFlow]
  /\ doomed = [r \in Revokers |-> {}]

(* A slot's flow is gone; a revocation that collected its token will       *)
(* cancel a token nobody waits on.                                         *)
Gone(f) ==
  /\ flow' = [flow EXCEPT ![f] = NoFlow]
  /\ doomed' = [r \in Revokers |-> doomed[r] \ {f}]
  /\ UNCHANGED storeVars

Becomes(f, row) == flow' = [flow EXCEPT ![f] = row] /\ UNCHANGED <<storeVars, doomed>>

-----------------------------------------------------------------------------
(* handle_tcp and handle_udp: one atomic load of the snapshot.  A policy   *)
(* that blocks applications requires the owner before it can decide.       *)
RequiresIdentity == snap.blocked # {}

Admit(f, a) ==
  /\ flow[f].pc = "idle"
  /\ Becomes(f, [NoFlow EXCEPT !.pc = IF RequiresIdentity THEN "attribute" ELSE "select",
                               !.app = a, !.epoch = snap.epoch, !.kill = snap.kill,
                               !.blocks = a \in snap.blocked])

(* attribute_context.                                                      *)
Attribute(f) ==
  /\ flow[f].pc = "attribute"
  /\ Becomes(f, [flow[f] EXCEPT !.pc = "select", !.known = TRUE])

Unattributed(f) == flow[f].pc = "attribute" /\ Gone(f)

(* select_route refuses: the kill switch, a rule, a held lane or one that  *)
(* is not there.                                                           *)
Refuse(f) == flow[f].pc = "select" /\ Gone(f)

(* Mutant: the flow is bound to the epoch published when it opens.         *)
OpenUnderCurrent(f) ==
  /\ flow[f].pc = "select"
  /\ ~flow[f].kill /\ ~flow[f].blocks
  /\ Becomes(f, [flow[f] EXCEPT !.pc = "dial", !.lookup = ~flow[f].known,
                                !.epoch = snap.epoch])

(* The row is registered with the owner if routing resolved it, otherwise  *)
(* a best-effort lookup is spawned; the flow is bound to the epoch of the  *)
(* snapshot that selected it.                                              *)
Open(f) ==
  /\ flow[f].pc = "select"
  /\ ~flow[f].kill /\ ~flow[f].blocks
  /\ Becomes(f, [flow[f] EXCEPT !.pc = "dial", !.lookup = ~flow[f].known])

Telemetry(f) ==
  /\ Listed(f) /\ flow[f].lookup
  /\ \E known \in BOOLEAN :
       Becomes(f, [flow[f] EXCEPT !.known = known, !.lookup = FALSE])

(* connect_stream and connect_datagram are not cut by a revocation.        *)
Dialled(f) ==
  /\ flow[f].pc = "dial" /\ flow[f].kind = "engine"
  /\ Becomes(f, [flow[f] EXCEPT !.pc = "relay"])

DialFailed(f) == flow[f].pc = "dial" /\ Gone(f)

(* Mutant: the relay does not wait on the policy's token.                  *)
StopOwnToken(f) == flow[f].pc = "relay" /\ flow[f].revoked /\ Gone(f)

(* The relay's select: a cancelled token ends it.                          *)
Stop(f) == flow[f].pc = "relay" /\ TokenCancelled(f) /\ Gone(f)

(* The peer, the idle or half-closed timer, or an error ends it.           *)
End(f) == flow[f].pc = "relay" /\ Gone(f)

-----------------------------------------------------------------------------
(* RegistryUpstream::connect: gates and epoch come from one snapshot, the  *)
(* row is registered before the dial, and the dial waits on both tokens    *)
(* first.                                                                  *)
LanConnect(f) ==
  /\ flow[f].pc = "idle"
  /\ ~snap.kill
  /\ Becomes(f, [NoFlow EXCEPT !.pc = "dial", !.kind = "lan", !.epoch = snap.epoch])

LanDialled(f) ==
  /\ flow[f].pc = "dial" /\ flow[f].kind = "lan"
  /\ ~TokenCancelled(f)
  /\ Becomes(f, [flow[f] EXCEPT !.pc = "relay"])

LanAborted(f) ==
  /\ flow[f].pc = "dial" /\ flow[f].kind = "lan"
  /\ TokenCancelled(f)
  /\ Gone(f)

-----------------------------------------------------------------------------
(* TrafficMap::revoke: tokens are collected under the map's lock and       *)
(* cancelled after it.  The target is every flow or one application's.     *)
Targeted(f, every, a) == every \/ (flow[f].known /\ flow[f].app = a)

RevokeCollect(r, every, a) ==
  /\ doomed[r] = {}
  /\ doomed' = [doomed EXCEPT ![r] = {f \in Flows : Listed(f) /\ Targeted(f, every, a)}]
  /\ UNCHANGED <<storeVars, flow>>

RevokeCancel(r) ==
  /\ doomed[r] # {}
  /\ flow' = [f \in Flows |-> IF f \in doomed[r]
                              THEN [flow[f] EXCEPT !.revoked = TRUE] ELSE flow[f]]
  /\ doomed' = [doomed EXCEPT ![r] = {}]
  /\ UNCHANGED storeVars

StoreStep == StoreNext /\ UNCHANGED flowVars

FlowStep(f) ==
  \/ \E a \in Apps : Admit(f, a)
  \/ Attribute(f) \/ Unattributed(f) \/ Refuse(f) \/ Open(f) \/ Telemetry(f)
  \/ Dialled(f) \/ DialFailed(f) \/ Stop(f) \/ End(f)
  \/ LanConnect(f) \/ LanDialled(f) \/ LanAborted(f)

Revoke(r) ==
  \/ \E every \in BOOLEAN, a \in Apps : RevokeCollect(r, every, a)
  \/ RevokeCancel(r)

FlowNext ==
  \/ StoreStep
  \/ \E f \in Flows : FlowStep(f)
  \/ \E r \in Revokers : Revoke(r)

FlowSpec == FlowInit /\ [][FlowNext]_allVars

(* The attribution and the dial have deadlines, and the executor polls a   *)
(* task whose token was cancelled.                                         *)
FlowFairness ==
  \A f \in Flows :
    /\ WF_allVars(Attribute(f) \/ Unattributed(f))
    /\ WF_allVars(Refuse(f) \/ Open(f))
    /\ WF_allVars(Dialled(f) \/ DialFailed(f) \/ LanDialled(f) \/ LanAborted(f))
    /\ WF_allVars(Stop(f))

FairFlowSpec == FlowSpec /\ FlowFairness

-----------------------------------------------------------------------------
(* Once a reload or an emergency block that arms the kill switch has left  *)
(* the mutex, no flow is open on a live token, LAN sessions and flows that *)
(* were awaiting attribution or a dial included.                           *)
KillSwitchCutsEveryFlow ==
  snap.kill /\ mutex = NoOne =>
    \A f \in Flows : Listed(f) => flow[f].epoch \in cancelled

(* A flow whose token was cancelled, by the kill switch, a network change  *)
(* or revoke_flows, ends.                                                  *)
RevokedFlowsEnd ==
  \A f \in Flows : (flow[f].pc # "idle" /\ TokenCancelled(f)) ~> (flow[f].pc = "idle")

-----------------------------------------------------------------------------
(***************************************************************************)
(* The packet path of an L3 tunnel: classify in foxcore-tun/src/ingress.rs *)
(* with the decision cache of split.rs, decide_packet of flow/engine.rs    *)
(* and the 5-tuple table of foxcore-trafficmap/src/packet.rs, over the     *)
(* policy of PolicyStore.  One task reads packets in order; a miss in the  *)
(* cache awaits the platform's attribution with the packet in hand.        *)
(*                                                                         *)
(* A key stands for a 5-tuple and for the application that owns it.        *)
(***************************************************************************)

CONSTANTS
  Keys,        \* 5-tuples seen on the tun
  Primary,     \* keys the route table sends to the primary outbound
  Capacity,    \* max_tcp_flows + max_udp_flows
  MaxRow       \* bound on the traffic-map rows one behaviour opens

VARIABLES
  cached,      \* PacketSplitter.decisions
  idle,        \* cached keys not seen for the idle timeout
  pkt,         \* the packet classify holds
  bound,       \* PacketAccounting.table: the row a key's bytes go to
  rows,        \* rows opened so far; the newest is rows
  revokedRows  \* rows whose own token revoke_flows cancelled

splitVars == <<cached, idle, pkt, bound, rows, revokedRows>>
packetVars == <<storeVars, splitVars>>

(* `token' is the epoch the decision is tied to, `kill' and `blocks' what  *)
(* the snapshot it was decided under says, `row' its traffic-map row.      *)
Empty == [route |-> "none", token |-> 0, kill |-> FALSE, blocks |-> FALSE, row |-> 0]
NoPacket == [pc |-> "idle", key |-> CHOOSE k \in Keys : TRUE, token |-> 0,
             kill |-> FALSE, blocks |-> FALSE, route |-> "none"]

Cached == {k \in Keys : cached[k] # Empty}

(* Decision::is_void.                                                      *)
IsVoid(d) == d.token \in cancelled \/ d.row \in revokedRows

Live(k) == cached[k] # Empty /\ ~IsVoid(cached[k])

SplitInit ==
  /\ StoreInit
  /\ cached = [k \in Keys |-> Empty]
  /\ idle = {}
  /\ pkt = NoPacket
  /\ bound = [k \in Keys |-> 0]
  /\ rows = 0
  /\ revokedRows = {}

(* Dropping a decision closes its row: the binding of its key is removed,  *)
(* whichever row it names.                                                 *)
Unbind(gone) == [k \in Keys |-> IF k \in gone /\ cached[k].row # 0 THEN 0 ELSE bound[k]]

-----------------------------------------------------------------------------
(* lookup finds a live decision.                                           *)
LookupHit(k) ==
  /\ pkt.pc = "idle"
  /\ Live(k) /\ k \notin idle
  /\ pkt' = [NoPacket EXCEPT !.pc = "send", !.key = k, !.route = cached[k].route]
  /\ UNCHANGED <<storeVars, cached, idle, bound, rows, revokedRows>>

(* lookup misses; an idle or void decision is removed with its row.        *)
LookupMiss(k) ==
  /\ pkt.pc = "idle"
  /\ ~(Live(k) /\ k \notin idle)
  /\ cached' = [cached EXCEPT ![k] = Empty]
  /\ bound' = Unbind({k})
  /\ idle' = idle \ {k}
  /\ pkt' = [NoPacket EXCEPT !.pc = "token", !.key = k]
  /\ UNCHANGED <<storeVars, rows, revokedRows>>

(* The decide closure loads the token first and decide_packet then loads   *)
(* the snapshot: two loads, which a reload may separate.                   *)
LoadToken ==
  /\ pkt.pc = "token"
  /\ pkt' = [pkt EXCEPT !.pc = "load", !.token = snap.epoch]
  /\ UNCHANGED <<storeVars, cached, idle, bound, rows, revokedRows>>

LoadPolicy ==
  /\ pkt.pc = "load"
  /\ pkt' = [pkt EXCEPT !.pc = "attribute", !.kill = snap.kill,
                        !.blocks = pkt.key \in snap.blocked]
  /\ UNCHANGED <<storeVars, cached, idle, bound, rows, revokedRows>>

(* What decide_packet answers: the kill switch and the rules block, and so *)
(* does a failed attribution.                                              *)
PacketVerdicts ==
  IF pkt.kill \/ pkt.blocks THEN {"Block"}
  ELSE {IF pkt.key \in Primary THEN "Tunnel" ELSE "Stack", "Block"}

(* insert evicts at capacity: every idle decision, then one of the others  *)
(* if that is not enough.                                                  *)
Evictions ==
  LET kept == Cached \ idle
  IN  IF Cardinality(Cached) < Capacity THEN {{}}
      ELSE IF Cardinality(kept) < Capacity THEN {Cached \cap idle}
      ELSE {(Cached \cap idle) \cup {k} : k \in kept}

(* The answer opens and binds a row if the packet goes to the tunnel, is   *)
(* inserted under the token, and routes the packet in hand.                *)
Insert(token, route, gone) ==
  LET row == IF route = "Tunnel" THEN rows + 1 ELSE 0
      dropped == gone \cup {pkt.key}
  IN  /\ pkt.pc = "attribute"
      /\ row <= MaxRow
      /\ rows' = IF row = 0 THEN rows ELSE row
      /\ bound' = [k \in Keys |->
                     IF k \in dropped /\ cached[k].row # 0 THEN 0
                     ELSE IF k = pkt.key /\ row # 0 THEN row ELSE bound[k]]
      /\ cached' = [k \in Keys |->
                      IF k = pkt.key
                        THEN [route |-> route, token |-> token, kill |-> pkt.kill,
                              blocks |-> pkt.blocks, row |-> row]
                      ELSE IF k \in gone THEN Empty ELSE cached[k]]
      /\ idle' = idle \ dropped
      /\ pkt' = [pkt EXCEPT !.pc = "send", !.route = route]
      /\ UNCHANGED <<storeVars, revokedRows>>

Decided(route, gone) == Insert(pkt.token, route, gone)

Decide == \E route \in PacketVerdicts, gone \in Evictions : Decided(route, gone)

(* The packet is counted and handed to its channel, or dropped.            *)
Send ==
  /\ pkt.pc = "send"
  /\ pkt' = NoPacket
  /\ UNCHANGED <<storeVars, cached, idle, bound, rows, revokedRows>>

(* The idle timeout of a cached decision passes.                           *)
Idles(k) ==
  /\ k \in Cached \ idle
  /\ idle' = idle \cup {k}
  /\ UNCHANGED <<storeVars, cached, pkt, bound, rows, revokedRows>>

(* revoke_flows reaches the row of a cached decision.                      *)
RevokeRow(k) ==
  /\ cached[k].row # 0
  /\ revokedRows' = revokedRows \cup {cached[k].row}
  /\ UNCHANGED <<storeVars, cached, idle, pkt, bound, rows>>

SplitPolicyStep == StoreNext /\ UNCHANGED splitVars

SplitNext ==
  \/ \E k \in Keys : LookupHit(k) \/ LookupMiss(k) \/ Idles(k) \/ RevokeRow(k)
  \/ LoadToken \/ LoadPolicy \/ Decide \/ Send
  \/ SplitPolicyStep

SplitSpec == SplitInit /\ [][SplitNext]_packetVars

-----------------------------------------------------------------------------
(* The cache never exceeds its capacity, and its bookkeeping agrees.       *)
SplitTypeOK ==
  /\ Cardinality(Cached) <= Capacity
  /\ idle \subseteq Cached
  /\ rows \in 0..MaxRow /\ revokedRows \subseteq 1..rows
  /\ pkt.pc \in {"idle", "token", "load", "attribute", "send"}

(* docs/atomic-policy-updates.md: decisions observed during the blocked    *)
(* period do not remain cached after traffic is enabled again.  Once the   *)
(* controller has left the mutex, a decision that still routes packets was *)
(* taken under the kill switch's present position, whatever the reload     *)
(* interrupted: the two loads, the attribution or neither.                 *)
CachedDecisionsFollowKillSwitch ==
  mutex = NoOne => \A k \in Keys : Live(k) => cached[k].kill = snap.kill

(* Both consumers over one store.                                          *)
policyVars == <<storeVars, flowVars, splitVars>>
AdmissionNext == (FlowNext /\ UNCHANGED splitVars) \/ (SplitNext /\ UNCHANGED flowVars)
AdmissionSpec == FlowInit /\ SplitInit /\ [][AdmissionNext]_policyVars

(* The kill switch holds on every path: flows of the engine, LAN sessions  *)
(* and packets routed by a decision taken earlier.                         *)
KillSwitchHolds == KillSwitchCutsEveryFlow /\ CachedDecisionsFollowKillSwitch
=============================================================================
