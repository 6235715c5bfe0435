------------------------------- MODULE MCTun -------------------------------
(***************************************************************************)
(* The tunnel's own parts, each in a part of its own.                       *)
(***************************************************************************)
EXTENDS TcpStack, FlowRelay, TLC

CONSTANTS a, b, u, Packets
VARIABLES part, arrived
MCPeer == <<"syn", "ack", "data", "fin", "ack">>
MCCrowd == <<<<a, "ack">>, <<a, "ack">>, <<a, "syn">>, <<b, "syn">>, <<a, "ack">>>>
MCBytes == <<2, 1>>
MCPackets == [admit |-> 3, data |-> 4, crowd |-> 5]

MCTuples == {a, b}
MCDst == [t \in {a, b} |-> "x"]

MCInit ==
    /\ part \in {"admit", "data", "crowd", "relay", "ledger", "device", "udp", "translate"} /\ arrived = 0
    /\ TcpInit /\ RelayInit /\ LedgerInit /\ from_owned /\ UdpInit

Arrive(t, kind) == arrived < Packets[part] /\ arrived' = arrived + 1 /\ read_tcp(t, kind)

(* Two incarnations of two tuples with one destination, and a datagram flow. *)
AdmitNext ==
    \/ ActorStep /\ UNCHANGED arrived
    \/ \E t \in MCTuples, kind \in {"syn", "ack", "rst"} : Arrive(t, kind)
    \/ arrived < Packets[part] /\ arrived' = arrived + 1 /\ read_udp(u)
    \/ (timer \/ stop_actor \/ accept_flow \/ drop_datagram_flow(u)) /\ UNCHANGED arrived
    \/ \E c \in Conns : (Elapse(c) \/ drop_flow(c) \/ schedule(c)) /\ UNCHANGED arrived

(* One flow, its data, and every call of the application. *)
DataNext ==
    \/ ActorStep /\ UNCHANGED arrived
    \/ \E kind \in {MCPeer[arrived + 1]} : Arrive(a, kind)
    \/ (timer \/ accept_flow) /\ UNCHANGED arrived
    \/ \E c \in Conns : (Elapse(c) \/ AppStep(c)) /\ conn'[c].written <= CHUNK /\ UNCHANGED arrived

(* Two tuples of one destination while the writer is slow. *)
CrowdNext ==
    \/ (ActorStep \/ timer) /\ UNCHANGED arrived
    \/ arrived < 5 /\ \E p \in {MCCrowd[arrived + 1]} : Arrive(p[1], p[2])

(* One relayed flow: bytes both ways, an outbound that may stop taking them. *)
(* More than two bytes go up only while nothing comes down.                  *)
Came(d) == src[d].read + src[d].avail
RelayEnv ==
    \/ Came("up") < (IF src["down"].fin \/ Came("down") > 0 THEN 2 ELSE 4) /\ Bytes("up")
    \/ Came("down") < 1 /\ Came("up") <= 2 /\ Bytes("down")
    \/ Came("up") <= 2 /\ Fin("down")
    \/ Fin("up") \/ \E d \in Directions : dst[d].room < 1 /\ Accepts(d)
    \/ guard.pending > 0 /\ Stops
RelayClocks == NoProgress \/ TimerFires \/ stayed_half_closed \/ HalfClosed
RelayNext == PollStep \/ RelayEnv \/ RelayClocks

(* Two flows of one application; flow 1 is counted by the tunnel as well.    *)
(* It is the first to open, and its lane is the same in every behaviour.     *)
LedgerNext ==
    \/ \E f \in Flows :
         /\ LedgerStep(f) /\ row'[f].bytes <= MCBytes[f]
         /\ row'[1].pc # "new" /\ row'[1].lane = "vpn" /\ table' \subseteq {1}
    \/ snapshot \/ \E max \in {1, MAX_DRAIN_BATCH} : drain_events(max)

(* Two incarnations of one datagram session. *)
UdpNext == (\E room, oversized \in BOOLEAN : UdpStep(room, oversized)) /\ udp'.came <= 4 /\ udp'.wrote <= 2

MCNext ==
    /\ \/ part = "admit" /\ AdmitNext /\ UNCHANGED <<relayVars, ledgerVars, tunVars>>
       \/ part = "data" /\ DataNext /\ UNCHANGED <<relayVars, ledgerVars, tunVars>>
       \/ part = "crowd" /\ CrowdNext /\ UNCHANGED <<relayVars, ledgerVars, tunVars>>
       \/ part = "relay" /\ RelayNext /\ UNCHANGED <<tcpVars, ledgerVars, tunVars, arrived>>
       \/ part = "ledger" /\ LedgerNext /\ UNCHANGED <<tcpVars, relayVars, tunVars, arrived>>
       \/ part = "device" /\ DeviceStep /\ UNCHANGED <<tcpVars, relayVars, ledgerVars, udp, arrived>>
       \/ part = "udp" /\ UdpNext /\ UNCHANGED <<tcpVars, relayVars, ledgerVars, deviceVars, arrived>>
    /\ UNCHANGED part
mcVars == <<tcpVars, relayVars, ledgerVars, tunVars, part, arrived>>

Fair(parts, A) == part \in parts /\ A /\ UNCHANGED <<tcpVars, ledgerVars, tunVars, part, arrived>>
MCSpec == MCInit /\ [][MCNext]_mcVars
          /\ WF_mcVars(Fair({"relay"}, PollStep)) /\ WF_mcVars(Fair({"relay"}, NoProgress))
          /\ WF_mcVars(Fair({"relay"}, TimerFires))
          /\ WF_mcVars(Fair({"relay"}, stayed_half_closed)) /\ WF_mcVars(Fair({"relay"}, HalfClosed))

(* The static algorithm, once. *)
MCTranslationVerifies == part = "translate" => TranslationVerifies

(* The liveness of the relay, in its own part. *)
MCRelayEnds == part = "relay" => RelayEnds

(* The TCP stack: every flow gives back its accept permit and its memory   *)
(* once, a FIN follows the last byte, and no shutdown sleeps through its   *)
(* answer.                                                                 *)
StackSound == ReservationsBalance /\ FinAfterBytes /\ ShutdownWoken

(* What the tunnel says of traffic is true: the relay's reports, the       *)
(* ledger's totals, the revoked descriptor, a datagram session's counts,   *)
(* and the checksums of translated packets.                                *)
TrafficSound ==
  RelayHonest /\ LedgerExact /\ DeviceRevoked /\ DatagramsAccounted /\ MCTranslationVerifies
=============================================================================
