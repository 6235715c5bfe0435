---------------------------- MODULE MCOutbounds ----------------------------
(* The outbounds for TLC: a behaviour works on a selector, on the lanes of *)
(* a registry, on a replay window, or on the relay of a packet tunnel cast *)
(* in one of three roles; the other parts rest.                            *)
EXTENDS Outbounds, ReplayWindow, WireguardTunnel, TLC

CONSTANTS primary, tor

VARIABLE part   \* "selector", "lanes", "window" or one of Roles

MCVars == <<part, selectorVars, laneVars, windowVars, relayVars>>

OutboundSymmetry == Permutations(Passes)

SelectorRests ==
  active = 0 /\ revision = 0 /\ built = {} /\ actor = [a \in Actors |-> Idle]
LanesRest ==
  /\ stage = "failed" /\ gates = {} /\ packetTunnel = FALSE /\ entry = [e \in Entries |-> Unbuilt]
  /\ caller = [c \in Callers |-> "idle"] /\ pass = [p \in Passes |-> [e \in Entries |-> "none"]]
  /\ allowed = [p \in Passes |-> {}] /\ view = [e \in Entries |-> "quiet"]

MCTagged == <<"a", "b", "c">>

WindowRests == last = 0 /\ ring = [s \in Slots |-> {}] /\ accepted = {}
RelayRests ==
  /\ tunnel = NewTunnel /\ net = None /\ moved = FALSE /\ signal = FALSE
  /\ socket = None /\ resolved = None /\ task = Selecting /\ timer = 0
  /\ relay = NewLocals /\ traffic = [came |-> 0, left |-> <<>>]

(* session: the network stays and the socket takes everything.  faulty:    *)
(* draws fail, and three packets are followed to the wire.  roam: the      *)
(* network moves, sockets fail and the peer is silent.                     *)
Roles == {"session", "faulty", "roam"}

MCInit ==
  \/ part = "selector" /\ SelectorInit /\ LanesRest /\ WindowRests /\ RelayRests
  \/ part = "lanes" /\ LanesInit /\ SelectorRests /\ WindowRests /\ RelayRests
  \/ part = "window" /\ WindowInit /\ RelayRests /\ SelectorRests /\ LanesRest
  \/ part \in Roles /\ RelayInit /\ WindowRests /\ SelectorRests /\ LanesRest

Lucky == {draw \in Draws : draw.luck = Plenty}

SessionNext ==
  \/ TimePasses
  \/ \E draw \in Lucky : TunPacket(FALSE, draw) \/ ReceiveDatagram(draw) \/ TimerFires(draw)

FaultyNext ==
  \/ TimePasses
  \/ \E draw \in Draws :
       TunPacket(TRUE, draw) \/ ReceiveDatagram(draw) \/ TimerFires(draw)

RoamNext ==
  \/ TimePasses \/ RuntimeStep
  \/ TunPacketRefused \/ TunPacketOffline \/ ReceiveError \/ NetworkChanged
  \/ Resolved \/ Bound \/ Cancelled
  \/ \E draw \in Lucky :
       TunPacket(FALSE, draw) \/ TimerFires(draw) \/ Opened(draw) \/ NotOpened(draw)

MCNext ==
  \/ part = "selector" /\ SelectorNext /\ UNCHANGED <<part, laneVars, windowVars, relayVars>>
  \/ part = "lanes" /\ LanesNext /\ UNCHANGED <<part, selectorVars, windowVars, relayVars>>
  \/ part = "window" /\ WindowNext /\ UNCHANGED <<part, selectorVars, laneVars, relayVars>>
  \/ /\ \/ part = "session" /\ SessionNext
        \/ part = "faulty" /\ FaultyNext
        \/ part = "roam" /\ RoamNext
     /\ UNCHANGED <<part, selectorVars, laneVars, windowVars>>

MCSpec == MCInit /\ [][MCNext]_MCVars

(* The roaming relay with the fairness of its runtime: time goes on, a     *)
(* rebind ends, and a timer that is ready again and again is taken.        *)
RoamSpec ==
  /\ part = "roam" /\ MCInit /\ [][MCNext]_MCVars
  /\ WF_relayVars(TimePasses)
  /\ WF_relayVars(NetworkChanged \/ Resolved \/ Bound \/
                  \E draw \in Lucky : Opened(draw) \/ NotOpened(draw))
  /\ SF_relayVars(\E draw \in Lucky : TimerFires(draw))

-----------------------------------------------------------------------------

(* The packet tunnel: its queues and timers keep to their limits, what     *)
(* tick does and when the relay wakes for it agree, no packet passes one   *)
(* still held from before the handshake, and the socket is on the network  *)
(* the runtime named.                                                      *)
PacketTunnelSound == (part \in Roles => RelayTypeOK) /\ TimersAgree /\ PacketsLeaveInOrder /\ SocketOnNamedNetwork
=============================================================================
