---------------------------- MODULE NetworkSwitch --------------------------
(***************************************************************************)
(* A network change under the continuity gate: CoreRuntime::                *)
(* network_changed_with_handle, hold_network_switch, rebind_network and     *)
(* confirm_continuity, with the policy reload that may change the gate's    *)
(* mind in between. The gate is ContinuityGate; the network thread is one   *)
(* of its reporters. A network handle is a number, zero is none.            *)
(***************************************************************************)
EXTENDS ContinuityGate

CONSTANTS NetThread,   \* the thread that delivers network callbacks
          MaxHandle    \* bound on the networks the device moves through

ASSUME NetThreadAssumption == NetThread \in Reporters
ASSUME MaxHandleAssumption == MaxHandle \in Nat \ {0}

VARIABLES
  dialer,     \* the network handle of the protected dialer
  bound,      \* the handle the outbounds, the resolver and the packet tunnel
              \* were last rebound to; none after a bare invalidation
  deferred,   \* CoreRuntime.deferred_network
  latest,     \* the last handle the platform reported (history)
  npc,        \* where the network callback is
  conf,       \* where each confirmation is between its claim and its completion
  clash       \* history: a handle was remembered behind a confirmation's back,
              \* or the policy changed while one was remembered

netVars == <<dialer, bound, deferred, latest, npc, conf, clash>>
allVars == <<vars, netVars>>

NetTypeOK ==
  /\ IInv
  /\ dialer \in 0..MaxHandle /\ bound \in 0..MaxHandle
  /\ deferred \in 0..MaxHandle /\ latest \in 0..MaxHandle
  /\ npc \in {"idle", "check", "set", "rebind", "defer", "interrupt", "gate",
              "invalidate"}
  /\ conf \in [Apps -> {"none", "take", "rebind", "complete"}]
  /\ clash \in BOOLEAN

NetInit ==
  /\ Init
  /\ dialer = 1 /\ bound = 1 /\ deferred = 0 /\ latest = 1
  /\ npc = "idle"
  /\ conf = [a \in Apps |-> "none"]
  /\ clash = FALSE

-----------------------------------------------------------------------------
(* network_changed_with_handle *)

\* The platform has the handle to call only once start has attached the watch.
NetReport ==
  /\ npc = "idle" /\ pc[NetThread] = "idle" /\ latest < MaxHandle
  /\ watch # "unborn"
  /\ latest' = latest + 1
  /\ npc' = "check"
  /\ UNCHANGED <<vars, dialer, bound, deferred, conf, clash>>

\* hold_network_switch reads the policy once here and once more in interrupt.
NetCheck ==
  /\ npc = "check"
  /\ npc' = IF is_permitted(config, "NetworkSwitch") THEN "set" ELSE "defer"
  /\ UNCHANGED <<vars, dialer, bound, deferred, latest, conf, clash>>

NetSet ==
  /\ npc = "set"
  /\ dialer' = latest
  /\ npc' = "rebind"
  /\ UNCHANGED <<vars, bound, deferred, latest, conf, clash>>

\* rebind_network: sessions, retries, resolver cache and tunnel socket.
NetRebind ==
  /\ npc = "rebind"
  /\ bound' = dialer
  /\ npc' = "idle"
  /\ UNCHANGED <<vars, dialer, deferred, latest, conf, clash>>

\* Mutant: the remembered handle is the one already in use.
NetDeferOld ==
  /\ npc = "defer"
  /\ deferred' = dialer
  /\ clash' = (clash \/ \E a \in Apps : conf[a] \in {"rebind", "complete"})
  /\ npc' = "interrupt"
  /\ UNCHANGED <<vars, dialer, bound, latest, conf>>

NetDefer ==
  /\ npc = "defer"
  /\ deferred' = latest
  /\ clash' = (clash \/ \E a \in Apps : conf[a] \in {"rebind", "complete"})
  /\ npc' = "interrupt"
  /\ UNCHANGED <<vars, dialer, bound, latest, conf>>

\* continuity.interrupt(NetworkSwitch); permitted, it does nothing.
NetInterrupt ==
  /\ npc = "interrupt"
  /\ \/ /\ is_permitted(config, "NetworkSwitch")
        /\ npc' = "invalidate" /\ UNCHANGED vars
     \/ /\ Report(NetThread, "NetworkSwitch", FALSE)
        /\ npc' = "gate"
  /\ UNCHANGED <<dialer, bound, deferred, latest, conf, clash>>

NetReturned ==
  /\ npc = "gate" /\ pc[NetThread] = "idle"
  /\ npc' = "invalidate"
  /\ UNCHANGED <<vars, dialer, bound, deferred, latest, conf, clash>>

\* outbounds.network_changed() behind the hold: old sessions go, none replaces them.
NetInvalidate ==
  /\ npc = "invalidate"
  /\ bound' = 0
  /\ npc' = "idle"
  /\ UNCHANGED <<vars, dialer, deferred, latest, conf, clash>>

NetStep ==
  \/ NetCheck \/ NetSet \/ NetRebind \/ NetDefer \/ NetInterrupt \/ NetReturned
  \/ NetInvalidate

-----------------------------------------------------------------------------
(* confirm_continuity *)

ConfirmClaim(a, t) ==
  /\ conf[a] = "none"
  /\ Claim(a, t)
  /\ conf' = [conf EXCEPT ![a] = "take"]
  /\ UNCHANGED <<dialer, bound, deferred, latest, npc, clash>>

\* The lock on deferred_network is held across set_network_handle.
ConfirmTake(a) ==
  /\ conf[a] = "take"
  /\ IF deferred # 0 THEN dialer' = deferred /\ deferred' = 0
                     ELSE UNCHANGED <<dialer, deferred>>
  /\ conf' = [conf EXCEPT ![a] = "rebind"]
  /\ UNCHANGED <<vars, bound, latest, npc, clash>>

ConfirmRebind(a) ==
  /\ conf[a] = "rebind"
  /\ bound' = dialer
  /\ conf' = [conf EXCEPT ![a] = "complete"]
  /\ UNCHANGED <<vars, dialer, deferred, latest, npc, clash>>

ConfirmComplete(a) ==
  /\ conf[a] = "complete"
  /\ Complete(a)
  /\ conf' = [conf EXCEPT ![a] = "none"]
  /\ UNCHANGED <<dialer, bound, deferred, latest, npc, clash>>

ConfirmStep(a) == ConfirmTake(a) \/ ConfirmRebind(a) \/ ConfirmComplete(a)

-----------------------------------------------------------------------------
\* reload_policy installs its continuity section.
Reload ==
  /\ SetConfig
  /\ clash' = (clash \/ deferred # 0 \/ npc \in {"defer", "interrupt"})
  /\ UNCHANGED <<dialer, bound, deferred, latest, npc, conf>>

\* What the gate's threads do without the network thread or a confirmation.
GateStep ==
  /\ \/ \E r \in Reporters \ {NetThread}, i \in Reported, w \in BOOLEAN : Report(r, i, w)
     \/ \E r \in Reporters : ReporterStep(r)
     \/ \E a \in Apps : Decide(a) \/ Signal(a) \/ WakeAfter(a)
     \/ StartWatch \/ StopWatch \/ WatchStep \/ DeadlinePasses
  /\ UNCHANGED netVars

NetNext ==
  \/ NetReport \/ NetStep
  \/ \E a \in Apps : (\E t \in Tokens : ConfirmClaim(a, t)) \/ ConfirmStep(a)
  \/ Reload
  \/ GateStep

NetSpec == NetInit /\ [][NetNext]_allVars

\* Threads inside a call, a callback or a confirmation are scheduled, and time
\* passes. Nobody is obliged to report, to answer or to stop.
NetFairness ==
  /\ \A r \in Reporters : WF_allVars(ReporterStep(r) /\ UNCHANGED netVars)
  /\ \A a \in Apps : WF_allVars(ConfirmStep(a))
  /\ \A a \in Apps :
       WF_allVars((Decide(a) \/ Signal(a) \/ WakeAfter(a)) /\ UNCHANGED netVars)
  /\ WF_allVars(WatchStep /\ UNCHANGED netVars)
  /\ WF_allVars(DeadlinePasses /\ UNCHANGED netVars)

-----------------------------------------------------------------------------
(* Properties *)

\* No callback and no confirmation is under way.
Quiet == /\ npc = "idle"
         /\ \A a \in Apps : conf[a] = "none"

\* "The three are one event and are done together deliberately": when nothing is
\* in flight, outbounds, resolver and tunnel are on the network the dialer names,
\* or hold no session at all.
ReboundToDialer == Quiet => bound \in {0, dialer}

\* The handle remembered by a held switch reaches the dialer with the confirmation,
\* so open lanes run on the network the platform last named, as long as no
\* callback ran between a confirmation's take() and its completion, and no reload
\* came between the remembering and the confirmation.
OpenLanesOnLatestNetwork == Quiet /\ held = {} /\ ~clash => dialer = latest

\* Why: while no clash has happened, a remembered handle means that the policy
\* still asks, that no confirmation is past its take(), and that the lanes are held
\* as soon as the gate has been asked.
SwitchInv ==
  /\ NetTypeOK /\ latest # 0
  /\ pc[NetThread] # "idle" => npc = "gate"
  /\ pc[NetThread] = "lock" => ask[NetThread].interruption = "NetworkSwitch"
  /\ \A a \in Apps : conf[a] # "none" => apc[a] = "claimed"
  /\ bound \in {0, dialer} \/ npc = "rebind" \/ \E a \in Apps : conf[a] = "rebind"
  /\ ~clash =>
       /\ deferred # 0 \/ npc \in {"defer", "interrupt"}
            => ~is_permitted(config, "NetworkSwitch")
       /\ deferred # 0 =>
            /\ npc \notin {"set", "rebind"}
            /\ npc \notin {"check", "defer"} => deferred = latest
            /\ \A a \in Apps : conf[a] \notin {"rebind", "complete"}
            /\ npc = "interrupt" \/ pc[NetThread] = "lock" \/ held # {}
       /\ npc \notin {"check", "set", "defer"} => dialer = latest \/ deferred = latest
=============================================================================
