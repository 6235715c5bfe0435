----------------------------- MODULE Outbounds ------------------------------
(***************************************************************************)
(* The selector of a group of outbounds, and below it the registry of the  *)
(* outbounds of one generation.                                            *)
(*                                                                         *)
(* The selector of foxcore-outbound/src/selector.rs: a group of members    *)
(* with one active, moved by the application (select), by a flow whose     *)
(* member failed (failover) and by the latency probe (probe_once).         *)
(*                                                                         *)
(* selection_commit is held for the whole of select, selection, reserve    *)
(* and finish_reservation and never over an await, so each is one step.    *)
(* The revision is odd while a transition is reserved.  The continuity     *)
(* gate's permit is an answer that comes at any time or never.             *)
(***************************************************************************)
EXTENDS Integers, FiniteSets

CONSTANTS
  Count,         \* number of members
  Flows,         \* concurrent connects
  Prober,        \* the probe task
  MaxLatency,    \* measured latencies are 1..MaxLatency
  Tolerance,     \* of the probe
  MaxRevision    \* bound on the revision

ASSUME SelectorAssumption ==
  /\ Count \in Nat \ {0} /\ Prober \notin Flows
  /\ MaxLatency \in Nat /\ Tolerance \in Nat /\ MaxRevision \in Nat

VARIABLES
  active,     \* the member that carries traffic
  revision,   \* of the selection
  built,      \* members whose outbound exists
  actor       \* the flows and the probe

selectorVars == <<active, revision, built, actor>>

Members == 0..(Count - 1)
Actors == Flows \cup {Prober}
Silent == 0                         \* a member that did not answer the probe
Odd(n) == n % 2 = 1

(* start and seen are the selection an actor read, reserved the revision   *)
(* of its SelectionReservation, at the member it is at or the probe's      *)
(* winner.  overruled is kept for the properties: select ran since the     *)
(* reservation was made.                                                   *)
Idle == [pc |-> "idle", start |-> 0, seen |-> 0, reserved |-> 0, held |-> FALSE,
         at |-> 0, out |-> "none", overruled |-> FALSE]

ActorStates ==
  [pc : {"idle", "try", "measure", "ask"}, start : Members, seen : 0..MaxRevision,
   reserved : 0..(MaxRevision + 1), held : BOOLEAN, at : Members,
   out : {"none", "ok", "err"}, overruled : BOOLEAN]

SelectorTypeOK ==
  /\ active \in Members /\ revision \in 0..(MaxRevision + 1)
  /\ built \subseteq Members /\ actor \in [Actors -> ActorStates]

SelectorInit ==
  /\ active \in Members /\ revision = 0 /\ built = {}
  /\ actor = [a \in Actors |-> Idle]

-----------------------------------------------------------------------------
(* finish_reservation's check, and selection_is.                           *)
SelectionIs(start, rev) == active = start /\ revision = rev

End(a, out) == actor' = [actor EXCEPT ![a] = [Idle EXCEPT !.out = out, !.at = actor[a].at]]

(* Mutant: a reservation that is dropped stays reserved.                   *)
DropForgets(a, out) == End(a, out) /\ UNCHANGED <<active, revision>>

(* An actor that ends without a winner; a reservation it still holds is    *)
(* released by its drop, unless the selection has moved on.                *)
Drop(a, out) ==
  /\ End(a, out)
  /\ revision' = IF actor[a].held /\ SelectionIs(actor[a].start, actor[a].reserved)
                 THEN revision + 1 ELSE revision
  /\ UNCHANGED active

(* Mutant: only the parity is looked at.                                   *)
FinishAny(a, winner) ==
  IF Odd(revision)
  THEN End(a, "ok") /\ active' = winner /\ revision' = revision + 1
  ELSE End(a, "err") /\ UNCHANGED <<active, revision>>

(* SelectionReservation::finish with a winner.                             *)
Finish(a, winner) ==
  IF SelectionIs(actor[a].start, actor[a].reserved) /\ Odd(actor[a].reserved)
  THEN End(a, "ok") /\ active' = winner /\ revision' = revision + 1
  ELSE End(a, "err") /\ UNCHANGED <<active, revision>>

(* reserve: only from the selection that was read; the caller then waits   *)
(* for the continuity gate with the reservation held.                      *)
Reserve(a, at) ==
  IF SelectionIs(actor[a].start, actor[a].seen) /\ ~Odd(actor[a].seen)
  THEN /\ revision' = revision + 1 /\ UNCHANGED active
       /\ actor' = [actor EXCEPT ![a].pc = "ask", ![a].reserved = revision + 1,
                                 ![a].held = TRUE, ![a].at = at]
  ELSE Drop(a, "err")

-----------------------------------------------------------------------------
(* select: a known id is pinned, and a reserved transition is overruled.   *)
Select(m) ==
  /\ revision < MaxRevision
  /\ IF active # m \/ Odd(revision)
     THEN /\ active' = m /\ revision' = revision + (IF Odd(revision) THEN 1 ELSE 2)
          /\ actor' = [a \in Actors |-> [actor[a] EXCEPT !.overruled = actor[a].held]]
     ELSE UNCHANGED <<active, revision, actor>>
  /\ UNCHANGED built

(* failover's entry: nothing starts while a transition is reserved.        *)
Begin(f) ==
  /\ actor[f].pc = "idle" /\ revision < MaxRevision
  /\ IF Odd(revision) THEN Drop(f, "err")
     ELSE /\ actor' = [actor EXCEPT ![f] = [Idle EXCEPT !.pc = "try", !.start = active,
                                                        !.seen = revision, !.at = active]]
          /\ UNCHANGED <<active, revision>>
  /\ UNCHANGED built

(* member: built on first use; a failed build leaves the cell empty.       *)
Build(m) == built' \in {built, built \cup {m}}

(* Mutant: a connect through the member it started with always counts.     *)
ConnectedAnyway(f) ==
  /\ actor[f].pc = "try" /\ built' = built \cup {actor[f].at}
  /\ IF actor[f].at # actor[f].start THEN Finish(f, actor[f].at) ELSE Drop(f, "ok")

(* The attempt at a member succeeds: the first one counts while the        *)
(* selection is the one it began with, another is promoted.                *)
Connected(f) ==
  /\ actor[f].pc = "try" /\ built' = built \cup {actor[f].at}
  /\ IF actor[f].at # actor[f].start THEN Finish(f, actor[f].at)
     ELSE Drop(f, IF SelectionIs(actor[f].start, actor[f].seen) THEN "ok" ELSE "err")

(* The attempt fails or meets member_timeout: the first failure reserves   *)
(* the transition and asks, later ones move on, the last one ends it.      *)
Failed(f) ==
  LET next == (actor[f].at + 1) % Count
  IN  /\ actor[f].pc = "try" /\ Build(actor[f].at)
      /\ IF next = actor[f].start THEN Drop(f, "err")
         ELSE IF actor[f].at = actor[f].start THEN Reserve(f, next)
         ELSE actor' = [actor EXCEPT ![f].at = next] /\ UNCHANGED <<active, revision>>

(* The permit of a failover; a selection that changed meanwhile ends it.   *)
Permitted(f) ==
  /\ f \in Flows /\ actor[f].pc = "ask"
  /\ IF SelectionIs(actor[f].start, actor[f].reserved)
     THEN actor' = [actor EXCEPT ![f].pc = "try"] /\ UNCHANGED <<active, revision>>
     ELSE Drop(f, "err")
  /\ UNCHANGED built

(* The permit is refused or stale, or the future is dropped at an await.   *)
Abandoned(a) == actor[a].pc # "idle" /\ Drop(a, "err") /\ UNCHANGED built

-----------------------------------------------------------------------------
(* pick_winner: another member than the active one, by a margin if the     *)
(* active one answered.  A set that may be empty.                          *)
PickWinner(start, latency) ==
  LET answered == {m \in Members : latency[m] # Silent}
      best == {m \in answered : \A n \in answered : latency[m] < latency[n] \/
                                  (latency[m] = latency[n] /\ m <= n)}
  IN  {m \in best \ {start} : latency[start] # Silent => latency[m] + Tolerance < latency[start]}

(* probe_once: the selection is read, every member is measured, and a      *)
(* winner reserves the transition and asks.                                *)
ProbeBegin ==
  /\ actor[Prober].pc = "idle" /\ revision < MaxRevision /\ ~Odd(revision)
  /\ actor' = [actor EXCEPT ![Prober] = [Idle EXCEPT !.pc = "measure", !.start = active, !.seen = revision]]
  /\ UNCHANGED <<active, revision, built>>

ProbeMeasured(latency) ==
  /\ actor[Prober].pc = "measure"
  /\ LET winner == PickWinner(actor[Prober].start, latency)
     IN  \/ winner = {} /\ Drop(Prober, "none")
         \/ \E m \in winner : Reserve(Prober, m)
  /\ \E silent \in SUBSET {m \in Members : latency[m] = Silent} :
       built' = built \cup (Members \ silent)

ProbePermitted ==
  /\ actor[Prober].pc = "ask" /\ Finish(Prober, actor[Prober].at) /\ UNCHANGED built

SelectorNext ==
  \/ \E m \in Members : Select(m)
  \/ \E f \in Flows : Begin(f) \/ Connected(f) \/ Failed(f) \/ Permitted(f)
  \/ \E a \in Actors : Abandoned(a)
  \/ ProbeBegin \/ ProbePermitted
  \/ \E latency \in [Members -> 0..MaxLatency] : ProbeMeasured(latency)

SelectorSpec == SelectorInit /\ [][SelectorNext]_selectorVars

-----------------------------------------------------------------------------
(* While the revision is odd every connect is refused with "selector       *)
(* transition is already pending", so it is odd only while some actor      *)
(* still holds the reservation that will end it, and never two of them.    *)
ReservedHasOwner ==
  LET owners == {a \in Actors : actor[a].held /\ SelectionIs(actor[a].start, actor[a].reserved)}
  IN  Cardinality(owners) = revision % 2

(* A transition that select overruled never moves the selection, whatever  *)
(* was reserved after it: the member the application picked stays.         *)
SelectionSticks ==
  [][\A a \in Actors :
       actor[a].overruled /\ actor'[a].pc = "idle" => active' = active]_selectorVars

(* A connect that returns a stream went through the member that is active  *)
(* when it returns, so no flow starts on a node that was moved away from.  *)
OkOnSelection ==
  [][\A f \in Flows :
       actor[f].pc = "try" /\ actor'[f].out = "ok" /\ actor'[f].pc = "idle"
         => active' = actor[f].at]_selectorVars

-----------------------------------------------------------------------------
(***************************************************************************)
(* The outbound registry of one generation: how its entries are built at   *)
(* start (foxcore-runtime/src/registry.rs), what stands in for one that    *)
(* could not be built (foxcore-outbound/src/deferred.rs), and the retry    *)
(* passes that the application's reports start (control.rs).               *)
(*                                                                         *)
(* Of the reasons of a failure the model keeps "timeout", which may be     *)
(* retried, "config", which may not, and "disabled".  A pass runs its      *)
(* checks and its builds as tasks of their own, so passes overlap.         *)
(***************************************************************************)

CONSTANTS
  Entries,       \* registry ids
  Primary,       \* the default outbound, which the gates never suppress
  Overlays,      \* entries of kind Tor or I2P, each with its gate
  Callers,       \* application threads
  Passes,        \* retry passes
  MaxAttempts    \* bound on the builds of an entry

ASSUME LanesAssumption ==
  /\ Primary \in Entries /\ Overlays \subseteq Entries
  /\ MaxAttempts \in Nat \ {0}

VARIABLES
  stage,     \* "build", "run" or "failed"
  packetTunnel,    \* the primary's profile is an L3 packet tunnel
  gates,     \* overlays that the policy has on
  entry,     \* the registry
  caller,    \* "idle" or "spawn"
  pass,      \* what each pass does with each entry
  allowed,   \* the gates each pass was given
  view       \* the last event about each entry

laneVars == <<stage, packetTunnel, gates, entry, caller, pass, allowed, view>>

Reasons == {"timeout", "config", "disabled"}
Retryable(reason) == reason = "timeout"

(* form is "building" until create_outbound_registry has joined the task,  *)
(* then "plain" for an outbound that was built, "deferred" for a           *)
(* DeferredOutbound and "standin" for the direct outbound that takes the   *)
(* default's place beside a packet tunnel; sink says that the self-repair  *)
(* sink has been handed to what the entry holds.                           *)
Unbuilt == [form |-> "building", up |-> FALSE, reason |-> "disabled", attempts |-> 0,
            building |-> FALSE, sink |-> FALSE]
EntryStates ==
  [form : {"building", "plain", "deferred", "standin"}, up : BOOLEAN, reason : Reasons,
   attempts : 0..MaxAttempts, building : BOOLEAN, sink : BOOLEAN]

LanesInit ==
  /\ stage = "build" /\ gates \in SUBSET Overlays /\ packetTunnel \in BOOLEAN
  /\ packetTunnel => Primary \notin Overlays
  /\ entry = [e \in Entries |-> Unbuilt] /\ caller = [c \in Callers |-> "idle"]
  /\ pass = [p \in Passes |-> [e \in Entries |-> "none"]]
  /\ allowed = [p \in Passes |-> {}] /\ view = [e \in Entries |-> "quiet"]

-----------------------------------------------------------------------------
(* create_outbound_registry: a named overlay whose gate is off is filed    *)
(* without a build and without an event.                                   *)
GatedOff(e) ==
  /\ stage = "build" /\ entry[e].form = "building" /\ e # Primary /\ e \in Overlays \ gates
  /\ entry' = [entry EXCEPT ![e].form = "deferred"]
  /\ UNCHANGED <<stage, packetTunnel, gates, caller, pass, allowed, view>>

(* The primary is always built; a packet tunnel after all the others.      *)
Builds(e) ==
  /\ stage = "build" /\ entry[e].form = "building"
  /\ IF e # Primary THEN e \notin Overlays \ gates
     ELSE packetTunnel => \A n \in Entries \ {e} : entry[n].form # "building"

(* The default that the registry holds is marked when it only stands in    *)
(* for a tunnel (with_packet_tunnel_primary).                              *)
JoinedOk(e) ==
  /\ Builds(e)
  /\ entry' = [entry EXCEPT ![e].form = IF packetTunnel /\ e = Primary THEN "standin" ELSE "plain",
                            ![e].up = TRUE, ![e].attempts = 1]
  /\ UNCHANGED <<stage, packetTunnel, gates, caller, pass, allowed, view>>

(* unavailable_outbound: the failure is filed and published.               *)
JoinedErr(e, reason) ==
  /\ Builds(e) /\ reason # "disabled"
  /\ entry' = [entry EXCEPT ![e].form = "deferred", ![e].reason = reason, ![e].attempts = 1]
  /\ view' = [view EXCEPT ![e] = reason]
  /\ UNCHANGED <<stage, packetTunnel, gates, caller, pass, allowed>>

(* A build task that panicked takes its id with it: the start fails.  A    *)
(* packet tunnel is not built by a task.                                   *)
JoinedPanic(e) ==
  /\ Builds(e) /\ ~(packetTunnel /\ e = Primary) /\ stage' = "failed"
  /\ UNCHANGED <<packetTunnel, gates, entry, caller, pass, allowed, view>>

(* Every task joined: the sink goes to every entry, built or not.          *)
Registered ==
  /\ stage = "build" /\ \A e \in Entries : entry[e].form # "building"
  /\ stage' = "run"
  /\ entry' = [e \in Entries |-> [entry[e] EXCEPT !.sink = TRUE]]
  /\ UNCHANGED <<packetTunnel, gates, caller, pass, allowed, view>>

-----------------------------------------------------------------------------
(* is_available, is_gated_off, is_retryable and OverlayGates::may_build.   *)
IsAvailable(e) == entry[e].up
IsGatedOff(e) == ~IsAvailable(e) /\ entry[e].reason = "disabled"
IsRetryable(e) == ~IsAvailable(e) /\ Retryable(entry[e].reason)
MayBuild(e, on) == IF IsGatedOff(e) THEN e \in Overlays => e \in on ELSE IsRetryable(e)
Deferred == {e \in Entries : entry[e].form = "deferred"}

(* reload_policy swaps the policy, and with it the gates; like a network   *)
(* change and the application's own call it then starts a pass.            *)
Report(c, on) ==
  /\ stage = "run" /\ caller[c] = "idle"
  /\ gates' = on /\ caller' = [caller EXCEPT ![c] = "spawn"]
  /\ UNCHANGED <<stage, packetTunnel, entry, pass, allowed, view>>

(* spawn_outbound_retry: the gates are read here; no pass starts when no   *)
(* entry may be built.                                                     *)
SpawnOutboundRetry(c) ==
  /\ caller[c] = "spawn" /\ caller' = [caller EXCEPT ![c] = "idle"]
  /\ \/ /\ \A e \in Deferred : ~MayBuild(e, gates)
        /\ UNCHANGED <<pass, allowed>>
     \/ /\ \E e \in Deferred : MayBuild(e, gates)
        /\ \E p \in Passes :
             /\ \A e \in Entries : pass[p][e] = "none"
             /\ pass' = [pass EXCEPT ![p] = [e \in Entries |-> IF e \in Deferred THEN "look" ELSE "none"]]
             /\ allowed' = [allowed EXCEPT ![p] = gates]
  /\ UNCHANGED <<stage, packetTunnel, gates, entry, view>>

At(p, e, step) == pass' = [pass EXCEPT ![p][e] = step]

(* retry_deferred_outbounds, for one entry: may_build, and the first half  *)
(* of begin_attempt.                                                       *)
Look(p, e) ==
  /\ pass[p][e] = "look"
  /\ At(p, e, IF MayBuild(e, allowed[p]) /\ ~IsAvailable(e) THEN "claim" ELSE "none")
  /\ UNCHANGED <<stage, packetTunnel, gates, entry, caller, allowed, view>>

(* Mutant: the claim is a load and a store.                                *)
ClaimTorn(p, e) ==
  /\ pass[p][e] = "claim" /\ entry[e].attempts < MaxAttempts
  /\ At(p, e, "build") /\ entry' = [entry EXCEPT ![e].building = TRUE]
  /\ UNCHANGED <<stage, packetTunnel, gates, caller, allowed, view>>

(* begin_attempt's compare_exchange.                                       *)
Claim(p, e) ==
  /\ pass[p][e] = "claim" /\ entry[e].attempts < MaxAttempts
  /\ IF entry[e].building THEN At(p, e, "none") /\ UNCHANGED entry
     ELSE At(p, e, "build") /\ entry' = [entry EXCEPT ![e].building = TRUE]
  /\ UNCHANGED <<stage, packetTunnel, gates, caller, allowed, view>>

(* resolve: the sink, the count, the outbound, and the claim released; the *)
(* event follows.  A packet tunnel is no proxy outbound: its build is      *)
(* refused here.                                                           *)
Resolve(p, e) ==
  /\ pass[p][e] = "build" /\ At(p, e, "up") /\ ~(packetTunnel /\ e = Primary)
  /\ entry' = [entry EXCEPT ![e].up = TRUE, ![e].attempts = @ + 1, ![e].building = FALSE]
  /\ UNCHANGED <<stage, packetTunnel, gates, caller, allowed, view>>

(* record_failure; only a different reason is news.                        *)
RecordFailure(p, e, reason) ==
  /\ pass[p][e] = "build" /\ reason # "disabled" /\ (packetTunnel /\ e = Primary => reason = "config")
  /\ At(p, e, IF entry[e].reason # reason THEN reason ELSE "none")
  /\ entry' = [entry EXCEPT ![e].reason = reason, ![e].attempts = @ + 1, ![e].building = FALSE]
  /\ UNCHANGED <<stage, packetTunnel, gates, caller, allowed, view>>

(* The attempt panicked: the entry stays claimed.                          *)
AttemptPanic(p, e) ==
  /\ pass[p][e] = "build" /\ At(p, e, "none")
  /\ UNCHANGED <<stage, packetTunnel, gates, entry, caller, allowed, view>>

(* OutboundRestored, or OutboundUnavailable with the reason it recorded.   *)
Publish(p, e) ==
  /\ pass[p][e] \in {"up", "timeout", "config"} /\ At(p, e, "none")
  /\ view' = [view EXCEPT ![e] = pass[p][e]]
  /\ UNCHANGED <<stage, packetTunnel, gates, entry, caller, allowed>>

-----------------------------------------------------------------------------
(* What the consumers of the registry are handed for an entry, in a set    *)
(* that is empty when they are refused: flows (select_route), the DNS      *)
(* interceptor (selected_outbound) and the LAN proxy (resolve).            *)
StandIn == entry[Primary].form = "standin"
SelectRoute(e) ==
  {n \in {e} : /\ ~(StandIn /\ e = Primary) /\ e \notin Overlays \ gates
               /\ entry[e].form = "deferred" => IsAvailable(e)}
SelectedOutbound(e) == {n \in {e} : ~(StandIn /\ e = Primary) /\ e \notin Overlays \ gates}

(* Mutant: the stand-in is handed out as the primary.                      *)
LanResolveAny(e) == {n \in {e} : e # Primary => e \in Overlays \cap gates}
LanResolve(e) == {n \in {e} : IF e = Primary THEN ~StandIn ELSE e \in Overlays \cap gates}

(* Outbound::connect_stream: a deferred entry carries nothing until it is  *)
(* up.                                                                     *)
Carriers ==
  {e \in UNION {SelectRoute(n) \cup SelectedOutbound(n) \cup LanResolve(n) : n \in Entries} : IsAvailable(e)}

LanesNext ==
  \/ \E e \in Entries : GatedOff(e) \/ JoinedOk(e) \/ JoinedPanic(e)
  \/ \E e \in Entries, reason \in Reasons : JoinedErr(e, reason)
  \/ Registered
  \/ \E c \in Callers, on \in SUBSET Overlays : Report(c, on)
  \/ \E c \in Callers : SpawnOutboundRetry(c)
  \/ \E p \in Passes, e \in Entries : Look(p, e) \/ Claim(p, e) \/ Resolve(p, e) \/ AttemptPanic(p, e)
                                      \/ Publish(p, e)
  \/ \E p \in Passes, e \in Entries, reason \in Reasons : RecordFailure(p, e, reason)

LanesSpec == LanesInit /\ [][LanesNext]_laneVars

-----------------------------------------------------------------------------
(* "One attempt per entry at a time, latched inside the entry itself":     *)
(* however many reports arrive together, no entry is being built twice,    *)
(* and whatever is being built has heard of the self-repair sink.          *)
OneBuildAtATime ==
  \A e \in Entries :
    LET builders == {p \in Passes : pass[p][e] = "build"}
    IN  /\ Cardinality(builders) <= 1
        /\ builders # {} => entry[e].building /\ entry[e].sink

(* registry.rs: "`gates` is read live so network changes cannot rebuild a  *)
(* disabled overlay".  No build of a named overlay begins that the policy  *)
(* had off when the pass was given its gates and has off still.            *)
DisabledStaysDown ==
  [][\A p \in Passes, e \in Overlays \ {Primary} :
       pass[p][e] = "claim" /\ pass'[p][e] = "build" => e \in gates \/ e \in allowed[p]]_laneVars

(* "Without that refusal the placeholder would be a clearnet leak":        *)
(* whatever the primary is and however the builds went, no consumer is     *)
(* handed the direct outbound that stands in for a packet tunnel, and      *)
(* nothing but an outbound that was really built carries traffic.          *)
NothingOnStandIn ==
  stage = "run" =>
    \A e \in Carriers : entry[e].form # "standin" /\ entry[e].attempts > 0 /\ entry[e].sink

(* The registry of a generation: one build of an entry at a time, and      *)
(* nothing carried by what was not built (begin_attempt, select_route).    *)
LanesSound == OneBuildAtATime /\ NothingOnStandIn
=============================================================================
