---------------------------- MODULE NativeEngine ----------------------------
(***************************************************************************)
(* The native boundary of foxcore-android over foxcore-runtime: the handle   *)
(* registry, starts with and without a retained DNS continuation, stops,     *)
(* force kills and the reapers of stops that timed out, the tables of        *)
(* sub-handles, and the listeners a running engine installs.  Any number of  *)
(* threads may be inside a call; a call takes one step per lock it holds.    *)
(* RuntimeWorker has the details of one worker's stop and abandon.           *)
(***************************************************************************)
EXTENDS Naturals, FiniteSets

CONSTANTS Engines,        \* generations, 1..n in the order of their starts
          Threads,        \* threads of the application inside a native call
          Tokens,         \* continuation tokens, 1..n
          Names, Secrets, \* names and credentials of loopback inbounds
          MAX_LOOPBACK_INBOUNDS

VARIABLES registry,    \* engines whose handle resolves
          active,      \* ANDROID_WORKER_ACTIVE: the engine holding it, or 0
          eng,         \* engine -> its runtime and worker
          started,     \* engines ever started
          pool,        \* DNS_CONTINUATIONS: at most one [token, owner]
          next_token,
          reapers,     \* STOP_REAPERS
          subs,        \* LEASES, SHARES and PUBLICATIONS: engines with an entry
          call,        \* thread -> the call it is in
          killed       \* history: owners whose continuations a force kill revoked

nativeVars == <<registry, active, eng, started, pool, next_token, reapers, subs, call, killed>>

Return == [op |-> "none"]
Unborn == [worker |-> "none", ready |-> FALSE, cancel |-> FALSE, thread |-> "none",
           fence |-> "running", available |-> FALSE, lan |-> FALSE, inbounds |-> {}, names |-> {}]

At(t, op, pc) == call[t].op = op /\ call[t].pc = pc
Goto(t, pc) == call' = [call EXCEPT ![t].pc = pc]
Done(t) == call' = [call EXCEPT ![t] = Return]

Alive(e) == eng[e].worker \in {"starting", "running"}

(* Something still refers to the engine's runtime. *)
Held(e) == \/ e \in registry \cup reapers
           \/ \E t \in Threads : call[t].op # "none" /\ call[t].e = e /\ call[t].pc # "unknown"

-----------------------------------------------------------------------------
(* The worker thread. *)

WorkerReady(e) ==
    /\ eng[e].worker = "starting"
    /\ eng' = [eng EXCEPT ![e].worker = "running", ![e].ready = TRUE,
                          ![e].available = ~eng[e].cancel]
    /\ UNCHANGED <<registry, active, started, pool, next_token, reapers, subs, call, killed>>

(* It fails to initialise, its engine returns, or it obeys the cancellation; *)
(* the process lease and the availability go with it.                        *)
WorkerEnds(e) ==
    /\ Alive(e)
    /\ eng' = [eng EXCEPT ![e].worker = "exited", ![e].available = FALSE]
    /\ active' = 0
    /\ UNCHANGED <<registry, started, pool, next_token, reapers, subs, call, killed>>

-----------------------------------------------------------------------------
(* What the engine does to itself when it is told to go.                     *)

(* Every way out closes the listeners that are kept, then withdraws the      *)
(* availability and cancels the worker.                                      *)
Closed(r) == [r EXCEPT !.lan = FALSE, !.inbounds = {},
                       !.names = @ \ {i.name : i \in r.inbounds},
                       !.available = FALSE, !.cancel = TRUE]

(* stop and stop_quiet up to the wait.                                       *)
Requested(r) == [Closed(r) EXCEPT !.fence = IF @ = "running" THEN "stopping" ELSE @]

(* RuntimeWorker::stop after the wait: the join moves the fence unless it    *)
(* was revoked; a worker taken by a force kill is only seen to be gone.      *)
Joined(r) == [r EXCEPT !.thread = IF @ = "runtime" THEN "joined" ELSE @,
                       !.fence = IF r.thread = "runtime" /\ @ = "stopping" THEN "stopped" ELSE @]

(* force_kill: RuntimeWorker::abandon revokes the fence and quarantines a    *)
(* worker that has not ended.                                                *)
Abandoned(r) ==
    [Closed(r) EXCEPT !.fence = "revoked",
                      !.thread = IF @ # "runtime" THEN @
                                 ELSE IF r.worker = "exited" THEN "joined" ELSE "quarantined"]

(* Drop for CoreRuntime, when nothing refers to it any more.                 *)
DropRuntime(e) ==
    /\ ~Held(e) /\ (eng[e].thread = "runtime" \/ eng[e].lan \/ eng[e].inbounds # {})
    /\ eng' = [eng EXCEPT ![e] = IF @.thread # "runtime" THEN Closed(@)
                                 ELSE IF @.worker = "exited" THEN Joined(Requested(@))
                                 ELSE Abandoned(@)]
    /\ UNCHANGED <<registry, active, started, pool, next_token, reapers, subs, call, killed>>

-----------------------------------------------------------------------------
(* Starts. *)

ReadyToImport(prev) == prev = 0 \/ eng[prev].fence = "stopped"

(* borrow_dns_continuation: the token resolves and its owner was joined. *)
borrow_dns_continuation(t, token) ==
    /\ call[t].op = "none"
    /\ \E lease \in pool :
          /\ lease.token = token /\ ReadyToImport(lease.owner)
          /\ call' = [call EXCEPT ![t] = [op |-> "start", pc |-> "spawn", e |-> 0,
                                          token |-> token, prev |-> lease.owner]]
    /\ UNCHANGED <<registry, active, eng, started, pool, next_token, reapers, subs, killed>>

native_start(t) ==
    /\ call[t].op = "none"
    /\ call' = [call EXCEPT ![t] = [op |-> "start", pc |-> "spawn", e |-> 0, token |-> 0, prev |-> 0]]
    /\ UNCHANGED <<registry, active, eng, started, pool, next_token, reapers, subs, killed>>

(* Quarantined workers that ended are joined, the process lease is taken and *)
(* the worker spawned; without the lease, or without the predecessor's       *)
(* fence, the start is refused.                                              *)
Reaped == [e \in Engines |->
    IF eng[e].thread = "quarantined" /\ eng[e].worker = "exited"
    THEN [eng[e] EXCEPT !.thread = "joined"] ELSE eng[e]]

(* Mutant: a force kill is taken to have freed the process lease. *)
spawn_after_kill(t) ==
    /\ At(t, "start", "spawn")
    /\ IF (active = 0 \/ eng[active].cancel) /\ ReadyToImport(call[t].prev)
       THEN \E e \in Engines \ started :
              /\ \A f \in Engines \ started : e <= f
              /\ started' = started \cup {e} /\ active' = e
              /\ eng' = [Reaped EXCEPT ![e] = [Unborn EXCEPT !.worker = "starting",
                                                             !.thread = "runtime"]]
              /\ call' = [call EXCEPT ![t].pc = "wait", ![t].e = e]
       ELSE Done(t) /\ UNCHANGED <<started, active, eng>>
    /\ UNCHANGED <<registry, pool, next_token, reapers, subs, killed>>
spawn(t) ==
    /\ At(t, "start", "spawn")
    /\ IF active = 0 /\ ReadyToImport(call[t].prev)
       THEN \E e \in Engines \ started :
              /\ \A f \in Engines \ started : e <= f
              /\ started' = started \cup {e} /\ active' = e
              /\ eng' = [Reaped EXCEPT ![e] = [Unborn EXCEPT !.worker = "starting",
                                                             !.thread = "runtime"]]
              /\ call' = [call EXCEPT ![t].pc = "wait", ![t].e = e]
       ELSE Done(t) /\ UNCHANGED <<started, active, eng>>
    /\ UNCHANGED <<registry, pool, next_token, reapers, subs, killed>>

(* The caller waits for the worker to say it is up: it did, it ended first,  *)
(* or the startup budget is spent.  The predecessor is looked at again.      *)
await_ready(t) ==
    /\ At(t, "start", "wait")
    /\ LET e == call[t].e IN
       \/ /\ eng[e].ready
          /\ Goto(t, IF ReadyToImport(call[t].prev) THEN "publish" ELSE "retire")
          /\ UNCHANGED eng
       \/ /\ ~eng[e].ready /\ eng[e].worker = "exited"
          /\ eng' = [eng EXCEPT ![e].thread = "joined"]
          /\ Done(t)
       \/ /\ ~eng[e].ready
          /\ eng' = [eng EXCEPT ![e].cancel = TRUE]
          /\ Goto(t, "abort")
    /\ UNCHANGED <<registry, active, started, pool, next_token, reapers, subs, killed>>

abort_start(t) ==
    /\ At(t, "start", "abort")
    /\ eng' = [eng EXCEPT ![call[t].e].thread =
                  IF eng[call[t].e].worker = "exited" THEN "joined" ELSE "quarantined"]
    /\ Done(t)
    /\ UNCHANGED <<registry, active, started, pool, next_token, reapers, subs, killed>>

(* The handle becomes visible.  With a continuation only if, under the       *)
(* pool's lock, the token still stands and the predecessor is still joined.  *)
(* Mutant: what was borrowed is good for the whole start. *)
commit_borrowed(t) ==
    /\ At(t, "start", "publish")
    /\ registry' = registry \cup {call[t].e} /\ Done(t)
    /\ UNCHANGED <<active, eng, started, pool, next_token, reapers, subs, killed>>
commit_or_retire(t) ==
    /\ At(t, "start", "publish")
    /\ IF \/ call[t].token = 0
          \/ /\ \E lease \in pool : lease.token = call[t].token
             /\ ReadyToImport(call[t].prev)
       THEN registry' = registry \cup {call[t].e} /\ Done(t)
       ELSE Goto(t, "retire") /\ UNCHANGED registry
    /\ UNCHANGED <<active, eng, started, pool, next_token, reapers, subs, killed>>

(* cooperative_retire and retire_revoked_successor: a stop, and a force kill *)
(* if that times out.                                                        *)
cooperative_retire(t) ==
    /\ \/ /\ At(t, "start", "retire")
          /\ eng' = [eng EXCEPT ![call[t].e] = Requested(@)]
          /\ Goto(t, "retiring")
       \/ /\ At(t, "start", "retiring")
          /\ eng' = [eng EXCEPT ![call[t].e] = IF @.worker = "exited" THEN Joined(@) ELSE Abandoned(@)]
          /\ Done(t)
    /\ UNCHANGED <<registry, active, started, pool, next_token, reapers, subs, killed>>

-----------------------------------------------------------------------------
(* Stops. *)

Enter(t, op, pc, e) ==
    /\ call[t].op = "none"
    /\ call' = [call EXCEPT ![t] = [op |-> op, pc |-> pc, e |-> e, token |-> 0, prev |-> 0]]

nativeStop(t, e) ==
    /\ e \in registry
    /\ Enter(t, "stop", "release", e)
    /\ UNCHANGED <<registry, active, eng, started, pool, next_token, reapers, subs, killed>>

(* The handle goes first; then the continuations it owns, even for a handle  *)
(* that is not there any more.                                               *)
nativeForceKill(t, e) ==
    /\ e \in started
    /\ Enter(t, "kill", IF e \in registry THEN "revoke" ELSE "unknown", e)
    /\ registry' = registry \ {e}
    /\ UNCHANGED <<active, eng, started, pool, next_token, reapers, subs, killed>>

revoke_dns_continuations(t) ==
    /\ call[t].op = "kill" /\ call[t].pc \in {"revoke", "unknown"}
    /\ LET e == call[t].e
           mine == {lease \in pool : lease.owner = e}
       IN  /\ pool' = pool \ mine
           /\ eng' = IF mine = {} THEN eng ELSE [eng EXCEPT ![e].fence = "revoked"]
           /\ killed' = IF mine = {} THEN killed ELSE killed \cup {e}
    /\ IF call[t].pc = "revoke" THEN Goto(t, "release") ELSE Done(t)
    /\ UNCHANGED <<registry, active, started, next_token, reapers, subs>>

release_engine_handles(t) ==
    /\ call[t].op \in {"stop", "kill"} /\ call[t].pc = "release"
    /\ subs' = subs \ {call[t].e}
    /\ Goto(t, "request")
    /\ UNCHANGED <<registry, active, eng, started, pool, next_token, reapers, killed>>

stop_requested(t) ==
    /\ At(t, "stop", "request")
    /\ eng' = [eng EXCEPT ![call[t].e] = Requested(@)]
    /\ Goto(t, "await")
    /\ UNCHANGED <<registry, active, started, pool, next_token, reapers, subs, killed>>

(* The worker was joined, or the wait timed out and a reaper, one per        *)
(* handle, goes on with it.                                                  *)
finish_stop(t) ==
    /\ At(t, "stop", "await")
    /\ LET e == call[t].e IN
       IF eng[e].worker = "exited"
       THEN /\ eng' = [eng EXCEPT ![e] = Joined(@)]
            /\ registry' = registry \ {e}
            /\ UNCHANGED reapers
       ELSE reapers' = reapers \cup {e} /\ UNCHANGED <<eng, registry>>
    /\ Done(t)
    /\ UNCHANGED <<active, started, pool, next_token, subs, killed>>

(* The reaper's last lap: the worker has ended, or STOP_REAP_ATTEMPTS are    *)
(* spent.  (That its thread can be spawned is taken for granted.)            *)
(* Mutant: the reaper goes on until the worker ends. *)
stop_reaper_unbounded(e) ==
    /\ e \in reapers /\ eng[e].worker = "exited"
    /\ eng' = [eng EXCEPT ![e] = Joined(Requested(@))]
    /\ registry' = registry \ {e} /\ reapers' = reapers \ {e}
    /\ UNCHANGED <<active, started, pool, next_token, subs, call, killed>>
stop_reaper(e) ==
    /\ e \in reapers
    /\ eng' = [eng EXCEPT ![e] = IF @.worker = "exited" THEN Joined(Requested(@)) ELSE Requested(@)]
    /\ registry' = registry \ {e} /\ reapers' = reapers \ {e}
    /\ UNCHANGED <<active, started, pool, next_token, subs, call, killed>>

force_kill(t) ==
    /\ At(t, "kill", "request")
    /\ eng' = [eng EXCEPT ![call[t].e] = Abandoned(@)]
    /\ Done(t)
    /\ UNCHANGED <<registry, active, started, pool, next_token, reapers, subs, killed>>

-----------------------------------------------------------------------------
(* Continuations, sub-handles and listeners of a running engine.             *)

nativeRetainDnsContinuation(t, e) ==
    /\ \/ /\ e \in registry
          /\ Enter(t, "retain", "retain", e)
          /\ UNCHANGED <<pool, next_token>>
       \/ /\ At(t, "retain", "retain") /\ call[t].e = e
          /\ IF e \in registry /\ pool = {} /\ next_token \in Tokens
             THEN /\ pool' = {[token |-> next_token, owner |-> e]}
                  /\ next_token' = next_token + 1
             ELSE UNCHANGED <<pool, next_token>>
          /\ Done(t)
    /\ UNCHANGED <<registry, active, eng, started, reapers, subs, killed>>

nativeReleaseDnsContinuation(token) ==
    /\ \E lease \in pool : lease.token = token
    /\ pool' = {}
    /\ UNCHANGED <<registry, active, eng, started, next_token, reapers, subs, call, killed>>

(* A lease, a share or a publication: made on the engine, then entered in    *)
(* its table.                                                                *)
nativeAcquireLease(t, e) ==
    /\ \/ e \in registry /\ Enter(t, "sub", "acquire", e) /\ UNCHANGED subs
       \/ /\ At(t, "sub", "acquire") /\ call[t].e = e
          /\ IF eng[e].available THEN Goto(t, "insert") ELSE Done(t)
          /\ UNCHANGED subs
       \/ /\ At(t, "sub", "insert") /\ call[t].e = e
          /\ subs' = subs \cup {e} /\ Done(t)
    /\ UNCHANGED <<registry, active, eng, started, pool, next_token, reapers, killed>>

(* install_lan_proxy: the old one is closed, the new one bound while the     *)
(* engine is available, and kept; storing it closes whatever was kept before.*)
install_lan_proxy(t, e) ==
    /\ \/ e \in registry /\ Enter(t, "lan", "close", e) /\ UNCHANGED eng
       \/ /\ At(t, "lan", "close") /\ call[t].e = e
          /\ eng' = [eng EXCEPT ![e].lan = FALSE]
          /\ Goto(t, "bind")
       \/ /\ At(t, "lan", "bind") /\ call[t].e = e
          /\ IF eng[e].available THEN Goto(t, "store") ELSE Done(t)
          /\ UNCHANGED eng
       \/ /\ At(t, "lan", "store") /\ call[t].e = e
          /\ eng' = [eng EXCEPT ![e].lan = TRUE]
          /\ Done(t)
    /\ UNCHANGED <<registry, active, started, pool, next_token, reapers, subs, killed>>

(* install_loopback_inbound: the name, the credential and the number of      *)
(* inbounds are checked under the list's lock; then, without it, the         *)
(* component manager starts the listener, which refuses a taken name, and    *)
(* the inbound is added to the list.                                         *)
install_loopback_inbound(t, e, name, secret) ==
    /\ \/ /\ e \in registry /\ call[t].op = "none"
          /\ call' = [call EXCEPT ![t] = [op |-> "inbound", pc |-> "check", e |-> e,
                                          token |-> name, prev |-> secret]]
          /\ UNCHANGED eng
       \/ /\ At(t, "inbound", "check")
          /\ call[t].e = e /\ call[t].token = name /\ call[t].prev = secret
          /\ IF /\ \A i \in eng[e].inbounds : i.name # name /\ i.secret # secret
                /\ Cardinality(eng[e].inbounds) < MAX_LOOPBACK_INBOUNDS
             THEN Goto(t, "start") ELSE Done(t)
          /\ UNCHANGED eng
       \/ /\ At(t, "inbound", "start")
          /\ call[t].e = e /\ call[t].token = name /\ call[t].prev = secret
          /\ IF eng[e].available /\ name \notin eng[e].names
             THEN Goto(t, "push") /\ eng' = [eng EXCEPT ![e].names = @ \cup {name}]
             ELSE Done(t) /\ UNCHANGED eng
       \/ /\ At(t, "inbound", "push")
          /\ call[t].e = e /\ call[t].token = name /\ call[t].prev = secret
          /\ eng' = [eng EXCEPT ![e].inbounds = @ \cup {[name |-> name, secret |-> secret]}]
          /\ Done(t)
    /\ UNCHANGED <<registry, active, started, pool, next_token, reapers, subs, killed>>

remove_loopback_inbound(e, name) ==
    /\ e \in registry
    /\ \E i \in eng[e].inbounds :
          /\ i.name = name
          /\ eng' = [eng EXCEPT ![e].inbounds = @ \ {i}, ![e].names = @ \ {name}]
    /\ UNCHANGED <<registry, active, started, pool, next_token, reapers, subs, call, killed>>

-----------------------------------------------------------------------------
NativeInit ==
    /\ registry = {} /\ active = 0 /\ started = {} /\ pool = {} /\ next_token = 1
    /\ eng = [e \in Engines |-> Unborn] /\ reapers = {} /\ subs = {} /\ killed = {}
    /\ call = [t \in Threads |-> Return]

(* A thread inside a call goes on with it. *)
Proceed(t) ==
    \/ spawn(t) \/ await_ready(t) \/ abort_start(t) \/ commit_or_retire(t)
    \/ cooperative_retire(t) \/ revoke_dns_continuations(t) \/ release_engine_handles(t)
    \/ stop_requested(t) \/ finish_stop(t) \/ force_kill(t)
    \/ /\ call[t].op = "retain" /\ nativeRetainDnsContinuation(t, call[t].e)
    \/ /\ call[t].op = "sub" /\ nativeAcquireLease(t, call[t].e)
    \/ /\ call[t].op = "lan" /\ install_lan_proxy(t, call[t].e)
    \/ /\ call[t].op = "inbound"
       /\ install_loopback_inbound(t, call[t].e, call[t].token, call[t].prev)

-----------------------------------------------------------------------------
(* "Only one data-plane worker may be active per Android process": whatever  *)
(* times out, is abandoned or is retired, at most one worker thread runs and *)
(* none that runs is taken for joined (ProcessWorkerLease, quarantine).      *)
OneWorkerOwned ==
    /\ Cardinality({e \in Engines : Alive(e)}) <= 1
    /\ \A e \in Engines : Alive(e) => active = e /\ eng[e].thread \in {"runtime", "quarantined"}

(* A successor started from a retained continuation gets its handle only     *)
(* when its predecessor's worker has been joined and no force kill has       *)
(* revoked the continuation, even one that came while the successor was      *)
(* starting (commit_or_retire, revoke_dns_continuations, the stop fence).    *)
SuccessorsHonest ==
    \A t \in Threads :
        call[t].op = "start" /\ call[t].prev # 0 /\ call[t].e \in registry' \ registry =>
            /\ eng[call[t].prev].worker = "exited" /\ eng[call[t].prev].thread = "joined"
            /\ call[t].prev \notin killed

(* An engine that was told to stop leaves the registry for good and leaves   *)
(* nothing bound, even if its worker never ends and even if a listener was   *)
(* being installed while it stopped (nativeStop, schedule_stop_reaper, Drop  *)
(* for CoreRuntime).                                                         *)
StoppedEngineLeaves(e) ==
    eng[e].cancel ~> [](e \notin registry /\ ~eng[e].lan /\ eng[e].inbounds = {})

(* "The rule is that neither half may repeat ... a repeated credential is a  *)
(* repeated upstream": two loopback inbounds of one engine never answer to   *)
(* the same credential (install_loopback_inbound, CredentialFingerprint).    *)
CredentialsApart ==
    \A e \in Engines : \A i, j \in eng[e].inbounds : i.secret = j.secret => i = j
=============================================================================
