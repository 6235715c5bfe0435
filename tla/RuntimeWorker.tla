--------------------------- MODULE RuntimeWorker ---------------------------
(***************************************************************************)
(* The ownership of one data-plane worker thread: RuntimeWorker::stop,     *)
(* RuntimeWorker::abandon and RuntimeWorker::quarantine, called from any    *)
(* thread of the application, against the worker thread itself and against *)
(* the holder of the DNS continuation whose fence the calls move.          *)
(*                                                                         *)
(* Every atomic load, store and compare-exchange, every short critical     *)
(* section and every bounded wait of the code is one step here, so calls   *)
(* interleave as they do in the program.                                   *)
(***************************************************************************)
EXTENDS Naturals

CONSTANTS Callers,   \* threads that hold an Arc to the runtime handle
          MaxCalls   \* bound on the calls one thread makes

ASSUME CallersAssumption == /\ "slot" \notin Callers
                            /\ "quarantine" \notin Callers
                            /\ "joined" \notin Callers
ASSUME MaxCallsAssumption == MaxCalls \in Nat

VARIABLES
  worker,    \* the thread: "engine", "draining", "signalled", "exited"
  cancel,    \* the generation's cancellation token
  done,      \* is a completion message waiting in the channel of capacity one
  state,     \* RuntimeWorker.state
  fence,     \* RuntimeWorker.dns_stop_fence
  stopLock,  \* RuntimeWorker.stop_lock: locked or not
  thread,    \* the JoinHandle: in its "slot", taken by a caller, in the
             \* "quarantine" list, or "joined"
  op,        \* what each caller is in: "none", "stop", "kill", "drop"
  pc,        \* where in it
  result,    \* what its last call returned
  calls,     \* how many calls it has made
  dropped,   \* has the last Arc fallen
  reports    \* how many calls returned Stopped (history)

vars == <<worker, cancel, done, state, fence, stopLock, thread, op, pc, result,
          calls, dropped, reports>>

callVars == <<op, pc, result, calls, dropped, reports>>

WorkerPhases == {"engine", "draining", "signalled", "exited"}
WorkerStates == {"running", "stopping", "stopped"}
FenceStates == WorkerStates \cup {"revoked"}
ThreadPlaces == Callers \cup {"slot", "quarantine", "joined"}
StopResults == {"none", "Stopped", "AlreadyStopped", "TimedOut"}

StopPcs == {"lock", "mark", "seal", "request", "wait", "take", "settle",
            "join", "putback", "store", "ready"}
KillPcs == {"cancel", "revoke", "load", "grab", "poll", "finish", "remark", "park"}
DropPcs == {"qrevoke", "qtake"}

\* Steps of stop between acquiring stop_lock and returning.
Locked == StopPcs \ {"lock"}
\* Steps at which the caller holds the JoinHandle it took out of the slot.
Holding == {"join", "putback", "store", "ready", "poll", "finish", "remark", "park"}
\* Steps at which that caller has seen the thread finished and joined it.
Joined == {"store", "ready", "finish"}

TypeOK ==
  /\ worker \in WorkerPhases
  /\ cancel \in BOOLEAN
  /\ done \in BOOLEAN
  /\ state \in WorkerStates
  /\ fence \in FenceStates
  /\ stopLock \in BOOLEAN
  /\ thread \in ThreadPlaces
  /\ op \in [Callers -> {"none", "stop", "kill", "drop"}]
  /\ pc \in [Callers -> StopPcs \cup KillPcs \cup DropPcs \cup {"idle"}]
  /\ result \in [Callers -> StopResults]
  /\ calls \in [Callers -> Nat]
  /\ dropped \in BOOLEAN
  /\ reports \in Nat

Init ==
  /\ worker = "engine"
  /\ cancel = FALSE
  /\ done = FALSE
  /\ state = "running"
  /\ fence = "running"
  /\ stopLock = FALSE
  /\ thread = "slot"
  /\ op = [c \in Callers |-> "none"]
  /\ pc = [c \in Callers |-> "idle"]
  /\ result = [c \in Callers |-> "none"]
  /\ calls = [c \in Callers |-> 0]
  /\ dropped = FALSE
  /\ reports = 0

-----------------------------------------------------------------------------
(* The worker thread *)

workerFrame == UNCHANGED <<state, fence, stopLock, thread, callVars>>

\* The engine loop returns because it was cancelled, failed or panicked.
EngineReturns ==
  /\ worker = "engine"
  /\ worker' = "draining"
  /\ UNCHANGED <<cancel, done>>
  /\ workerFrame

\* Runtime shutdown, descriptor release, and the completion message.
WorkerSignals ==
  /\ worker = "draining"
  /\ worker' = "signalled"
  /\ done' = TRUE
  /\ UNCHANGED cancel
  /\ workerFrame

\* The closure ends and drops its end of the channel, with the message sent or,
\* when the teardown itself unwinds, without it.
WorkerExits ==
  /\ worker \in {"draining", "signalled"}
  /\ worker' = "exited"
  /\ UNCHANGED <<cancel, done>>
  /\ workerFrame

-----------------------------------------------------------------------------
(* Calls: how they begin, move and return *)

at(c, p) == pc[c] = p
goto(c, p) == /\ pc' = [pc EXCEPT ![c] = p]
              /\ UNCHANGED <<op, result, calls, dropped, reports>>

Begin(c, o, p) ==
  /\ ~dropped /\ op[c] = "none" /\ calls[c] < MaxCalls
  /\ op' = [op EXCEPT ![c] = o]
  /\ pc' = [pc EXCEPT ![c] = p]
  /\ calls' = [calls EXCEPT ![c] = @ + 1]
  /\ UNCHANGED <<worker, cancel, done, state, fence, stopLock, thread, result,
                 dropped, reports>>

\* The destructor turns a stop that timed out into quarantine().
Return(c, r) ==
  /\ result' = [result EXCEPT ![c] = r]
  /\ reports' = IF r = "Stopped" THEN reports + 1 ELSE reports
  /\ IF op[c] = "drop" /\ r = "TimedOut"
       THEN pc' = [pc EXCEPT ![c] = "qrevoke"] /\ UNCHANGED op
       ELSE /\ pc' = [pc EXCEPT ![c] = "idle"]
            /\ op' = [op EXCEPT ![c] = "none"]
  /\ UNCHANGED <<calls, dropped>>

BeginStop(c) == Begin(c, "stop", "lock")
BeginKill(c) == Begin(c, "kill", "cancel")

\* Drop for CoreRuntime: the last Arc, so nobody else is in a call. A worker
\* that was already taken is somebody else's, and the destructor returns.
DropLastArc(c) ==
  /\ ~dropped /\ \A d \in Callers : op[d] = "none"
  /\ dropped' = TRUE
  /\ IF thread = "slot"
       THEN /\ op' = [op EXCEPT ![c] = "drop"]
            /\ pc' = [pc EXCEPT ![c] = "lock"]
       ELSE UNCHANGED <<op, pc>>
  /\ UNCHANGED <<worker, cancel, done, state, fence, stopLock, thread, result,
                 calls, reports>>

-----------------------------------------------------------------------------
(* RuntimeWorker::stop *)

StopLock(c) ==
  /\ at(c, "lock") /\ ~stopLock
  /\ \/ /\ state = "stopped"
        /\ Return(c, "AlreadyStopped")
        /\ UNCHANGED stopLock
     \/ /\ state = "running"
        /\ stopLock' = TRUE
        /\ goto(c, "mark")
     \/ /\ state = "stopping"
        /\ stopLock' = TRUE
        /\ goto(c, "wait")
  /\ UNCHANGED <<worker, cancel, done, state, fence, thread>>

StopMark(c) ==
  /\ at(c, "mark")
  /\ state' = "stopping"
  /\ goto(c, "seal")
  /\ UNCHANGED <<worker, cancel, done, fence, stopLock, thread>>

StopSeal(c) ==
  /\ at(c, "seal")
  /\ fence' = IF fence = "running" THEN "stopping" ELSE fence
  /\ goto(c, "request")
  /\ UNCHANGED <<worker, cancel, done, state, stopLock, thread>>

StopRequest(c) ==
  /\ at(c, "request")
  /\ cancel' = TRUE
  /\ goto(c, "wait")
  /\ UNCHANGED <<worker, done, state, fence, stopLock, thread>>

\* Mutant: an unbounded recv.
StopWaitForever(c) ==
  /\ at(c, "wait") /\ (done \/ worker = "exited")
  /\ done' = FALSE
  /\ goto(c, "take")
  /\ UNCHANGED <<worker, cancel, state, fence, stopLock, thread>>

\* Mutant: the timeout is taken for completion.
StopWaitOptimist(c) ==
  /\ at(c, "wait")
  /\ done' = FALSE
  /\ goto(c, "take")
  /\ UNCHANGED <<worker, cancel, state, fence, stopLock, thread>>

\* recv_timeout: the message, a disconnected channel, or the deadline.
StopWait(c) ==
  /\ at(c, "wait")
  /\ \/ /\ done
        /\ done' = FALSE
        /\ goto(c, "take")
        /\ UNCHANGED stopLock
     \/ /\ ~done /\ worker = "exited"
        /\ goto(c, "take")
        /\ UNCHANGED <<done, stopLock>>
     \/ /\ ~done /\ worker # "exited"
        /\ stopLock' = FALSE
        /\ Return(c, "TimedOut")
        /\ UNCHANGED done
  /\ UNCHANGED <<worker, cancel, state, fence, thread>>

StopTake(c) ==
  /\ at(c, "take")
  /\ \/ /\ thread = "slot"
        /\ thread' = c
        /\ goto(c, "join")
     \/ /\ thread # "slot"
        /\ goto(c, "settle")
        /\ UNCHANGED thread
  /\ UNCHANGED <<worker, cancel, done, state, fence, stopLock>>

\* Another caller owns the worker: only the state is settled.
StopSettle(c) ==
  /\ at(c, "settle")
  /\ state' = "stopped"
  /\ stopLock' = FALSE
  /\ Return(c, "AlreadyStopped")
  /\ UNCHANGED <<worker, cancel, done, fence, thread>>

\* join_within: the thread finished, or its JOIN_GRACE ran out first.
StopJoin(c) ==
  /\ at(c, "join")
  /\ goto(c, IF worker = "exited" THEN "store" ELSE "putback")
  /\ UNCHANGED <<worker, cancel, done, state, fence, stopLock, thread>>

StopPutBack(c) ==
  /\ at(c, "putback")
  /\ thread' = "slot"
  /\ stopLock' = FALSE
  /\ Return(c, "TimedOut")
  /\ UNCHANGED <<worker, cancel, done, state, fence>>

StopStore(c) ==
  /\ at(c, "store")
  /\ state' = "stopped"
  /\ goto(c, "ready")
  /\ UNCHANGED <<worker, cancel, done, fence, stopLock, thread>>

StopReady(c) ==
  /\ at(c, "ready")
  /\ fence' = IF fence = "stopping" THEN "stopped" ELSE fence
  /\ thread' = "joined"
  /\ stopLock' = FALSE
  /\ Return(c, "Stopped")
  /\ UNCHANGED <<worker, cancel, done, state>>

StopStep(c) ==
  \/ StopLock(c) \/ StopMark(c) \/ StopSeal(c) \/ StopRequest(c) \/ StopWait(c)
  \/ StopTake(c) \/ StopSettle(c) \/ StopJoin(c) \/ StopPutBack(c)
  \/ StopStore(c) \/ StopReady(c)

-----------------------------------------------------------------------------
(* CoreRuntime::force_kill and RuntimeWorker::abandon *)

KillCancel(c) ==
  /\ at(c, "cancel")
  /\ cancel' = TRUE
  /\ goto(c, "revoke")
  /\ UNCHANGED <<worker, done, state, fence, stopLock, thread>>

\* Mutant: the force kill does not revoke the continuation.
KillRevokeSkips(c) ==
  /\ at(c, "revoke")
  /\ goto(c, "load")
  /\ UNCHANGED <<worker, cancel, done, state, fence, stopLock, thread>>

KillRevoke(c) ==
  /\ at(c, "revoke")
  /\ fence' = "revoked"
  /\ goto(c, "load")
  /\ UNCHANGED <<worker, cancel, done, state, stopLock, thread>>

KillLoad(c) ==
  /\ at(c, "load")
  /\ IF state = "stopped" THEN Return(c, "AlreadyStopped") ELSE goto(c, "grab")
  /\ UNCHANGED <<worker, cancel, done, state, fence, stopLock, thread>>

KillGrab(c) ==
  /\ at(c, "grab")
  /\ \/ /\ thread = "slot"
        /\ thread' = c
        /\ goto(c, "poll")
     \/ /\ thread # "slot"
        /\ Return(c, "TimedOut")
        /\ UNCHANGED thread
  /\ UNCHANGED <<worker, cancel, done, state, fence, stopLock>>

KillPoll(c) ==
  /\ at(c, "poll")
  /\ goto(c, IF worker = "exited" THEN "finish" ELSE "remark")
  /\ UNCHANGED <<worker, cancel, done, state, fence, stopLock, thread>>

KillFinish(c) ==
  /\ at(c, "finish")
  /\ state' = "stopped"
  /\ thread' = "joined"
  /\ Return(c, "Stopped")
  /\ UNCHANGED <<worker, cancel, done, fence, stopLock>>

KillRemark(c) ==
  /\ at(c, "remark")
  /\ state' = "stopping"
  /\ goto(c, "park")
  /\ UNCHANGED <<worker, cancel, done, fence, stopLock, thread>>

KillPark(c) ==
  /\ at(c, "park")
  /\ thread' = "quarantine"
  /\ Return(c, "TimedOut")
  /\ UNCHANGED <<worker, cancel, done, state, fence, stopLock>>

KillStep(c) ==
  \/ KillCancel(c) \/ KillRevoke(c) \/ KillLoad(c) \/ KillGrab(c)
  \/ KillPoll(c) \/ KillFinish(c) \/ KillRemark(c) \/ KillPark(c)

-----------------------------------------------------------------------------
(* RuntimeWorker::quarantine, the reaper of the list, and DnsContinuation *)

DropRevoke(c) ==
  /\ at(c, "qrevoke")
  /\ fence' = "revoked"
  /\ goto(c, "qtake")
  /\ UNCHANGED <<worker, cancel, done, state, stopLock, thread>>

DropQuarantine(c) ==
  /\ at(c, "qtake")
  /\ thread' = IF thread = "slot" THEN "quarantine" ELSE thread
  /\ pc' = [pc EXCEPT ![c] = "idle"]
  /\ op' = [op EXCEPT ![c] = "none"]
  /\ UNCHANGED <<worker, cancel, done, state, fence, stopLock, result, calls,
                 dropped, reports>>

DropStep(c) == DropRevoke(c) \/ DropQuarantine(c)

\* reap_quarantined_workers, run by the next start.
Reap ==
  /\ thread = "quarantine" /\ worker = "exited"
  /\ thread' = "joined"
  /\ UNCHANGED <<worker, cancel, done, state, fence, stopLock, callVars>>

\* DnsContinuation::revoke by whoever holds a clone of the continuation.
ContinuationRevoke ==
  /\ fence # "revoked"
  /\ fence' = "revoked"
  /\ UNCHANGED <<worker, cancel, done, state, stopLock, thread, callVars>>

\* DnsContinuation::is_ready.
IsReady == fence = "stopped"

-----------------------------------------------------------------------------
WorkerStep == EngineReturns \/ WorkerSignals \/ WorkerExits

CallerStep(c) ==
  \/ BeginStop(c) \/ BeginKill(c) \/ DropLastArc(c)
  \/ StopStep(c) \/ KillStep(c) \/ DropStep(c)

Next ==
  \/ WorkerStep
  \/ \E c \in Callers : CallerStep(c)
  \/ Reap
  \/ ContinuationRevoke

Spec == Init /\ [][Next]_vars

\* Every bounded wait ends and every other step of a call is a few instructions,
\* so a thread inside a call keeps stepping whatever the worker does.
WorkerFairness == \A c \in Callers : WF_vars(StopStep(c) \/ KillStep(c) \/ DropStep(c))

FairCallsSpec == Spec /\ WorkerFairness

-----------------------------------------------------------------------------
(* Properties *)

\* Who may be where. The JoinHandle is out of its slot exactly while one caller
\* is between its take() and its return; stop_lock excludes; a caller past its
\* own revocation sees a revoked fence.
Ownership ==
  /\ \A c \in Callers :
       /\ pc[c] = "idle" <=> op[c] = "none"
       /\ pc[c] \in KillPcs <=> op[c] = "kill"
       /\ pc[c] \in DropPcs => op[c] = "drop"
       /\ pc[c] \in Holding <=> thread = c
       /\ pc[c] \in Locked => stopLock
       /\ pc[c] \in KillPcs \ {"cancel", "revoke"} => fence = "revoked"
       /\ pc[c] = "qtake" => fence = "revoked"
       /\ op[c] = "drop" => dropped
       /\ op[c] \notin {"none", "drop"} => ~dropped
  /\ \A c, d \in Callers : c # d =>
       /\ ~(pc[c] \in Locked /\ pc[d] \in Locked)
       /\ ~(op[c] = "drop" /\ op[d] # "none")

\* A caller that holds the handle of a worker whose end is settled.
PastJoin(c) == pc[c] \in {"poll", "finish", "remark", "park", "ready"}

\* How far the worker is, from what the callers and the flags say.
Progress ==
  /\ done => worker \in {"signalled", "exited"}
  /\ state = "stopped" => worker \in {"signalled", "exited"}
  /\ thread = "joined" => worker = "exited"
  /\ thread = "quarantine" => fence = "revoked"
  /\ fence = "stopped" => thread = "joined"
  /\ reports <= 1 /\ (reports = 1 => thread = "joined")
  /\ state # "running" /\ (\A c \in Callers : pc[c] # "seal") => fence # "running"
  /\ state = "stopped" => thread # "slot" /\ (thread \in Callers => PastJoin(thread))
  /\ \A c \in Callers :
       /\ pc[c] \in Joined => worker = "exited"
       /\ pc[c] \in {"take", "settle", "join"} => worker \in {"signalled", "exited"}
       /\ pc[c] \in Locked \ {"mark", "seal"} => fence # "running"
       /\ pc[c] = "settle" => thread # "slot" /\ (thread \in Callers => PastJoin(thread))
       /\ result[c] = "Stopped" => thread = "joined"
       /\ result[c] = "AlreadyStopped" => worker \in {"signalled", "exited"}

\* When the last Arc is gone and its destructor is through, the JoinHandle is
\* joined or in the quarantine list: no worker is detached with the handle.
DropLeavesNoOrphan ==
  dropped /\ (\A c \in Callers : op[c] = "none")
    => thread \in {"quarantine", "joined"}

\* The inductive invariant: who holds the JoinHandle and what that implies of the
\* worker, of stop_lock and of the DNS fence.
IInv == TypeOK /\ Ownership /\ Progress /\ DropLeavesNoOrphan

\* "Ownership token for both the worker and the `Stopped` result": of all the
\* calls ever made on a worker, by any threads, at most one returns Stopped.
AtMostOneStopped == reports <= 1

\* A call that returned Stopped joined the thread; one that returned
\* AlreadyStopped saw the worker say that it was done. Neither is ever told to
\* a caller while the engine or its teardown still runs.
NoStopReportWhileWorking ==
  \A c \in Callers :
    /\ result[c] = "Stopped" => worker = "exited" /\ thread = "joined"
    /\ result[c] = "AlreadyStopped" => worker \in {"signalled", "exited"}

\* "Import is allowed only after a clean worker join": a continuation is ready
\* only when a stop joined the worker it belongs to.
ReadyOnlyAfterJoin == IsReady => worker = "exited" /\ thread = "joined"

\* "Permanently invalidate this continuation and every outstanding clone": no
\* step of stop, however late, makes a revoked fence anything else.
RevocationIsPermanent == [][fence = "revoked" => fence' = "revoked"]_vars

\* "Every wait on this path has a ceiling": every stop, force kill and drop
\* returns although the worker may be wedged for ever.
CallsReturn == \A c \in Callers : op[c] # "none" ~> op[c] = "none"

-----------------------------------------------------------------------------
(* What a worker promises, and that this is how it is kept *)

Promise == INSTANCE WorkerPromise WITH
  alive <- worker # "exited",
  owner <- IF thread \in Callers \cup {"slot"} THEN "handle" ELSE thread,
  handover <- IF fence = "stopped" THEN "ready"
              ELSE IF fence = "revoked" THEN "revoked" ELSE "open"

\* The calls, at the grain of their atomic operations, implement the ownership
\* protocol of WorkerPromise.
KeepsPromise == Promise!Spec
=============================================================================
