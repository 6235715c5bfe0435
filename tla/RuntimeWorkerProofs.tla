------------------------ MODULE RuntimeWorkerProofs ------------------------
(***************************************************************************)
(* RuntimeWorker, proved for any set of calling threads and any number of  *)
(* calls: the inductive invariant, the safety properties that follow from  *)
(* it, and that the calls implement WorkerPromise.                         *)
(***************************************************************************)
EXTENDS RuntimeWorker, TLAPS

USE CallersAssumption, MaxCallsAssumption DEF CallersAssumption, MaxCallsAssumption

\* Nobody is in a call and the JoinHandle is in its slot.
LEMMA InitIInv == Init => IInv
<1> SUFFICES ASSUME Init PROVE IInv
  OBVIOUS
<1>1. TypeOK
  BY Zenon DEF Init, TypeOK, WorkerPhases, WorkerStates, FenceStates, ThreadPlaces,
         StopResults, StopPcs, KillPcs, DropPcs
<1>2. Ownership
  BY DEF Init, Ownership, KillPcs, DropPcs, StopPcs, Holding, Locked
<1>3. Progress
  BY DEF Init, Progress, Joined, Locked, StopPcs
<1>4. DropLeavesNoOrphan
  BY DEF Init, DropLeavesNoOrphan
<1> QED BY <1>1, <1>2, <1>3, <1>4 DEF IInv

\* A return from a call keeps the types of what the callers own.
LEMMA ReturnTypes ==
  ASSUME TypeOK, NEW c \in Callers, NEW r \in StopResults, Return(c, r)
  PROVE  /\ op' \in [Callers -> {"none", "stop", "kill", "drop"}]
         /\ pc' \in [Callers -> StopPcs \cup KillPcs \cup DropPcs \cup {"idle"}]
         /\ result' \in [Callers -> StopResults]
         /\ calls' \in [Callers -> Nat]
         /\ dropped' \in BOOLEAN
         /\ reports' \in Nat
BY DEF Return, TypeOK, StopResults, StopPcs, KillPcs, DropPcs

\* The worker thread only moves on and fills its channel.
LEMMA WorkerStepIInv ==
  ASSUME IInv, WorkerStep
  PROVE  IInv'
<1> USE DEF WorkerPhases,
            WorkerStates, FenceStates, ThreadPlaces, StopResults, StopPcs, KillPcs,
            DropPcs, Holding, Locked, Joined, PastJoin
<1>0. TypeOK /\ Ownership /\ Progress /\ DropLeavesNoOrphan
  BY DEF IInv
<1>1. CASE EngineReturns
  <2> USE <1>1 DEF EngineReturns, workerFrame, callVars
  <2>1. TypeOK' BY <1>0 DEF TypeOK
  <2>2. Ownership' BY <1>0 DEF TypeOK, Ownership
  <2>3. Progress' BY <1>0 DEF TypeOK, Ownership, Progress
  <2>4. DropLeavesNoOrphan'
    BY <1>0 DEF TypeOK, Ownership, Progress, DropLeavesNoOrphan
  <2> QED BY <2>1, <2>2, <2>3, <2>4 DEF IInv
<1>2. CASE WorkerSignals
  <2> USE <1>2 DEF WorkerSignals, workerFrame, callVars
  <2>1. TypeOK' BY <1>0 DEF TypeOK
  <2>2. Ownership' BY <1>0 DEF TypeOK, Ownership
  <2>3. Progress' BY <1>0 DEF TypeOK, Ownership, Progress
  <2>4. DropLeavesNoOrphan'
    BY <1>0 DEF TypeOK, Ownership, Progress, DropLeavesNoOrphan
  <2> QED BY <2>1, <2>2, <2>3, <2>4 DEF IInv
<1>3. CASE WorkerExits
  <2> USE <1>3 DEF WorkerExits, workerFrame, callVars
  <2>1. TypeOK' BY <1>0 DEF TypeOK
  <2>2. Ownership' BY <1>0 DEF TypeOK, Ownership
  <2>3. Progress' BY <1>0 DEF TypeOK, Ownership, Progress
  <2>4. DropLeavesNoOrphan'
    BY <1>0 DEF TypeOK, Ownership, Progress, DropLeavesNoOrphan
  <2> QED BY <2>1, <2>2, <2>3, <2>4 DEF IInv
<1> QED BY <1>1, <1>2, <1>3 DEF WorkerStep

\* Each step of RuntimeWorker::stop.
LEMMA StopStepIInv ==
  ASSUME IInv, NEW c \in Callers, StopStep(c)
  PROVE  IInv'
<1> USE DEF WorkerPhases,
            WorkerStates, FenceStates, ThreadPlaces, StopResults, StopPcs, KillPcs,
            DropPcs, Holding, Locked, Joined, PastJoin
<1>0. TypeOK /\ Ownership /\ Progress /\ DropLeavesNoOrphan
  BY DEF IInv
<1>1. CASE StopLock(c)
  <2> USE <1>1 DEF StopLock, at
  <2>1. TypeOK'
    <3>1. CASE Return(c, "AlreadyStopped") /\ UNCHANGED stopLock
      BY <1>0, <3>1, ReturnTypes DEF TypeOK
    <3>2. CASE stopLock' = TRUE /\ goto(c, "mark")
      BY <1>0, <3>2 DEF goto, TypeOK
    <3>3. CASE stopLock' = TRUE /\ goto(c, "wait")
      BY <1>0, <3>3 DEF goto, TypeOK
    <3> QED BY <3>1, <3>2, <3>3, Zenon
  <2> USE DEF Return, goto
  <2>2. Ownership' BY <1>0 DEF TypeOK, Ownership
  <2>3. Progress' BY <1>0 DEF TypeOK, Ownership, Progress
  <2>4. DropLeavesNoOrphan'
    BY <1>0, Zenon DEF TypeOK, Ownership, Progress, DropLeavesNoOrphan
  <2> QED BY <2>1, <2>2, <2>3, <2>4 DEF IInv
<1>2. CASE StopMark(c)
  <2> USE <1>2 DEF StopMark, at, goto
  <2>1. TypeOK' BY <1>0 DEF TypeOK
  <2>2. Ownership' BY <1>0 DEF TypeOK, Ownership
  <2>3. Progress' BY <1>0 DEF TypeOK, Ownership, Progress
  <2>4. DropLeavesNoOrphan'
    BY <1>0 DEF TypeOK, Ownership, Progress, DropLeavesNoOrphan
  <2> QED BY <2>1, <2>2, <2>3, <2>4 DEF IInv
<1>3. CASE StopSeal(c)
  <2> USE <1>3 DEF StopSeal, at, goto
  <2>1. TypeOK' BY <1>0 DEF TypeOK
  <2>2. Ownership' BY <1>0 DEF TypeOK, Ownership
  <2>3. Progress' BY <1>0 DEF TypeOK, Ownership, Progress
  <2>4. DropLeavesNoOrphan'
    BY <1>0 DEF TypeOK, Ownership, Progress, DropLeavesNoOrphan
  <2> QED BY <2>1, <2>2, <2>3, <2>4 DEF IInv
<1>4. CASE StopRequest(c)
  <2> USE <1>4 DEF StopRequest, at, goto
  <2>1. TypeOK' BY <1>0 DEF TypeOK
  <2>2. Ownership' BY <1>0 DEF TypeOK, Ownership
  <2>3. Progress' BY <1>0 DEF TypeOK, Ownership, Progress
  <2>4. DropLeavesNoOrphan'
    BY <1>0 DEF TypeOK, Ownership, Progress, DropLeavesNoOrphan
  <2> QED BY <2>1, <2>2, <2>3, <2>4 DEF IInv
<1>5. CASE StopWait(c)
  <2> USE <1>5 DEF StopWait, at
  <2>1. TypeOK'
    <3>1. CASE done' = FALSE /\ goto(c, "take") /\ UNCHANGED stopLock
      BY <1>0, <3>1, ZenonT(40) DEF goto, TypeOK
    <3>2. CASE goto(c, "take") /\ UNCHANGED <<done, stopLock>>
      BY <1>0, <3>2 DEF goto, TypeOK
    <3>3. CASE stopLock' = FALSE /\ Return(c, "TimedOut") /\ UNCHANGED done
      BY <1>0, <3>3, ReturnTypes, ZenonT(40) DEF TypeOK
    <3> QED BY <3>1, <3>2, <3>3, Zenon
  <2> USE DEF Return, goto
  <2>2. Ownership' BY <1>0 DEF TypeOK, Ownership
  <2>3. Progress' BY <1>0 DEF TypeOK, Ownership, Progress
  <2>4. DropLeavesNoOrphan'
    BY <1>0, Zenon DEF TypeOK, Ownership, Progress, DropLeavesNoOrphan
  <2> QED BY <2>1, <2>2, <2>3, <2>4 DEF IInv
<1>6. CASE StopTake(c)
  <2> USE <1>6 DEF StopTake, at, goto
  <2>1. TypeOK' BY <1>0 DEF TypeOK
  <2>2. Ownership' BY <1>0 DEF TypeOK, Ownership
  <2>3. Progress' BY <1>0 DEF TypeOK, Ownership, Progress
  <2>4. DropLeavesNoOrphan'
    BY <1>0, Zenon DEF TypeOK, Ownership, Progress, DropLeavesNoOrphan
  <2> QED BY <2>1, <2>2, <2>3, <2>4 DEF IInv
<1>7. CASE StopSettle(c)
  <2> USE <1>7 DEF StopSettle, at
  <2>0. Return(c, "AlreadyStopped") /\ "AlreadyStopped" \in StopResults
    OBVIOUS
  <2>1. TypeOK'
    BY <1>0, <2>0, ReturnTypes, ZenonT(40) DEF TypeOK
  <2> USE DEF Return, goto
  <2>2. Ownership' BY <1>0 DEF TypeOK, Ownership
  <2>3. Progress' BY <1>0 DEF TypeOK, Ownership, Progress
  <2>4. DropLeavesNoOrphan'
    BY <1>0 DEF TypeOK, Ownership, Progress, DropLeavesNoOrphan
  <2> QED BY <2>1, <2>2, <2>3, <2>4 DEF IInv
<1>8. CASE StopJoin(c)
  <2> USE <1>8 DEF StopJoin, at, goto
  <2>1. TypeOK' BY <1>0 DEF TypeOK
  <2>2. Ownership' BY <1>0 DEF TypeOK, Ownership
  <2>3. Progress' BY <1>0 DEF TypeOK, Ownership, Progress
  <2>4. DropLeavesNoOrphan'
    BY <1>0 DEF TypeOK, Ownership, Progress, DropLeavesNoOrphan
  <2> QED BY <2>1, <2>2, <2>3, <2>4 DEF IInv
<1>9. CASE StopPutBack(c)
  <2> USE <1>9 DEF StopPutBack, at
  <2>0. Return(c, "TimedOut") /\ "TimedOut" \in StopResults
    OBVIOUS
  <2>1. TypeOK'
    BY <1>0, <2>0, ReturnTypes, ZenonT(40) DEF TypeOK
  <2> USE DEF Return, goto
  <2>2. Ownership' BY <1>0 DEF TypeOK, Ownership
  <2>3. Progress' BY <1>0 DEF TypeOK, Ownership, Progress
  <2>4. DropLeavesNoOrphan'
    BY <1>0 DEF TypeOK, Ownership, Progress, DropLeavesNoOrphan
  <2> QED BY <2>1, <2>2, <2>3, <2>4 DEF IInv
<1>10. CASE StopStore(c)
  <2> USE <1>10 DEF StopStore, at, goto
  <2>1. TypeOK' BY <1>0 DEF TypeOK
  <2>2. Ownership' BY <1>0, SMTT(40) DEF TypeOK, Ownership
  <2>3. Progress' BY <1>0 DEF TypeOK, Ownership, Progress
  <2>4. DropLeavesNoOrphan'
    BY <1>0 DEF TypeOK, Ownership, Progress, DropLeavesNoOrphan
  <2> QED BY <2>1, <2>2, <2>3, <2>4 DEF IInv
<1>11. CASE StopReady(c)
  <2> USE <1>11 DEF StopReady, at
  <2>0. Return(c, "Stopped") /\ "Stopped" \in StopResults
    OBVIOUS
  <2>1. TypeOK'
    BY <1>0, <2>0, ReturnTypes, ZenonT(40) DEF TypeOK
  <2> USE DEF Return, goto
  <2>2. Ownership' BY <1>0 DEF TypeOK, Ownership
  <2>3. Progress' BY <1>0 DEF TypeOK, Ownership, Progress
  <2>4. DropLeavesNoOrphan'
    BY <1>0 DEF TypeOK, Ownership, Progress, DropLeavesNoOrphan
  <2> QED BY <2>1, <2>2, <2>3, <2>4 DEF IInv
<1> QED BY <1>1, <1>2, <1>3, <1>4, <1>5, <1>6, <1>7, <1>8, <1>9, <1>10, <1>11 DEF StopStep

\* Each step of force_kill and abandon.
LEMMA KillStepIInv ==
  ASSUME IInv, NEW c \in Callers, KillStep(c)
  PROVE  IInv'
<1> USE DEF WorkerPhases,
            WorkerStates, FenceStates, ThreadPlaces, StopResults, StopPcs, KillPcs,
            DropPcs, Holding, Locked, Joined, PastJoin
<1>0. TypeOK /\ Ownership /\ Progress /\ DropLeavesNoOrphan
  BY DEF IInv
<1>1. CASE KillCancel(c)
  <2> USE <1>1 DEF KillCancel, at, goto, Return
  <2>1. TypeOK' BY <1>0 DEF TypeOK
  <2>2. Ownership' BY <1>0, SMTT(40) DEF TypeOK, Ownership
  <2>3. Progress' BY <1>0 DEF TypeOK, Ownership, Progress
  <2>4. DropLeavesNoOrphan'
    BY <1>0 DEF TypeOK, Ownership, Progress, DropLeavesNoOrphan
  <2> QED BY <2>1, <2>2, <2>3, <2>4 DEF IInv
<1>2. CASE KillRevoke(c)
  <2> USE <1>2 DEF KillRevoke, at, goto, Return
  <2>1. TypeOK' BY <1>0, ZenonT(40) DEF TypeOK
  <2>2. Ownership' BY <1>0 DEF TypeOK, Ownership
  <2>3. Progress' BY <1>0 DEF TypeOK, Ownership, Progress
  <2>4. DropLeavesNoOrphan'
    BY <1>0 DEF TypeOK, Ownership, Progress, DropLeavesNoOrphan
  <2> QED BY <2>1, <2>2, <2>3, <2>4 DEF IInv
<1>3. CASE KillLoad(c)
  <2> USE <1>3 DEF KillLoad, at, goto, Return
  <2>1. TypeOK' BY <1>0 DEF TypeOK
  <2>2. Ownership' BY <1>0, SMTT(40) DEF TypeOK, Ownership
  <2>3. Progress' BY <1>0 DEF TypeOK, Ownership, Progress
  <2>4. DropLeavesNoOrphan'
    BY <1>0, Zenon DEF TypeOK, Ownership, Progress, DropLeavesNoOrphan
  <2> QED BY <2>1, <2>2, <2>3, <2>4, SMTT(40) DEF IInv
<1>4. CASE KillGrab(c)
  <2> USE <1>4 DEF KillGrab, at, goto, Return
  <2>1. TypeOK' BY <1>0, SMTT(40) DEF TypeOK
  <2>2. Ownership' BY <1>0 DEF TypeOK, Ownership
  <2>3. Progress' BY <1>0 DEF TypeOK, Ownership, Progress
  <2>4. DropLeavesNoOrphan'
    BY <1>0, Zenon DEF TypeOK, Ownership, Progress, DropLeavesNoOrphan
  <2> QED BY <2>1, <2>2, <2>3, <2>4 DEF IInv
<1>5. CASE KillPoll(c)
  <2> USE <1>5 DEF KillPoll, at, goto, Return
  <2>1. TypeOK' BY <1>0, SMTT(40) DEF TypeOK
  <2>2. Ownership' BY <1>0 DEF TypeOK, Ownership
  <2>3. Progress' BY <1>0 DEF TypeOK, Ownership, Progress
  <2>4. DropLeavesNoOrphan'
    BY <1>0 DEF TypeOK, Ownership, Progress, DropLeavesNoOrphan
  <2> QED BY <2>1, <2>2, <2>3, <2>4 DEF IInv
<1>6. CASE KillFinish(c)
  <2> USE <1>6 DEF KillFinish, at, goto, Return
  <2>1. TypeOK' BY <1>0 DEF TypeOK
  <2>2. Ownership' BY <1>0, SMTT(40) DEF TypeOK, Ownership
  <2>3. Progress' BY <1>0 DEF TypeOK, Ownership, Progress
  <2>4. DropLeavesNoOrphan'
    BY <1>0 DEF TypeOK, Ownership, Progress, DropLeavesNoOrphan
  <2> QED BY <2>1, <2>2, <2>3, <2>4, SMTT(40) DEF IInv
<1>7. CASE KillRemark(c)
  <2> USE <1>7 DEF KillRemark, at, goto, Return
  <2>1. TypeOK' BY <1>0, ZenonT(40) DEF TypeOK
  <2>2. Ownership' BY <1>0 DEF TypeOK, Ownership
  <2>3. Progress' BY <1>0 DEF TypeOK, Ownership, Progress
  <2>4. DropLeavesNoOrphan'
    BY <1>0 DEF TypeOK, Ownership, Progress, DropLeavesNoOrphan
  <2> QED BY <2>1, <2>2, <2>3, <2>4 DEF IInv
<1>8. CASE KillPark(c)
  <2> USE <1>8 DEF KillPark, at, goto, Return
  <2>1. TypeOK' BY <1>0, SMTT(40) DEF TypeOK
  <2>2. Ownership' BY <1>0, SMTT(40) DEF TypeOK, Ownership
  <2>3. Progress' BY <1>0 DEF TypeOK, Ownership, Progress
  <2>4. DropLeavesNoOrphan'
    BY <1>0 DEF TypeOK, Ownership, Progress, DropLeavesNoOrphan
  <2> QED BY <2>1, <2>2, <2>3, <2>4, Zenon DEF IInv
<1> QED BY <1>1, <1>2, <1>3, <1>4, <1>5, <1>6, <1>7, <1>8 DEF KillStep

\* quarantine(), called by the destructor.
LEMMA DropStepIInv ==
  ASSUME IInv, NEW c \in Callers, DropStep(c)
  PROVE  IInv'
<1> USE DEF WorkerPhases,
            WorkerStates, FenceStates, ThreadPlaces, StopResults, StopPcs, KillPcs,
            DropPcs, Holding, Locked, Joined, PastJoin
<1>0. TypeOK /\ Ownership /\ Progress /\ DropLeavesNoOrphan
  BY DEF IInv
<1>1. CASE DropRevoke(c)
  <2> USE <1>1 DEF DropRevoke, at, goto
  <2>1. TypeOK' BY <1>0, SMTT(40) DEF TypeOK
  <2>2. Ownership' BY <1>0, SMTT(40) DEF TypeOK, Ownership
  <2>3. Progress' BY <1>0 DEF TypeOK, Ownership, Progress
  <2>4. DropLeavesNoOrphan'
    BY <1>0 DEF TypeOK, Ownership, Progress, DropLeavesNoOrphan
  <2> QED BY <2>1, <2>2, <2>3, <2>4, SMTT(40) DEF IInv
<1>2. CASE DropQuarantine(c)
  <2> USE <1>2 DEF DropQuarantine, at
  <2>1. TypeOK' BY <1>0, ZenonT(40) DEF TypeOK
  <2>2. Ownership' BY <1>0, SMTT(40) DEF TypeOK, Ownership
  <2>3. Progress' BY <1>0 DEF TypeOK, Ownership, Progress
  <2>4. DropLeavesNoOrphan'
    BY <1>0 DEF TypeOK, Ownership, Progress, DropLeavesNoOrphan
  <2> QED BY <2>1, <2>2, <2>3, <2>4 DEF IInv
<1> QED BY <1>1, <1>2 DEF DropStep

\* How a call begins.
LEMMA BeginIInv ==
  ASSUME IInv, NEW c \in Callers, BeginStop(c) \/ BeginKill(c) \/ DropLastArc(c)
  PROVE  IInv'
<1> USE DEF WorkerPhases,
            WorkerStates, FenceStates, ThreadPlaces, StopResults, StopPcs, KillPcs,
            DropPcs, Holding, Locked, Joined, PastJoin
<1>0. TypeOK /\ Ownership /\ Progress /\ DropLeavesNoOrphan
  BY DEF IInv
<1>1. CASE BeginStop(c)
  <2> USE <1>1 DEF BeginStop, Begin
  <2>1. TypeOK' BY <1>0, SMTT(40) DEF TypeOK
  <2>2. Ownership' BY <1>0, SMTT(40) DEF TypeOK, Ownership
  <2>3. Progress' BY <1>0, SMTT(40) DEF TypeOK, Ownership, Progress
  <2>4. DropLeavesNoOrphan'
    BY <1>0 DEF TypeOK, Ownership, Progress, DropLeavesNoOrphan
  <2> QED BY <2>1, <2>2, <2>3, <2>4, Zenon DEF IInv
<1>2. CASE BeginKill(c)
  <2> USE <1>2 DEF BeginKill, Begin
  <2>1. TypeOK' BY <1>0, SMTT(40) DEF TypeOK
  <2>2. Ownership' BY <1>0, SMTT(40) DEF TypeOK, Ownership
  <2>3. Progress' BY <1>0, SMTT(40) DEF TypeOK, Ownership, Progress
  <2>4. DropLeavesNoOrphan'
    BY <1>0 DEF TypeOK, Ownership, Progress, DropLeavesNoOrphan
  <2> QED BY <2>1, <2>2, <2>3, <2>4, SMTT(40) DEF IInv
<1>3. CASE DropLastArc(c)
  <2> USE <1>3 DEF DropLastArc
  <2>1. TypeOK' BY <1>0, SMTT(40) DEF TypeOK
  <2>2. Ownership' BY <1>0, SMTT(40) DEF TypeOK, Ownership
  <2>3. Progress' BY <1>0 DEF TypeOK, Ownership, Progress
  <2>4. DropLeavesNoOrphan'
    BY <1>0 DEF TypeOK, Ownership, Progress, DropLeavesNoOrphan
  <2> QED BY <2>1, <2>2, <2>3, <2>4, Zenon DEF IInv
<1> QED BY <1>1, <1>2, <1>3

\* The reaper of the quarantine list, and a holder that revokes its continuation.
LEMMA BystanderIInv == ASSUME IInv, Reap \/ ContinuationRevoke PROVE IInv'
<1> USE DEF WorkerPhases,
            WorkerStates, FenceStates, ThreadPlaces, StopResults, StopPcs, KillPcs,
            DropPcs, Holding, Locked, Joined, PastJoin
<1>0. TypeOK /\ Ownership /\ Progress /\ DropLeavesNoOrphan
  BY DEF IInv
<1>1. CASE Reap
  <2> USE <1>1 DEF Reap, callVars
  <2>1. TypeOK' BY <1>0, Zenon DEF TypeOK
  <2>2. Ownership' BY <1>0, SMTT(40) DEF TypeOK, Ownership
  <2>3. Progress' BY <1>0 DEF TypeOK, Ownership, Progress
  <2>4. DropLeavesNoOrphan'
    BY <1>0 DEF TypeOK, Ownership, Progress, DropLeavesNoOrphan
  <2> QED BY <2>1, <2>2, <2>3, <2>4 DEF IInv
<1>2. CASE ContinuationRevoke
  <2> USE <1>2 DEF ContinuationRevoke, callVars
  <2>1. TypeOK' BY <1>0, SMTT(40) DEF TypeOK
  <2>2. Ownership' BY <1>0, ZenonT(40) DEF TypeOK, Ownership
  <2>3. Progress' BY <1>0 DEF TypeOK, Ownership, Progress
  <2>4. DropLeavesNoOrphan'
    BY <1>0 DEF TypeOK, Ownership, Progress, DropLeavesNoOrphan
  <2> QED BY <2>1, <2>2, <2>3, <2>4, Zenon DEF IInv
<1> QED BY <1>1, <1>2

\* Every step keeps the inductive invariant.
LEMMA NextIInv == IInv /\ [Next]_vars => IInv'
<1> SUFFICES ASSUME IInv, [Next]_vars PROVE IInv'
  OBVIOUS
<1>1. CASE WorkerStep
  BY <1>1, WorkerStepIInv
<1>2. CASE \E c \in Callers : CallerStep(c)
  <2>1. PICK c \in Callers : CallerStep(c)
    BY <1>2
  <2> QED
    BY <2>1, BeginIInv, StopStepIInv, KillStepIInv, DropStepIInv DEF CallerStep
<1>3. CASE Reap \/ ContinuationRevoke
  BY <1>3, BystanderIInv, Zenon
<1>4. CASE UNCHANGED vars
  BY <1>4 DEF vars, IInv, TypeOK, Ownership, Progress, DropLeavesNoOrphan, PastJoin
<1> QED BY <1>1, <1>2, <1>3, <1>4 DEF Next

\* The inductive invariant of the calls holds in every reachable state, for any
\* callers: who holds the JoinHandle, and what that says of the worker, of
\* stop_lock and of the fence (RuntimeWorker::stop, abandon, quarantine).
THEOREM IInvHolds == Spec => []IInv
BY InitIInv, NextIInv, PTL DEF Spec

\* At most one call on a worker is ever told Stopped: the JoinHandle is taken out
\* of its slot by exactly one of stop and abandon.
THEOREM OneStopped == Spec => []AtMostOneStopped
<1>1. IInv => AtMostOneStopped
  BY DEF IInv, Progress, AtMostOneStopped
<1> QED BY <1>1, IInvHolds, PTL

\* stop and abandon report Stopped or AlreadyStopped only of a worker that is
\* through with its teardown.
THEOREM NoEarlyReport == Spec => []NoStopReportWhileWorking
<1>1. IInv => NoStopReportWhileWorking
  BY Zenon DEF IInv, Progress, NoStopReportWhileWorking
<1> QED BY <1>1, IInvHolds, PTL

\* A DNS continuation is ready only after a clean join of its worker.
THEOREM ReadyAfterJoin == Spec => []ReadyOnlyAfterJoin
<1>1. IInv => ReadyOnlyAfterJoin
  BY DEF IInv, Progress, ReadyOnlyAfterJoin, IsReady
<1> QED BY <1>1, IInvHolds, PTL

\* The destructor of the last Arc leaves the worker joined or quarantined.
THEOREM NoOrphan == Spec => []DropLeavesNoOrphan
<1>1. IInv => DropLeavesNoOrphan
  BY DEF IInv
<1> QED BY <1>1, IInvHolds, PTL

\* No step turns a revoked fence into anything else: the compare-exchanges of
\* stop expect RUNNING and STOPPING.
THEOREM RevocationStays == Spec => RevocationIsPermanent
<1>1. [Next]_vars => [fence = "revoked" => fence' = "revoked"]_vars
  <2> SUFFICES ASSUME Next, fence = "revoked" PROVE fence' = "revoked"
    OBVIOUS
  <2>1. CASE WorkerStep
    BY <2>1 DEF WorkerStep, EngineReturns, WorkerSignals, WorkerExits, workerFrame
  <2>2. ASSUME NEW c \in Callers, CallerStep(c) PROVE fence' = "revoked"
    <3>1. CASE BeginStop(c) \/ BeginKill(c) \/ DropLastArc(c)
      BY <3>1, Zenon DEF BeginStop, BeginKill, Begin, DropLastArc
    <3>2. CASE StopStep(c)
      BY <3>2 DEF StopStep, StopLock, StopMark, StopSeal, StopRequest, StopWait,
                  StopTake, StopSettle, StopJoin, StopPutBack, StopStore, StopReady
    <3>3. CASE KillStep(c)
      BY <3>3 DEF KillStep, KillCancel, KillRevoke, KillLoad, KillGrab, KillPoll,
                  KillFinish, KillRemark, KillPark
    <3>4. CASE DropStep(c)
      BY <3>4 DEF DropStep, DropRevoke, DropQuarantine
    <3> QED BY <2>2, <3>1, <3>2, <3>3, <3>4 DEF CallerStep
  <2>3. CASE Reap \/ ContinuationRevoke
    BY <2>3 DEF Reap, ContinuationRevoke
  <2> QED BY <2>1, <2>2, <2>3 DEF Next
<1> QED BY <1>1, PTL DEF Spec, RevocationIsPermanent

-----------------------------------------------------------------------------
(* The refinement *)

\* A step that moves neither the worker to its end, nor the handle between its
\* owners, nor the fence between its classes, is a stutter of the promise.
LEMMA PromiseStutter ==
  ASSUME worker' = worker, reports' = reports,
         thread' \in Callers \cup {"slot"} <=> thread \in Callers \cup {"slot"},
         thread \notin Callers \cup {"slot"} => thread' = thread,
         fence' = "stopped" <=> fence = "stopped",
         fence' = "revoked" <=> fence = "revoked"
  PROVE  UNCHANGED Promise!vars
BY DEF Promise!vars

\* Each step of the calls is a step of the promise or leaves it as it is.
LEMMA StepRefines == IInv /\ [Next]_vars => [Promise!Next]_(Promise!vars)
<1> SUFFICES ASSUME IInv, [Next]_vars PROVE [Promise!Next]_(Promise!vars)
  OBVIOUS
<1>0. TypeOK /\ Ownership /\ Progress
  BY DEF IInv
<1>1. CASE WorkerStep
  <2>1. CASE EngineReturns \/ WorkerSignals
    BY <2>1 DEF EngineReturns, WorkerSignals, workerFrame, callVars, Promise!vars
  <2>2. CASE WorkerExits
    BY <2>2 DEF WorkerExits, workerFrame, callVars, Promise!Next, Promise!End
  <2> QED BY <1>1, <2>1, <2>2 DEF WorkerStep
<1>2. ASSUME NEW c \in Callers, CallerStep(c) PROVE [Promise!Next]_(Promise!vars)
  <2>1. CASE BeginStop(c) \/ BeginKill(c) \/ DropLastArc(c)
    BY <2>1, PromiseStutter DEF BeginStop, BeginKill, Begin, DropLastArc
  <2>2. CASE StopLock(c) \/ StopMark(c) \/ StopRequest(c) \/ StopJoin(c) \/ StopStore(c)
    BY <2>2, PromiseStutter DEF StopLock, StopMark, StopRequest, StopJoin, StopStore,
                                goto, Return
  <2>3. CASE StopSeal(c)
    BY <2>3, PromiseStutter DEF StopSeal, goto
  <2>4. CASE StopWait(c) \/ StopSettle(c)
    BY <2>4, PromiseStutter DEF StopWait, StopSettle, goto, Return
  <2>5. CASE StopTake(c) \/ StopPutBack(c)
    BY <1>0, <2>5, PromiseStutter DEF StopTake, StopPutBack, at, goto, Return,
                                      Ownership, Holding
  <2>6. CASE StopReady(c)
    <3>1. thread = c /\ worker = "exited" /\ fence \in {"stopping", "revoked"}
      BY <1>0, <2>6 DEF StopReady, at, TypeOK, FenceStates, WorkerStates, Ownership,
                        Progress, Holding, Joined, Locked, StopPcs
    <3>2. Promise!JoinAndReport
      BY <2>6, <3>1, Zenon DEF StopReady, Return, Promise!JoinAndReport
    <3> QED BY <3>2, Zenon DEF Promise!Next
  <2>7. CASE KillCancel(c) \/ KillLoad(c) \/ KillPoll(c) \/ KillRemark(c)
    BY <2>7, PromiseStutter DEF KillCancel, KillLoad, KillPoll, KillRemark, goto, Return
  <2>8. CASE KillRevoke(c) \/ DropRevoke(c)
    BY <2>8, Zenon DEF KillRevoke, DropRevoke, goto, Promise!Next, Promise!Revoke
  <2>9. CASE KillGrab(c)
    BY <2>9, PromiseStutter DEF KillGrab, goto, Return
  <2>10. CASE KillFinish(c)
    <3>1. thread = c /\ worker = "exited" /\ fence = "revoked"
      BY <1>0, <2>10 DEF KillFinish, at, Ownership, Progress, Holding, Joined, KillPcs
    <3>2. Promise!JoinAndReport
      BY <2>10, <3>1 DEF KillFinish, Return, Promise!JoinAndReport
    <3> QED BY <3>2, SMTT(40) DEF Promise!Next
  <2>11. CASE KillPark(c)
    <3>1. thread = c /\ fence = "revoked"
      BY <1>0, <2>11 DEF KillPark, at, Ownership, Holding, KillPcs
    <3>2. Promise!GiveUp
      BY <2>11, <3>1 DEF KillPark, Return, Promise!GiveUp
    <3> QED BY <3>2 DEF Promise!Next
  <2>12. CASE DropQuarantine(c)
    <3>1. fence = "revoked"
      BY <1>0, <2>12 DEF DropQuarantine, at, Ownership
    <3>2. CASE thread = "slot"
      BY <2>12, <3>1, <3>2 DEF DropQuarantine, Promise!Next, Promise!GiveUp
    <3>3. CASE thread # "slot"
      BY <2>12, <3>3, PromiseStutter DEF DropQuarantine
    <3> QED BY <3>2, <3>3
  <2> QED BY <1>2, <2>1, <2>2, <2>3, <2>4, <2>5, <2>6, <2>7, <2>8, <2>9, <2>10,
             <2>11, <2>12, ZenonT(40) DEF CallerStep, StopStep, KillStep, DropStep
<1>3. CASE Reap
  BY <1>3 DEF Reap, callVars, Promise!Next, Promise!ReapFromQuarantine
<1>4. CASE ContinuationRevoke
  BY <1>4 DEF ContinuationRevoke, callVars, Promise!Next, Promise!Revoke
<1>5. CASE UNCHANGED vars
  BY <1>5, PromiseStutter DEF vars
<1> QED BY <1>1, <1>2, <1>3, <1>4, <1>5 DEF Next

\* stop, abandon, quarantine and revoke implement WorkerPromise: one owner of the
\* JoinHandle at a time, one report, a continuation made ready only by a join.
THEOREM Refinement == Spec => KeepsPromise
<1>1. Init => Promise!Init
  BY DEF Init, Promise!Init
<1> QED BY <1>1, IInvHolds, StepRefines, PTL DEF Spec, KeepsPromise, Promise!Spec

=============================================================================
