------------------------ MODULE NetworkSwitchProofs -------------------------
(***************************************************************************)
(* ContinuityGate and the network change on top of it, proved for any      *)
(* threads, any policies and any number of holds: lanes held match the     *)
(* open question, one answer releases them, a deadline is reported once,   *)
(* and open lanes are on the last network reported.                        *)
(***************************************************************************)
EXTENDS ContinuityGate, TLAPS, NetworkSwitch

USE MaxTokenAssumption, ConfigsAssumption, ReportedAssumption
    DEF MaxTokenAssumption, ConfigsAssumption, ReportedAssumption, Tokens

\* The lanes of the interruptions form a chain, so a hold that is not covered by
\* the lanes already held covers them.
LEMMA LanesAreNested ==
  ASSUME NEW i \in Interruptions \cup {"none"}, NEW j \in Interruptions
  PROVE  /\ affected_lanes(i) \subseteq Lanes
         /\ affected_lanes(j) \subseteq affected_lanes(i)
              \/ affected_lanes(i) \cup affected_lanes(j) = affected_lanes(j)
         /\ affected_lanes("none") = {}
BY DEF affected_lanes, Lanes, Interruptions

\* The values that stand for no hold and no report.
LEMMA DefaultTypes == NoHold \in Pendings /\ NoAsk \in Asks
BY DEF NoHold, Pendings, NoAsk, Asks, Interruptions

\* A gate nobody has asked yet.
LEMMA InitIInv == Init => IInv
<1> SUFFICES ASSUME Init PROVE IInv
  OBVIOUS
<1>0. nextToken \in 1..MaxToken + 1
  BY DEF Init
<1>1. TypeOK
  BY <1>0, DefaultTypes, Zenon DEF Init, TypeOK, Verdicts, ReporterPcs, AppPcs, WatchPcs
<1>2. QuestionInv
  BY DEF Init, QuestionInv, HeldMatchesQuestion, NoHold, affected_lanes
<1>3. ClaimInv
  BY DEF Init, ClaimInv, OneClaim
<1>4. ExpiryInv
  BY DEF Init, ExpiryInv
<1> QED BY <1>1, <1>2, <1>3, <1>4 DEF IInv

\* The start of a report and every step of one.
LEMMA ReporterIInv ==
  ASSUME IInv, NEW r \in Reporters,
         (\E i \in Interruptions, w \in BOOLEAN : Report(r, i, w)) \/ ReporterStep(r)
  PROVE  IInv'
<1> USE DEF IInv
<1>1. ASSUME NEW i \in Interruptions, NEW w \in BOOLEAN, Report(r, i, w) PROVE IInv'
  <2>1. TypeOK'
    BY <1>1 DEF Report, TypeOK, gateVars, appVars, watchVars, ReporterPcs, Asks
  <2> QED BY <1>1, <2>1 DEF Report, gateVars, appVars, watchVars, QuestionInv,
             HeldMatchesQuestion, ClaimInv, OneClaim, ExpiryInv
<1>2. CASE AlreadyHeld(r)
  <2>1. TypeOK'
    <3>1. CASE Return(r)
      BY <1>2, <3>1 DEF AlreadyHeld, Return, TypeOK, gateVars, appVars, watchVars,
                        ReporterPcs, NoAsk, Asks, Interruptions
    <3>2. CASE ~Return(r)
      BY <1>2, <3>2, Zenon DEF AlreadyHeld, Answered, TypeOK, gateVars, appVars, watchVars,
                        ReporterPcs, Pendings
    <3> QED BY <3>1, <3>2
  <2> QED BY <1>2, <2>1 DEF AlreadyHeld, gateVars, appVars, watchVars, QuestionInv,
             HeldMatchesQuestion, ClaimInv, OneClaim, ExpiryInv
<1>3. CASE Hold(r)
  <2> DEFINE i == ask[r].interruption
  <2>0. /\ i \in Interruptions /\ ask[r].timed \in BOOLEAN
        /\ pending.interruption \in Interruptions \cup {"none"}
        /\ pending.token \in Nat /\ nextToken \in Nat /\ nextToken # 0
        /\ nextToken + 1 \in 1..MaxToken + 1
    BY <1>3 DEF Hold, TypeOK, Asks, Pendings
  <2>1. /\ affected_lanes(i) \subseteq Lanes
        /\ held \cup affected_lanes(i) = affected_lanes(i)
    <3>1. CASE IsPending
      BY <1>3, <2>0, <3>1, LanesAreNested DEF Hold, QuestionInv, HeldMatchesQuestion
    <3>2. CASE ~IsPending
      BY <2>0, <3>2, LanesAreNested, SMTT(40) DEF IsPending, QuestionInv, HeldMatchesQuestion, NoHold
    <3> QED BY <3>1, <3>2
  <2>2. TypeOK'
    BY <1>3, <2>0, <2>1, Zenon DEF Hold, TypeOK, appVars, watchVars, ReporterPcs, Pendings
  <2>3. QuestionInv'
    BY <1>3, <2>0, <2>1 DEF Hold, QuestionInv, HeldMatchesQuestion
  <2>4. ClaimInv'
    BY <1>3, <2>0, SMTT(40) DEF Hold, ClaimInv, OneClaim, appVars, TypeOK
  <2>5. ExpiryInv'
    BY <1>3, <2>0 DEF Hold, ExpiryInv, watchVars, TypeOK
  <2> QED BY <2>2, <2>3, <2>4, <2>5
<1>4. CASE Supersede(r)
  <2>1. TypeOK'
    BY <1>4, Zenon DEF Supersede, Finish, TypeOK, appVars, watchVars, ReporterPcs, Verdicts
  <2> QED BY <1>4, <2>1 DEF Supersede, appVars, watchVars, QuestionInv,
             HeldMatchesQuestion, ClaimInv, OneClaim, ExpiryInv
<1>5. CASE SignalOld(r)
  <2>1. TypeOK'
    BY <1>5 DEF SignalOld, NotifyWaiters, TypeOK, gateVars, appVars, watchVars, ReporterPcs
  <2> QED BY <1>5, <2>1 DEF SignalOld, gateVars, appVars, watchVars, QuestionInv,
             HeldMatchesQuestion, ClaimInv, OneClaim, ExpiryInv
<1>6. CASE Wake(r)
  <2>1. TypeOK'
    <3>1. CASE Return(r)
      BY <1>6, <3>1 DEF Wake, TryWake, Return, TypeOK, appVars, watchVars,
                        ReporterPcs, NoAsk, Asks, Interruptions
    <3>2. CASE ~Return(r)
      BY <1>6, <3>2, Zenon DEF Wake, TryWake, Answered, TypeOK, appVars, watchVars, ReporterPcs
    <3> QED BY <3>1, <3>2
  <2> QED BY <1>6, <2>1 DEF Wake, appVars, watchVars, QuestionInv,
             HeldMatchesQuestion, ClaimInv, OneClaim, ExpiryInv
<1>7. CASE Subscribe(r) \/ Sleep(r)
  <2>1. TypeOK'
    BY <1>7, Zenon DEF Subscribe, Sleep, TypeOK, gateVars, appVars, watchVars, ReporterPcs
  <2> QED BY <1>7, <2>1 DEF Subscribe, Sleep, gateVars, appVars, watchVars, QuestionInv,
             HeldMatchesQuestion, ClaimInv, OneClaim, ExpiryInv
<1>8. CASE Load(r)
  <2>1. TypeOK'
    <3>1. CASE verdict[token[r]] = "open"
      BY <1>8, <3>1, Zenon DEF Load, TypeOK, gateVars, appVars, watchVars, ReporterPcs
    <3>2. CASE verdict[token[r]] # "open"
      <4>1. /\ Return(r) /\ heard' = [heard EXCEPT ![r] = FALSE]
            /\ UNCHANGED <<gateVars, appVars, watchVars, expiries>>
        BY <1>8, <3>2 DEF Load
      <4> QED BY <4>1, DefaultTypes, Zenon DEF Return, TypeOK, gateVars, appVars, watchVars,
                 ReporterPcs
    <3> QED BY <3>1, <3>2
  <2> QED BY <1>8, <2>1 DEF Load, gateVars, appVars, watchVars, QuestionInv,
             HeldMatchesQuestion, ClaimInv, OneClaim, ExpiryInv
<1> QED BY <1>1, <1>2, <1>3, <1>4, <1>5, <1>6, <1>7, <1>8 DEF ReporterStep

\* An answer, from its claim to the wakeup after it.
LEMMA AppIInv ==
  ASSUME IInv, NEW a \in Apps, (\E t \in Tokens : Claim(a, t)) \/ AppStep(a)
  PROVE  IInv'
<1> USE DEF IInv
<1>1. ASSUME NEW t \in Tokens, Claim(a, t) PROVE IInv'
  <2>1. TypeOK'
    BY <1>1, Zenon DEF Claim, TypeOK, reporterVars, watchVars, AppPcs, Pendings
  <2>2. QuestionInv'
    BY <1>1 DEF Claim, QuestionInv, HeldMatchesQuestion, TypeOK, Pendings
  <2>3. ClaimInv'
    BY <1>1 DEF Claim, ClaimInv, OneClaim, QuestionInv, TypeOK, Pendings
  <2>4. ExpiryInv'
    BY <1>1 DEF Claim, ExpiryInv, watchVars, TypeOK, Pendings
  <2> QED BY <2>1, <2>2, <2>3, <2>4
<1>2. CASE Complete(a)
  <2>1. CASE pending.token = answer[a] /\ pending.confirming
    <3>0. pending' = NoHold /\ held' = {} /\ apc' = [apc EXCEPT ![a] = "decide"]
          /\ UNCHANGED <<answer, nextToken, watch, seen, expiries>>
      BY <1>2, <2>1 DEF Complete, watchVars
    <3>1. TypeOK'
      BY <1>2, <3>0, DefaultTypes DEF Complete, TypeOK, reporterVars, watchVars, AppPcs
    <3>2. QuestionInv'
      BY <3>0 DEF QuestionInv, HeldMatchesQuestion, NoHold, affected_lanes, TypeOK
    <3>3. ClaimInv'
      BY <3>0 DEF ClaimInv, OneClaim, NoHold, TypeOK
    <3>4. ExpiryInv'
      BY <3>0 DEF ExpiryInv, NoHold, TypeOK
    <3> QED BY <3>1, <3>2, <3>3, <3>4
  <2>2. CASE ~(pending.token = answer[a] /\ pending.confirming)
    <3>0. /\ apc' = [apc EXCEPT ![a] = "idle"] /\ answer' = [answer EXCEPT ![a] = 0]
          /\ UNCHANGED <<pending, held, nextToken, watch, seen, expiries>>
      BY <1>2, <2>2 DEF Complete, watchVars
    <3>1. TypeOK'
      BY <1>2, <3>0 DEF Complete, TypeOK, reporterVars, watchVars, AppPcs
    <3>2. QuestionInv' /\ ExpiryInv'
      BY <3>0 DEF QuestionInv, HeldMatchesQuestion, ExpiryInv
    <3>3. ClaimInv'
      BY <3>0 DEF ClaimInv, OneClaim, TypeOK
    <3> QED BY <3>1, <3>2, <3>3
  <2> QED BY <2>1, <2>2
<1>3. CASE Decide(a) \/ Signal(a) \/ WakeAfter(a)
  <2>0. /\ apc' = [apc EXCEPT ![a] = apc'[a]] /\ apc'[a] \in AppPcs \ {"claimed"}
        /\ \A b \in Apps : b # a => answer'[b] = answer[b]
        /\ answer' \in [Apps -> Nat]
        /\ UNCHANGED <<held, nextToken, pending, watch, seen, expiries>>
    BY <1>3 DEF Decide, Signal, WakeAfter, gateVars, watchVars, TypeOK, AppPcs
  <2>1. TypeOK'
    <3>1. CASE Decide(a)
      BY <3>1, Zenon DEF Decide, Finish, TypeOK, reporterVars, watchVars, AppPcs, Verdicts
    <3>2. CASE Signal(a)
      BY <3>2 DEF Signal, NotifyWaiters, TypeOK, gateVars, watchVars, AppPcs
    <3>3. CASE WakeAfter(a)
      BY <3>3 DEF WakeAfter, TryWake, TypeOK, reporterVars, watchVars, AppPcs
    <3> QED BY <1>3, <3>1, <3>2, <3>3, Zenon
  <2>2. QuestionInv' /\ ExpiryInv'
    BY <2>0 DEF QuestionInv, HeldMatchesQuestion, ExpiryInv
  <2>3. ClaimInv'
    BY <2>0, ZenonT(40) DEF ClaimInv, OneClaim, TypeOK
  <2> QED BY <2>1, <2>2, <2>3
<1> QED BY <1>1, <1>2, <1>3 DEF AppStep

\* The watch, the clock and the policy.
LEMMA WatchIInv ==
  ASSUME IInv,
         WatchStep \/ DeadlinePasses \/ SetConfig \/ StartWatch \/ StopWatch
  PROVE  IInv'
<1> USE DEF IInv
<1>1. CASE WatchRecv \/ StartWatch \/ StopWatch \/ SetConfig \/ DeadlinePasses
  <2>0. nextToken \in Nat
    BY DEF TypeOK
  <2>a. WatchRecv \/ StopWatch \/ SetConfig => TypeOK'
    BY Zenon DEF WatchRecv, StopWatch, SetConfig, TypeOK, gateVars, reporterVars, appVars,
                watchVars, WatchPcs
  <2>b. StartWatch => TypeOK'
    BY <2>0, SMTT(40) DEF StartWatch, TypeOK, reporterVars, appVars, WatchPcs
  <2>c. DeadlinePasses => TypeOK'
    BY Zenon DEF DeadlinePasses, TypeOK, gateVars, reporterVars, appVars
  <2>1. TypeOK'
    BY <1>1, <2>a, <2>b, <2>c
  <2>2. QuestionInv' /\ ClaimInv'
    BY <1>1, SMTT(40) DEF WatchRecv, StartWatch, StopWatch, SetConfig, DeadlinePasses, gateVars,
                appVars, QuestionInv, HeldMatchesQuestion, ClaimInv, OneClaim
  <2>3. ExpiryInv'
    BY <1>1 DEF WatchRecv, StartWatch, StopWatch, SetConfig, DeadlinePasses, gateVars,
                watchVars, ExpiryInv
  <2> QED BY <2>1, <2>2, <2>3
<1>2. CASE WatchLook
  <2>1. TypeOK'
    BY <1>2, ZenonT(40) DEF WatchLook, TypeOK, gateVars, reporterVars, appVars, WatchPcs, Pendings
  <2>2. QuestionInv' /\ ClaimInv' /\ ExpiryInv'
    BY <1>2 DEF WatchLook, gateVars, appVars, QuestionInv, HeldMatchesQuestion,
                ClaimInv, OneClaim, ExpiryInv
  <2> QED BY <2>1, <2>2
<1>3. CASE WatchExpire
  <2>1. CASE pending.token = seen /\ pending.deadline
    <3>0. /\ pending' = [pending EXCEPT !.deadline = FALSE, !.expired = TRUE]
          /\ watch' = "report"
          /\ UNCHANGED <<held, nextToken, apc, answer, seen, expiries>>
      BY <1>3, <2>1 DEF WatchExpire, appVars
    <3>1. TypeOK'
      BY <1>3, <3>0, Zenon DEF WatchExpire, TypeOK, reporterVars, appVars, WatchPcs, Pendings
    <3>2. pending.token # 0
      BY <2>1 DEF QuestionInv, NoHold
    <3>3. QuestionInv'
      BY <3>0, <3>2 DEF QuestionInv, HeldMatchesQuestion, TypeOK, Pendings
    <3>4. ClaimInv'
      BY <3>0 DEF ClaimInv, OneClaim, TypeOK, Pendings
    <3>5. ExpiryInv'
      BY <2>1, <3>0, <3>2 DEF ExpiryInv, QuestionInv, TypeOK, Pendings
    <3> QED BY <3>1, <3>3, <3>4, <3>5
  <2>2. CASE ~(pending.token = seen /\ pending.deadline)
    <3>0. watch' = "look" /\ UNCHANGED <<pending, held, nextToken, apc, answer, expiries>>
      BY <1>3, <2>2 DEF WatchExpire, appVars
    <3>1. TypeOK'
      BY <1>3, <3>0, Zenon DEF WatchExpire, TypeOK, reporterVars, appVars, WatchPcs
    <3>2. QuestionInv' /\ ClaimInv' /\ ExpiryInv'
      BY <3>0 DEF QuestionInv, HeldMatchesQuestion, ClaimInv, OneClaim, ExpiryInv
    <3> QED BY <3>1, <3>2
  <2> QED BY <2>1, <2>2
<1>4. CASE WatchReport
  <2>1. TypeOK'
    <3>1. expiries' \in [Tokens -> Nat]
      BY <1>4, SMTT(40) DEF WatchReport, TypeOK, ExpiryInv
    <3> QED BY <1>4, <3>1, ZenonT(40) DEF WatchReport, TypeOK, gateVars, reporterVars, appVars,
               WatchPcs
  <2>2. QuestionInv' /\ ClaimInv'
    BY <1>4 DEF WatchReport, gateVars, appVars, QuestionInv, HeldMatchesQuestion,
                ClaimInv, OneClaim
  <2>3. ExpiryInv'
    BY <1>4 DEF WatchReport, gateVars, ExpiryInv, TypeOK
  <2> QED BY <2>1, <2>2, <2>3
<1> QED BY <1>1, <1>2, <1>3, <1>4 DEF WatchStep

\* Every step of the gate keeps the inductive invariant.
LEMMA NextIInv == IInv /\ [Next]_vars => IInv'
<1> SUFFICES ASSUME IInv, [Next]_vars PROVE IInv'
  BY Zenon
<1>1. CASE UNCHANGED vars
  BY <1>1 DEF vars, gateVars, reporterVars, appVars, watchVars, IInv, TypeOK,
              QuestionInv, HeldMatchesQuestion, ClaimInv, OneClaim, ExpiryInv
<1>2. ASSUME NEW r \in Reporters,
             (\E i \in Reported, w \in BOOLEAN : Report(r, i, w)) \/ ReporterStep(r)
      PROVE  IInv'
  BY <1>2, ReporterIInv
<1> QED BY <1>1, <1>2, AppIInv, WatchIInv, Zenon DEF Next

\* The inductive invariant of the gate.
THEOREM IInvHolds == Spec => []IInv
BY InitIInv, NextIInv, PTL DEF Spec

\* The lanes that refuse flows are exactly those of the open question.
THEOREM HeldMatches == Spec => []HeldMatchesQuestion
<1>1. IInv => HeldMatchesQuestion
  BY DEF IInv, QuestionInv
<1> QED BY <1>1, IInvHolds, PTL

\* Of the threads answering one token at most one holds the claim.
THEOREM OneClaimHolds == Spec => []OneClaim
<1>1. IInv => OneClaim
  BY DEF IInv, ClaimInv
<1> QED BY <1>1, IInvHolds, PTL

\* No hold's expiry is published twice.
THEOREM ExpiresOnceHolds == Spec => []ExpiresOnce
<1>1. IInv => ExpiresOnce
  BY SMTT(40) DEF IInv, ExpiryInv, ExpiresOnce
<1> QED BY <1>1, IInvHolds, PTL

\* A lane is released by the claim on the open question and by nothing else.
THEOREM AnswerReleases == Spec => OnlyItsAnswerReleases
<1> DEFINE Released == \E a \in Apps : /\ apc[a] = "claimed" /\ apc'[a] = "decide"
                                       /\ answer[a] = pending.token /\ pending.confirming
<1>1. IInv /\ [Next]_vars => [held \subseteq held' \/ Released]_vars
  <2> SUFFICES ASSUME IInv, Next PROVE held \subseteq held' \/ Released
    BY SMTT(40)
  <2>1. ASSUME NEW r \in Reporters, NEW i \in Reported, NEW w \in BOOLEAN, Report(r, i, w)
        PROVE  held \subseteq held'
    BY <2>1, ZenonT(40) DEF Report, gateVars
  <2>2. ASSUME NEW r \in Reporters, ReporterStep(r) PROVE held \subseteq held'
    BY <2>2, SMTT(40) DEF ReporterStep, AlreadyHeld, Hold, Supersede, SignalOld, Wake, Subscribe,
                Load, Sleep, gateVars
  <2>3. ASSUME NEW a \in Apps, NEW t \in Tokens, Claim(a, t) PROVE held \subseteq held'
    BY <2>3, ZenonT(40) DEF Claim
  <2>4. ASSUME NEW a \in Apps, Complete(a) PROVE held \subseteq held' \/ Released
    <3>1. CASE pending.token = answer[a] /\ pending.confirming
      <4>1. apc[a] = "claimed" /\ apc'[a] = "decide"
        BY <2>4, <3>1 DEF Complete, IInv, TypeOK
      <4> QED BY <3>1, <4>1, Zenon
    <3>2. CASE ~(pending.token = answer[a] /\ pending.confirming)
      BY <2>4, <3>2 DEF Complete
    <3> QED BY <3>1, <3>2
  <2>5. ASSUME NEW a \in Apps, Decide(a) \/ Signal(a) \/ WakeAfter(a)
        PROVE  held \subseteq held'
    BY <2>5 DEF Decide, Signal, WakeAfter, gateVars
  <2>6. CASE SetConfig \/ StartWatch \/ StopWatch \/ WatchStep \/ DeadlinePasses
    BY <2>6 DEF SetConfig, StartWatch, StopWatch, WatchStep, WatchRecv, WatchLook,
                WatchExpire, WatchReport, DeadlinePasses, gateVars
  <2> QED BY <2>1, <2>2, <2>3, <2>4, <2>5, <2>6, Zenon DEF Next, AppStep
<1> QED BY <1>1, IInvHolds, PTL DEF Spec, OnlyItsAnswerReleases

-----------------------------------------------------------------------------
(***************************************************************************)
(* The composition of the network callbacks and the confirmations with the  *)
(* gate takes only steps of the gate, so what is proved of the gate holds   *)
(* of it; and what is in flight decides how far the rebinding has got.      *)
(***************************************************************************)

USE MaxTokenAssumption, ConfigsAssumption, ReportedAssumption, NetThreadAssumption,
    MaxHandleAssumption
    DEF MaxTokenAssumption, ConfigsAssumption, ReportedAssumption, NetThreadAssumption,
        MaxHandleAssumption, Tokens

\* The initial states of the composition.
LEMMA InitSwitchInv == NetInit => SwitchInv
<1> SUFFICES ASSUME NetInit PROVE SwitchInv
  OBVIOUS
<1>1. NetTypeOK
  <2>1. IInv
    BY InitIInv DEF NetInit
  <2>2. 0 \in 0..MaxHandle /\ 1 \in 0..MaxHandle
    OBVIOUS
  <2> QED BY <2>1, <2>2, Zenon DEF NetInit, NetTypeOK
<1> QED BY <1>1 DEF NetInit, Init, SwitchInv

\* Steps that leave every variable of the gate alone.
LEMMA GateIdle == ASSUME IInv, UNCHANGED vars PROVE IInv'
BY NextIInv, Zenon

\* The network callback.
LEMMA NetStepInv ==
  ASSUME SwitchInv, NetReport \/ NetStep
  PROVE  SwitchInv'
<1> USE DEF SwitchInv
<1>0. NetTypeOK /\ IInv
  BY Zenon DEF NetTypeOK
<1>1. CASE NetReport
  <2>3. UNCHANGED vars /\ latest' = latest + 1 /\ latest < MaxHandle /\ latest \in 0..MaxHandle
    BY <1>0, <1>1, Zenon DEF NetReport, NetTypeOK
  <2>4. IInv'
    BY <1>0, <2>3, GateIdle, Zenon
  <2>5. latest' \in 0..MaxHandle
    BY <2>3, MaxHandleAssumption, SMTT(40) DEF MaxHandleAssumption
  <2>1. IInv' /\ latest' \in 0..MaxHandle
    BY <2>4, <2>5, SMTT(40)
  <2>2. NetTypeOK'
    BY <1>1, <2>1, ZenonT(40) DEF NetReport, NetTypeOK
  <2> QED BY <1>1, <2>2, SMTT(40) DEF NetReport, NetTypeOK, vars, gateVars, reporterVars, appVars
<1>2. CASE NetCheck
  <2>1. IInv'
    BY <1>0, <1>2, GateIdle, Zenon DEF NetCheck
  <2>2. NetTypeOK'
    BY <1>2, <2>1, Zenon DEF NetCheck, NetTypeOK
  <2> QED BY <1>2, <2>2 DEF NetCheck, NetTypeOK, vars, gateVars, reporterVars, appVars
<1>3. CASE NetSet
  <2>1. IInv'
    BY <1>0, <1>3, GateIdle DEF NetSet
  <2>2. NetTypeOK'
    BY <1>3, <2>1, Zenon DEF NetSet, NetTypeOK
  <2> QED BY <1>3, <2>2, Zenon DEF NetSet, NetTypeOK, vars, gateVars, reporterVars, appVars
<1>4. CASE NetRebind
  <2>1. IInv'
    BY <1>0, <1>4, GateIdle, SMTT(40) DEF NetRebind
  <2>2. NetTypeOK'
    BY <1>4, <2>1, SMTT(40) DEF NetRebind, NetTypeOK
  <2> QED BY <1>4, <2>2, Zenon DEF NetRebind, NetTypeOK, vars, gateVars, reporterVars, appVars
<1>5. CASE NetDefer
  <2>1. IInv'
    BY <1>0, <1>5, GateIdle, Zenon DEF NetDefer
  <2>2. NetTypeOK'
    BY <1>5, <2>1, Zenon DEF NetDefer, NetTypeOK
  <2> QED BY <1>5, <2>2, Zenon DEF NetDefer, NetTypeOK, vars, gateVars, reporterVars, appVars
<1>6. CASE NetInterrupt
  <2>1. CASE is_permitted(config, "NetworkSwitch") /\ npc' = "invalidate" /\ UNCHANGED vars
    <3>1. IInv'
      BY <1>0, <2>1, GateIdle, Zenon
    <3>2. NetTypeOK'
      BY <1>6, <2>1, <3>1, Zenon DEF NetInterrupt, NetTypeOK
    <3> QED BY <1>6, <2>1, <3>2, Zenon DEF NetInterrupt, NetTypeOK, vars, gateVars,
               reporterVars, appVars
  <2>2. CASE Report(NetThread, "NetworkSwitch", FALSE) /\ npc' = "gate"
    <3>1. IInv'
      BY <1>0, <2>2, ReporterIInv, Zenon DEF Interruptions
    <3>2. NetTypeOK'
      BY <1>6, <2>2, <3>1, Zenon DEF NetInterrupt, NetTypeOK
    <3>3. pc'[NetThread] = "lock" /\ ask'[NetThread].interruption = "NetworkSwitch"
      BY <1>0, <2>2, Zenon DEF Report, IInv, TypeOK
    <3> QED BY <1>6, <2>2, <3>2, <3>3, SMTT(40) DEF NetInterrupt, NetTypeOK, Report, gateVars,
               appVars
  <2> QED BY <1>6, <2>1, <2>2, Zenon DEF NetInterrupt
<1>7. CASE NetReturned
  <2>1. IInv'
    BY <1>0, <1>7, GateIdle, Zenon DEF NetReturned
  <2>2. NetTypeOK'
    BY <1>7, <2>1, Zenon DEF NetReturned, NetTypeOK
  <2> QED BY <1>7, <2>2, Zenon DEF NetReturned, NetTypeOK, vars, gateVars, reporterVars, appVars
<1>8. CASE NetInvalidate
  <2>1. IInv'
    BY <1>0, <1>8, GateIdle, Zenon DEF NetInvalidate
  <2>2. NetTypeOK'
    BY <1>8, <2>1, SMTT(40) DEF NetInvalidate, NetTypeOK
  <2> QED BY <1>8, <2>2, Zenon DEF NetInvalidate, NetTypeOK, vars, gateVars, reporterVars, appVars
<1> QED BY <1>1, <1>2, <1>3, <1>4, <1>5, <1>6, <1>7, <1>8, Zenon DEF NetStep

\* The confirmation, and the reload of the policy.
LEMMA ConfirmInv ==
  ASSUME SwitchInv,
         Reload \/ \E a \in Apps : (\E t \in Tokens : ConfirmClaim(a, t)) \/ ConfirmStep(a)
  PROVE  SwitchInv'
<1> USE DEF SwitchInv
<1>0. NetTypeOK /\ IInv
  BY SMTT(40) DEF NetTypeOK
<1>1. CASE Reload
  <2>1. IInv'
    BY <1>0, <1>1, WatchIInv, Zenon DEF Reload
  <2>2. NetTypeOK'
    BY <1>1, <2>1, ZenonT(40) DEF Reload, NetTypeOK
  <2> QED BY <1>1, <2>2, Zenon DEF Reload, SetConfig, NetTypeOK, reporterVars, appVars
<1>2. ASSUME NEW a \in Apps, NEW t \in Tokens, ConfirmClaim(a, t) PROVE SwitchInv'
  <2>1. IInv'
    BY <1>0, <1>2, AppIInv, Zenon DEF ConfirmClaim
  <2>2. NetTypeOK'
    BY <1>2, <2>1, Zenon DEF ConfirmClaim, NetTypeOK
  <2>3. apc'[a] = "claimed" /\ \A b \in Apps : b # a => apc'[b] = apc[b]
    BY <1>0, <1>2 DEF ConfirmClaim, Claim, IInv, TypeOK
  <2>4. /\ conf' = [conf EXCEPT ![a] = "take"] /\ conf[a] = "none"
        /\ UNCHANGED <<dialer, bound, deferred, latest, npc, clash, pc, ask, config, held>>
    BY <1>2, SMTT(40) DEF ConfirmClaim, Claim, reporterVars
  <2> QED BY <1>0, <2>2, <2>3, <2>4, SMTT(40) DEF NetTypeOK
<1>3. ASSUME NEW a \in Apps, ConfirmTake(a) PROVE SwitchInv'
  <2>1. IInv'
    BY <1>0, <1>3, GateIdle, ZenonT(40) DEF ConfirmTake
  <2>2. NetTypeOK'
    BY <1>3, <2>1, SMTT(40) DEF ConfirmTake, NetTypeOK
  <2> QED BY <1>0, <1>3, <2>2, ZenonT(40) DEF ConfirmTake, NetTypeOK, vars, gateVars, reporterVars,
             appVars
<1>4. ASSUME NEW a \in Apps, ConfirmRebind(a) PROVE SwitchInv'
  <2>1. IInv'
    BY <1>0, <1>4, GateIdle, Zenon DEF ConfirmRebind
  <2>2. NetTypeOK'
    BY <1>4, <2>1, SMTT(40) DEF ConfirmRebind, NetTypeOK
  <2> QED BY <1>0, <1>4, <2>2, Zenon DEF ConfirmRebind, NetTypeOK, vars, gateVars, reporterVars,
             appVars
<1>5. ASSUME NEW a \in Apps, ConfirmComplete(a) PROVE SwitchInv'
  <2>1. IInv'
    BY <1>0, <1>5, AppIInv, Zenon DEF ConfirmComplete, AppStep
  <2>2. NetTypeOK'
    BY <1>5, <2>1, Zenon DEF ConfirmComplete, NetTypeOK
  <2>3. \A b \in Apps : b # a => apc'[b] = apc[b]
    BY <1>0, <1>5, Zenon DEF ConfirmComplete, Complete, IInv, TypeOK
  <2>4. /\ conf' = [conf EXCEPT ![a] = "none"] /\ conf[a] = "complete"
        /\ UNCHANGED <<dialer, bound, deferred, latest, npc, clash, pc, ask, config>>
    BY <1>5, Zenon DEF ConfirmComplete, Complete, reporterVars
  <2> QED BY <1>0, <2>2, <2>3, <2>4, ZenonT(40) DEF NetTypeOK
<1> QED BY <1>1, <1>2, <1>3, <1>4, <1>5, Zenon DEF ConfirmStep

\* The other threads of the gate: none of them empties the held lanes, and the
\* network thread leaves the gate's lock only with some lane held.
LEMMA GateStepInv == ASSUME SwitchInv, GateStep PROVE SwitchInv'
<1> USE DEF SwitchInv
<1>0. /\ NetTypeOK /\ IInv
      /\ UNCHANGED netVars
  BY ZenonT(40) DEF NetTypeOK, GateStep
<1>1. ASSUME NEW r \in Reporters \ {NetThread}, NEW i \in Reported, NEW w \in BOOLEAN,
             Report(r, i, w)
      PROVE  SwitchInv'
  <2>1. IInv'
    BY <1>0, <1>1, ReporterIInv, Zenon
  <2>2. NetTypeOK'
    BY <1>0, <2>1, Zenon DEF netVars, NetTypeOK
  <2> QED BY <1>0, <1>1, <2>2, SMTT(40) DEF Report, netVars, gateVars, appVars, IInv, TypeOK
<1>2. ASSUME NEW r \in Reporters, ReporterStep(r) PROVE SwitchInv'
  <2>1. IInv'
    BY <1>0, <1>2, ReporterIInv, Zenon
  <2>2. NetTypeOK'
    BY <1>0, <2>1, SMTT(40) DEF netVars, NetTypeOK
  <2>3. UNCHANGED <<apc, config>>
    BY <1>2, Zenon DEF ReporterStep, AlreadyHeld, Hold, Supersede, SignalOld, Wake, Subscribe,
                Load, Sleep, gateVars, appVars
  <2>4. held \subseteq held'
    BY <1>2, Zenon DEF ReporterStep, AlreadyHeld, Hold, Supersede, SignalOld, Wake, Subscribe,
                Load, Sleep, gateVars
  <2>5. pc[NetThread] # pc'[NetThread] => pc[NetThread] # "idle" /\ pc'[NetThread] # "lock"
    BY <1>0, <1>2, Zenon DEF ReporterStep, AlreadyHeld, Hold, Supersede, SignalOld, Wake,
       Subscribe, Load, Sleep, Answered, Return, IInv, TypeOK
  <2>6. pc'[NetThread] = "lock" => ask'[NetThread] = ask[NetThread]
    BY <1>0, <1>2, Zenon DEF ReporterStep, AlreadyHeld, Hold, Supersede, SignalOld, Wake,
       Subscribe, Load, Sleep, Answered, Return, IInv, TypeOK
  <2>7. pc[NetThread] = "lock" /\ pc'[NetThread] # "lock" => held' # {}
    <3> SUFFICES ASSUME pc[NetThread] = "lock", pc'[NetThread] # "lock" PROVE held' # {}
      BY SMTT(40)
    <3>1. r = NetThread /\ (AlreadyHeld(r) \/ Hold(r))
      BY <1>0, <1>2, Zenon DEF ReporterStep, AlreadyHeld, Hold, Supersede, SignalOld, Wake,
         Subscribe, Load, Sleep, Answered, Return, IInv, TypeOK
    <3>2. affected_lanes("NetworkSwitch") = Lanes /\ "Vpn" \in Lanes
      BY SMTT(40) DEF affected_lanes, Lanes
    <3> QED BY <3>1, <3>2, Zenon DEF AlreadyHeld, Hold, gateVars
  <2> QED BY <1>0, <2>2, <2>3, <2>4, <2>5, <2>6, <2>7, Zenon DEF netVars
<1>3. ASSUME NEW a \in Apps, Decide(a) \/ Signal(a) \/ WakeAfter(a) PROVE SwitchInv'
  <2>1. IInv'
    BY <1>0, <1>3, AppIInv, Zenon DEF AppStep
  <2>2. NetTypeOK'
    BY <1>0, <2>1, Zenon DEF netVars, NetTypeOK
  <2>3. /\ UNCHANGED <<config, held, pc, ask>>
        /\ apc[a] # "claimed"
        /\ \A b \in Apps : b # a => apc'[b] = apc[b]
    BY <1>0, <1>3, SMTT(40) DEF Decide, Signal, WakeAfter, gateVars, reporterVars, IInv, TypeOK
  <2> QED BY <1>0, <2>2, <2>3, ZenonT(40) DEF netVars
<1>4. CASE StartWatch \/ StopWatch \/ WatchStep \/ DeadlinePasses
  <2>1. IInv'
    BY <1>0, <1>4, WatchIInv, ZenonT(40)
  <2>2. NetTypeOK'
    BY <1>0, <2>1 DEF netVars, NetTypeOK
  <2>3. UNCHANGED <<config, held, pc, ask, apc>>
    BY <1>4 DEF StartWatch, StopWatch, WatchStep, WatchRecv, WatchLook, WatchExpire,
                WatchReport, DeadlinePasses, gateVars, reporterVars, appVars
  <2> QED BY <1>0, <2>2, <2>3, ZenonT(40) DEF netVars
<1> QED BY <1>1, <1>2, <1>3, <1>4, Zenon DEF GateStep

\* The inductive invariant of the composition.
THEOREM SwitchInvHolds == NetSpec => []SwitchInv
<1>1. SwitchInv /\ [NetNext]_allVars => SwitchInv'
  <2> SUFFICES ASSUME SwitchInv, [NetNext]_allVars PROVE SwitchInv'
    BY Zenon
  <2>1. CASE UNCHANGED allVars
    <3>1. IInv'
      BY <2>1, GateIdle, SMTT(40) DEF allVars, SwitchInv, NetTypeOK
    <3> QED BY <2>1, <3>1, Zenon DEF allVars, netVars, vars, gateVars, reporterVars, appVars,
               SwitchInv, NetTypeOK
  <2> QED BY <2>1, NetStepInv, ConfirmInv, GateStepInv DEF NetNext
<1> QED BY <1>1, InitSwitchInv, PTL DEF NetSpec

\* With nothing in flight, sessions, resolver and tunnel are on the dialer's network.
THEOREM Rebound == NetSpec => []ReboundToDialer
<1>1. SwitchInv => ReboundToDialer
  BY SMTT(40) DEF SwitchInv, ReboundToDialer, Quiet
<1> QED BY <1>1, SwitchInvHolds, PTL

\* Open lanes run on the network last reported, unless a callback or a reload came
\* between a confirmation's steps.
THEOREM LatestNetwork == NetSpec => []OpenLanesOnLatestNetwork
<1>1. SwitchInv => OpenLanesOnLatestNetwork
  BY DEF SwitchInv, OpenLanesOnLatestNetwork, Quiet
<1> QED BY <1>1, SwitchInvHolds, PTL

\* The gate's own guarantee survives the composition.
THEOREM NetHeldMatches == NetSpec => []HeldMatchesQuestion
<1>1. SwitchInv => HeldMatchesQuestion
  BY DEF SwitchInv, NetTypeOK, IInv, QuestionInv
<1> QED BY <1>1, SwitchInvHolds, PTL
=============================================================================
