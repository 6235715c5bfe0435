--------------------------- MODULE ContinuityGate --------------------------
(***************************************************************************)
(* ContinuityGate: what the core does at the point where it would repair    *)
(* itself and its policy says to ask first. The affected lanes are held,    *)
(* a token is issued, and only the confirmation of that token lets go.      *)
(*                                                                         *)
(* Reporters are the outbounds, selectors and callbacks that reach such a   *)
(* point; apps are the threads that answer; the watch is the thread that    *)
(* reports a deadline nobody met. A critical section under the pending      *)
(* lock is one step; so is every access outside it.                         *)
(***************************************************************************)
EXTENDS Naturals

CONSTANTS Reporters,  \* threads and tasks that report interruptions
          Apps,       \* threads that answer confirmations
          Reported,   \* the interruptions they report
          Configs,    \* the continuity policies a reload may install
          MaxToken    \* bound on the holds raised

Lanes == {"Vpn", "Direct", "Tor", "I2p"}
Interruptions == {"ProxySession", "SelectorMember", "VpnFailure", "NetworkSwitch"}

ASSUME MaxTokenAssumption == MaxToken \in Nat
ASSUME ReportedAssumption == Reported \subseteq Interruptions
ASSUME ConfigsAssumption ==
  Configs \subseteq [permits : SUBSET Interruptions, timed : BOOLEAN]

Tokens == 1..MaxToken

VARIABLES
  config,     \* the policy in force: the repairs it permits, and whether a
              \* confirmation is given a deadline
  held,       \* lanes refusing flows
  nextToken,
  pending,    \* the question that is open; token 0 when there is none
  verdict,    \* per token, the state of its Confirmation
  wakeup,     \* is the watch's channel attached to the gate
  wake,       \* is a wakeup waiting in it (its capacity is one)
  pc,         \* where each reporter is
  ask,        \* what it reports: the interruption, whether the policy it read
              \* gives a deadline, whether it waits for the answer
  token,      \* the hold it raised or joined
  old,        \* the hold it replaced
  heard,      \* has its Notified been signalled since it was created
  apc,        \* where each app thread is
  answer,     \* the token it is confirming
  watch,      \* where the watch is
  seen,       \* the hold whose deadline it read
  passed,     \* holds whose deadline is in the past
  attached,   \* the first token it could be woken for (history)
  expiries    \* ConfirmationExpired events published, per token

gateVars == <<config, held, nextToken, pending, verdict, wakeup, wake>>
reporterVars == <<pc, ask, token, old, heard>>
appVars == <<apc, answer>>
watchVars == <<watch, seen, passed, attached>>
vars == <<gateVars, reporterVars, appVars, watchVars, expiries>>

Asks == [interruption : Interruptions, timed : BOOLEAN, waits : BOOLEAN]
NoAsk == [interruption |-> "ProxySession", timed |-> FALSE, waits |-> FALSE]
NoHold == [interruption |-> "none", token |-> 0, deadline |-> FALSE,
           expired |-> FALSE, confirming |-> FALSE]
Pendings == [interruption : Interruptions \cup {"none"}, token : Nat,
             deadline : BOOLEAN, expired : BOOLEAN, confirming : BOOLEAN]
Verdicts == {"open", "confirmed", "superseded"}
ReporterPcs == {"idle", "lock", "supersede", "signalOld", "wake",
                "subscribe", "load", "sleep"}
AppPcs == {"idle", "claimed", "decide", "signal", "wake"}
WatchPcs == {"unborn", "parked", "look", "expire", "report", "timed", "ended"}

IsPending == pending.token # 0

affected_lanes(i) ==
  CASE i \in {"ProxySession", "SelectorMember"} -> {"Vpn"}
    [] i = "VpnFailure" -> {"Vpn", "Direct"}
    [] i = "NetworkSwitch" -> Lanes
    [] OTHER -> {}

is_permitted(c, i) == i \in c.permits

TypeOK ==
  /\ config \in Configs
  /\ held \subseteq Lanes
  /\ nextToken \in 1..MaxToken + 1
  /\ pending \in Pendings
  /\ verdict \in [Tokens -> Verdicts]
  /\ wakeup \in BOOLEAN /\ wake \in BOOLEAN
  /\ pc \in [Reporters -> ReporterPcs]
  /\ ask \in [Reporters -> Asks]
  /\ token \in [Reporters -> Nat] /\ old \in [Reporters -> Nat]
  /\ heard \in [Reporters -> BOOLEAN]
  /\ apc \in [Apps -> AppPcs] /\ answer \in [Apps -> Nat]
  /\ watch \in WatchPcs /\ seen \in Nat
  /\ passed \subseteq Tokens /\ attached \in Nat
  /\ expiries \in [Tokens -> Nat]

\* A gate whose watch is not attached yet, as CoreRuntime::start builds it.
Init ==
  /\ config \in Configs
  /\ held = {}
  /\ nextToken = 1
  /\ pending = NoHold
  /\ verdict = [t \in Tokens |-> "open"]
  /\ wakeup = FALSE /\ wake = FALSE
  /\ pc = [r \in Reporters |-> "idle"]
  /\ ask = [r \in Reporters |-> NoAsk]
  /\ token = [r \in Reporters |-> 0]
  /\ old = [r \in Reporters |-> 0]
  /\ heard = [r \in Reporters |-> FALSE]
  /\ apc = [a \in Apps |-> "idle"]
  /\ answer = [a \in Apps |-> 0]
  /\ watch = "unborn" /\ seen = 0
  /\ passed = {} /\ attached = 0
  /\ expiries = [t \in Tokens |-> 0]

-----------------------------------------------------------------------------
(* Steps the threads share *)

\* Confirmation::finish, its compare-exchange.
Finish(t, v) ==
  verdict' = [verdict EXCEPT ![t] = IF @ = "open" THEN v ELSE @]

\* Confirmation::finish, its notify_waiters: every Notified that exists.
NotifyWaiters(t) ==
  heard' = [r \in Reporters |->
              heard[r] \/ (token[r] = t /\ pc[r] \in {"load", "sleep"})]

\* Mutant: a wakeup that finds the channel empty is not sent.
TryWakeNever == UNCHANGED wake

\* ContinuityGate::wake: a try_send that a full or absent channel swallows.
TryWake == wake' = (wake \/ wakeup)

-----------------------------------------------------------------------------
(* interrupt and permit *)

\* The policy is read before the lock is taken. A repair it permits proceeds and
\* changes nothing here.
Report(r, i, w) ==
  /\ pc[r] = "idle" /\ ~is_permitted(config, i)
  /\ ask' = [ask EXCEPT ![r] = [interruption |-> i, timed |-> config.timed, waits |-> w]]
  /\ pc' = [pc EXCEPT ![r] = "lock"]
  /\ UNCHANGED <<gateVars, token, old, heard, appVars, watchVars, expiries>>

\* The call is over: interrupt returned, or the future of permit completed.
Return(r) ==
  /\ pc' = [pc EXCEPT ![r] = "idle"]
  /\ ask' = [ask EXCEPT ![r] = NoAsk]
  /\ token' = [token EXCEPT ![r] = 0]
  /\ old' = [old EXCEPT ![r] = 0]

\* interrupt returns; permit goes on to wait for the answer to hold t.
Answered(r, t) ==
  \/ ~ask[r].waits /\ Return(r)
  \/ /\ ask[r].waits
     /\ pc' = [pc EXCEPT ![r] = "subscribe"]
     /\ token' = [token EXCEPT ![r] = t]
     /\ UNCHANGED <<ask, old>>

AlreadyHeld(r) ==
  /\ pc[r] = "lock"
  /\ IsPending /\ affected_lanes(ask[r].interruption) \subseteq held
  /\ Answered(r, pending.token)
  /\ UNCHANGED <<gateVars, heard, appVars, watchVars, expiries>>

\* Blocked first, announced second; the hold it widens is replaced.
Hold(r) ==
  /\ pc[r] = "lock" /\ nextToken <= MaxToken
  /\ ~(IsPending /\ affected_lanes(ask[r].interruption) \subseteq held)
  /\ nextToken' = nextToken + 1
  /\ held' = held \cup affected_lanes(ask[r].interruption)
  /\ pending' = [interruption |-> ask[r].interruption, token |-> nextToken,
                 deadline |-> ask[r].timed, expired |-> FALSE, confirming |-> FALSE]
  /\ token' = [token EXCEPT ![r] = nextToken]
  /\ old' = [old EXCEPT ![r] = pending.token]
  /\ pc' = [pc EXCEPT ![r] = IF IsPending THEN "supersede" ELSE "wake"]
  /\ UNCHANGED <<config, verdict, wakeup, wake, ask, heard, appVars, watchVars,
                 expiries>>

\* Mutant: the waiters of the replaced hold are forgotten.
SupersedeForgets(r) ==
  /\ pc[r] = "supersede"
  /\ pc' = [pc EXCEPT ![r] = "wake"]
  /\ UNCHANGED <<gateVars, ask, token, old, heard, appVars, watchVars, expiries>>

Supersede(r) ==
  /\ pc[r] = "supersede"
  /\ Finish(old[r], "superseded")
  /\ pc' = [pc EXCEPT ![r] = "signalOld"]
  /\ UNCHANGED <<config, held, nextToken, pending, wakeup, wake, ask, token, old,
                 heard, appVars, watchVars, expiries>>

SignalOld(r) ==
  /\ pc[r] = "signalOld"
  /\ NotifyWaiters(old[r])
  /\ pc' = [pc EXCEPT ![r] = "wake"]
  /\ UNCHANGED <<gateVars, ask, token, old, appVars, watchVars, expiries>>

\* The event is published, and the watch woken.
Wake(r) ==
  /\ pc[r] = "wake"
  /\ TryWake
  /\ Answered(r, token[r])
  /\ UNCHANGED <<config, held, nextToken, pending, verdict, wakeup, heard, appVars,
                 watchVars, expiries>>

\* Confirmation::wait. The Notified is created before the state is loaded.
Subscribe(r) ==
  /\ pc[r] = "subscribe"
  /\ pc' = [pc EXCEPT ![r] = "load"]
  /\ UNCHANGED <<gateVars, ask, token, old, heard, appVars, watchVars, expiries>>

Load(r) ==
  /\ pc[r] = "load"
  /\ \/ /\ verdict[token[r]] = "open"
        /\ pc' = [pc EXCEPT ![r] = "sleep"]
        /\ UNCHANGED <<ask, token, old, heard>>
     \/ /\ verdict[token[r]] # "open"
        /\ Return(r)
        /\ heard' = [heard EXCEPT ![r] = FALSE]
  /\ UNCHANGED <<gateVars, appVars, watchVars, expiries>>

Sleep(r) ==
  /\ pc[r] = "sleep" /\ heard[r]
  /\ heard' = [heard EXCEPT ![r] = FALSE]
  /\ pc' = [pc EXCEPT ![r] = "subscribe"]
  /\ UNCHANGED <<gateVars, ask, token, old, appVars, watchVars, expiries>>

ReporterStep(r) ==
  \/ AlreadyHeld(r) \/ Hold(r) \/ Supersede(r) \/ SignalOld(r)
  \/ Wake(r) \/ Subscribe(r) \/ Load(r) \/ Sleep(r)

-----------------------------------------------------------------------------
(* claim_confirmation and complete_confirmation *)

\* A stale or a claimed token is refused and changes nothing.
Claim(a, t) ==
  /\ apc[a] = "idle" /\ t # 0 /\ pending.token = t /\ ~pending.confirming
  /\ pending' = [pending EXCEPT !.confirming = TRUE]
  /\ answer' = [answer EXCEPT ![a] = t]
  /\ apc' = [apc EXCEPT ![a] = "claimed"]
  /\ UNCHANGED <<config, held, nextToken, verdict, wakeup, wake, reporterVars,
                 watchVars, expiries>>

\* Mutant: whatever is pending is completed.
CompleteAny(a) ==
  /\ apc[a] = "claimed"
  /\ pending' = NoHold /\ held' = {}
  /\ apc' = [apc EXCEPT ![a] = "decide"]
  /\ UNCHANGED <<config, nextToken, verdict, wakeup, wake, answer, reporterVars,
                 watchVars, expiries>>

Complete(a) ==
  /\ apc[a] = "claimed"
  /\ \/ /\ pending.token = answer[a] /\ pending.confirming
        /\ pending' = NoHold /\ held' = {}
        /\ apc' = [apc EXCEPT ![a] = "decide"]
        /\ UNCHANGED answer
     \/ /\ ~(pending.token = answer[a] /\ pending.confirming)
        /\ apc' = [apc EXCEPT ![a] = "idle"]
        /\ answer' = [answer EXCEPT ![a] = 0]
        /\ UNCHANGED <<pending, held>>
  /\ UNCHANGED <<config, nextToken, verdict, wakeup, wake, reporterVars,
                 watchVars, expiries>>

Decide(a) ==
  /\ apc[a] = "decide"
  /\ Finish(answer[a], "confirmed")
  /\ apc' = [apc EXCEPT ![a] = "signal"]
  /\ UNCHANGED <<config, held, nextToken, pending, wakeup, wake, answer, reporterVars,
                 watchVars, expiries>>

Signal(a) ==
  /\ apc[a] = "signal"
  /\ NotifyWaiters(answer[a])
  /\ apc' = [apc EXCEPT ![a] = "wake"]
  /\ UNCHANGED <<gateVars, pc, ask, token, old, answer, watchVars, expiries>>

WakeAfter(a) ==
  /\ apc[a] = "wake"
  /\ TryWake
  /\ apc' = [apc EXCEPT ![a] = "idle"]
  /\ answer' = [answer EXCEPT ![a] = 0]
  /\ UNCHANGED <<config, held, nextToken, pending, verdict, wakeup, reporterVars,
                 watchVars, expiries>>

AppStep(a) == Complete(a) \/ Decide(a) \/ Signal(a) \/ WakeAfter(a)

-----------------------------------------------------------------------------
(* The policy, and the deadline watch *)

SetConfig ==
  /\ config' \in Configs \ {config}
  /\ UNCHANGED <<held, nextToken, pending, verdict, wakeup, wake, reporterVars,
                 appVars, watchVars, expiries>>

\* start_continuity_watch, and the clear_wakeup of stop_continuity_watch.
StartWatch ==
  /\ watch = "unborn"
  /\ wakeup' = TRUE /\ watch' = "parked"
  /\ attached' = nextToken
  /\ UNCHANGED <<config, held, nextToken, pending, verdict, wake, reporterVars,
                 appVars, seen, passed, expiries>>

StopWatch ==
  /\ wakeup /\ wakeup' = FALSE
  /\ UNCHANGED <<config, held, nextToken, pending, verdict, wake, reporterVars,
                 appVars, watchVars, expiries>>

\* recv, and recv_timeout, which also returns when the deadline it was given is
\* past. A wakeup left in the channel is read before the channel is found closed.
WatchRecv ==
  /\ watch \in {"parked", "timed"}
  /\ \/ /\ wake
        /\ wake' = FALSE /\ watch' = "look"
     \/ /\ ~wake /\ ~wakeup
        /\ watch' = "ended" /\ UNCHANGED wake
     \/ /\ watch = "timed" /\ seen \in passed
        /\ watch' = "look" /\ UNCHANGED wake
  /\ UNCHANGED <<config, held, nextToken, pending, verdict, wakeup, reporterVars,
                 appVars, seen, passed, attached, expiries>>

\* gate.deadline() and the comparison with now.
WatchLook ==
  /\ watch = "look"
  /\ seen' = IF pending.deadline THEN pending.token ELSE 0
  /\ watch' = IF ~pending.deadline THEN "parked"
              ELSE IF pending.token \in passed THEN "expire" ELSE "timed"
  /\ UNCHANGED <<gateVars, reporterVars, appVars, passed, attached, expiries>>

\* gate.expire(now): a hold raised after now was read has a later deadline.
WatchExpire ==
  /\ watch = "expire"
  /\ IF pending.token = seen /\ pending.deadline
       THEN /\ pending' = [pending EXCEPT !.deadline = FALSE, !.expired = TRUE]
            /\ watch' = "report"
       ELSE watch' = "look" /\ UNCHANGED pending
  /\ UNCHANGED <<config, held, nextToken, verdict, wakeup, wake, reporterVars,
                 appVars, seen, passed, attached, expiries>>

WatchReport ==
  /\ watch = "report"
  /\ expiries' = [expiries EXCEPT ![seen] = @ + 1]
  /\ watch' = "look"
  /\ UNCHANGED <<gateVars, reporterVars, appVars, seen, passed, attached>>

WatchStep == WatchRecv \/ WatchLook \/ WatchExpire \/ WatchReport

\* The clock reaches a deadline that somebody may still look at.
DeadlinePasses ==
  /\ \E t \in Tokens \ passed :
       /\ (t = pending.token /\ pending.deadline) \/ (t = seen /\ watch = "timed")
       /\ passed' = passed \cup {t}
  /\ UNCHANGED <<gateVars, reporterVars, appVars, watch, seen, attached, expiries>>

-----------------------------------------------------------------------------
Next ==
  \/ \E r \in Reporters :
       (\E i \in Reported, w \in BOOLEAN : Report(r, i, w)) \/ ReporterStep(r)
  \/ \E a \in Apps : (\E t \in Tokens : Claim(a, t)) \/ AppStep(a)
  \/ SetConfig \/ StartWatch \/ StopWatch
  \/ WatchStep \/ DeadlinePasses

Spec == Init /\ [][Next]_vars

-----------------------------------------------------------------------------
(* Properties *)

\* The lanes that refuse flows are exactly those of the question that is open:
\* no lane is held that no answer would release, and no question is open over a
\* lane that carries traffic.
HeldMatchesQuestion == held = affected_lanes(pending.interruption)

\* Of all the threads answering one token, at most one gets to release it.
OneClaim ==
  \A a, b \in Apps :
    /\ apc[a] = "claimed" /\ apc[b] = "claimed"
    /\ answer[a] = pending.token /\ answer[b] = pending.token
    => a = b

\* What the open question looks like, and that its token is not to be issued again.
QuestionInv ==
  /\ pending.token < nextToken
  /\ pending.token = 0 => pending = NoHold
  /\ HeldMatchesQuestion

\* A thread between its claim and its completion holds the claim on the question
\* it answers, or that question is gone for good.
ClaimInv ==
  /\ \A a \in Apps : apc[a] = "claimed" =>
       /\ answer[a] # 0 /\ answer[a] < nextToken
       /\ answer[a] = pending.token => pending.confirming
  /\ OneClaim

\* A hold whose expiry is reported, or about to be, has no deadline any more.
ExpiryInv ==
  /\ watch = "report" => seen \in Tokens /\ seen < nextToken
  /\ \A t \in Tokens :
       /\ t >= nextToken => expiries[t] = 0
       /\ expiries[t] \in {0, 1}
       /\ watch = "report" /\ seen = t => expiries[t] = 0
       /\ expiries[t] = 1 \/ (watch = "report" /\ seen = t)
            => ~(pending.token = t /\ pending.deadline)

\* The inductive invariant.
IInv == TypeOK /\ QuestionInv /\ ClaimInv /\ ExpiryInv

\* "The stale token is refused and the newer hold stays up": a lane stops being
\* held only by the thread that claimed the very question now open. Neither a
\* reload, nor a deadline, nor the answer to an earlier question releases it.
OnlyItsAnswerReleases ==
  [][held \subseteq held' \/
       \E a \in Apps : /\ apc[a] = "claimed" /\ apc'[a] = "decide"
                       /\ answer[a] = pending.token /\ pending.confirming]_vars

\* "A deadline expires exactly once per hold", whatever wakes the watch.
ExpiresOnce == \A t \in Tokens : expiries[t] <= 1

\* A question that is no longer open has been decided: its waiters are told, by
\* the compare-exchange and by a notification none of them can miss.
WaitersResume ==
  \A r \in Reporters :
    pc[r] \in {"subscribe", "load", "sleep"} /\ token[r] # pending.token ~> pc[r] = "idle"

\* "What it does is publish ConfirmationExpired once and set the polled expired
\* flag": a hold with a deadline that stays up is reported, unless the watch is
\* stopped first. A hold raised before start_continuity_watch attaches the
\* channel (the worker's own VpnFailure while it initialises) is left out: its
\* wakeup is dropped, and nothing looks at its deadline until the next one.
DeadlineReported ==
  \A t \in Tokens :
    pending.token = t /\ pending.deadline /\ attached \in 1..t
      ~> pending.token # t \/ pending.expired \/ watch = "ended" \/ ~wakeup
=============================================================================
