--------------------------- MODULE MCNetworkSwitch -------------------------
(* NetworkSwitch for TLC: one run over several casts, each the part of the  *)
(* threads, policies and reports that one question needs.                   *)
EXTENDS NetworkSwitch

CONSTANTS r1, a1, a2

AskAlways == [permits |-> {}, timed |-> FALSE]
AskInTime == [permits |-> {}, timed |-> TRUE]
NeverAsk == [permits |-> Interruptions, timed |-> FALSE]
MCConfigs == {AskAlways, AskInTime, NeverAsk}

VARIABLE cast   \* who takes part; fixed by the initial state

\* Two reporters and two answers of the same holds.
Answers == [threads |-> {NetThread, r1, a1, a2}, configs |-> {AskAlways}, handles |-> 2,
            reported |-> {"ProxySession"}, waits |-> BOOLEAN, stops |-> FALSE]
\* Holds with deadlines, before and after the watch is attached or stopped.
Deadlines == [threads |-> {r1, a1}, configs |-> {AskInTime}, handles |-> 1,
              reported |-> {"VpnFailure", "NetworkSwitch"}, waits |-> {FALSE}, stops |-> TRUE]
\* Network callbacks, confirmations and reloads.
Switches == [threads |-> {NetThread, a1}, configs |-> {AskInTime, NeverAsk}, handles |-> 3,
             reported |-> {}, waits |-> {FALSE}, stops |-> FALSE]

MCInit == cast \in {Answers, Deadlines, Switches} /\ NetInit /\ config \in cast.configs

MCNext ==
  /\ NetNext
  /\ config' \in cast.configs /\ latest' <= cast.handles
  /\ \A r \in Reporters \ {NetThread} :
       pc'[r] # "idle" => /\ r \in cast.threads
                         /\ ask'[r].interruption \in cast.reported
                         /\ ask'[r].waits \in cast.waits
  /\ \A a \in Apps \ cast.threads : apc'[a] = "idle"
  /\ cast.stops \/ wakeup \in {wakeup', FALSE}
  /\ UNCHANGED cast

MCSpec == MCInit /\ [][MCNext]_<<allVars, cast>> /\ NetFairness

(* A hold ends: whoever waits on it resumes once it is answered, and a     *)
(* deadline that passes is reported.                                       *)
HoldsEnd == WaitersResume /\ DeadlineReported
=============================================================================
