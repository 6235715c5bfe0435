--------------------------- MODULE WorkerPromise ---------------------------
(***************************************************************************)
(* What the runtime promises about a worker thread and about the DNS state *)
(* it hands to a successor: one owner at a time, one report, and a         *)
(* continuation that becomes ready only by a clean join.                   *)
(***************************************************************************)
EXTENDS Naturals

VARIABLES
  alive,     \* has the thread not ended
  owner,     \* who must join it: the "handle", the "quarantine" list, or
             \* nobody any more ("joined")
  reports,   \* how many callers were told Stopped
  handover   \* the continuation: "open", "ready" or "revoked"

vars == <<alive, owner, reports, handover>>

Init == alive = TRUE /\ owner = "handle" /\ reports = 0 /\ handover = "open"

End ==
  /\ alive /\ alive' = FALSE
  /\ UNCHANGED <<owner, reports, handover>>

\* The one report, and the one way a continuation becomes ready.
JoinAndReport ==
  /\ owner = "handle" /\ ~alive
  /\ owner' = "joined"
  /\ reports' = reports + 1
  /\ handover' = IF handover = "open" THEN "ready" ELSE handover
  /\ UNCHANGED alive

\* A worker given up on takes its continuation with it.
GiveUp ==
  /\ owner = "handle" /\ handover = "revoked"
  /\ owner' = "quarantine"
  /\ UNCHANGED <<alive, reports, handover>>

ReapFromQuarantine ==
  /\ owner = "quarantine" /\ ~alive
  /\ owner' = "joined"
  /\ UNCHANGED <<alive, reports, handover>>

Revoke ==
  /\ handover' = "revoked"
  /\ UNCHANGED <<alive, owner, reports>>

Next == End \/ JoinAndReport \/ GiveUp \/ ReapFromQuarantine \/ Revoke

Spec == Init /\ [][Next]_vars
=============================================================================
