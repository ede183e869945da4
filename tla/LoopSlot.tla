------------------------------ MODULE LoopSlot ------------------------------
(***************************************************************************)
(* The one loop record a key has in LoopConfigStore, reduced to what a     *)
(* goal loop in drive mode uses.  Every operation of the store holds its   *)
(* lock and rewrites loops.json before it returns, so each operator here   *)
(* is one atomic step on the record and the record survives a restart.     *)
(*                                                                         *)
(* ArmedAt is an arming generation: two armings in one millisecond are not *)
(* told apart by the program and do not happen here.  LastSentAt, the time *)
(* of the tick that sent, is kept as the comparison the engine makes with  *)
(* it: "sent" is LastSentAt > 0 /\ LastSentAt >= ArmedAt, and "late" says  *)
(* that the record was armed after the current tick read the clock.        *)
(***************************************************************************)
EXTENDS Naturals

Phases   == {"work", "verify"}
Reasons  == {"none", "user", "by-operator", "error", "needs-human", "verified", "cap", "no-reply"}
Statuses == {"none", "looping", "done", "escalate", "capped", "error", "stopped"}

LoopRecords ==
  [armedAt : Nat, active : BOOLEAN, status : Statuses, reason : Reasons, phase : Phases,
   iterations : Nat, sent : BOOLEAN, late : BOOLEAN]

NoLoop ==
  [armedAt |-> 0, active |-> FALSE, status |-> "none", reason |-> "none", phase |-> "work",
   iterations |-> 0, sent |-> FALSE, late |-> FALSE]

Armed(e) == e.armedAt > 0

StartGoal(e) ==
  [NoLoop EXCEPT !.armedAt = e.armedAt + 1, !.active = TRUE, !.status = "looping", !.late = TRUE]

CanResume(e) == Armed(e) /\ ~e.active /\ e.status = "escalate"

\* The fields ResumeGoal resets are those a fresh arming sets; goal, prompts, mode
\* and cap are kept.
ResumeGoal(e) == IF CanResume(e) THEN StartGoal(e) ELSE e

Resolve(e, status, reason) ==
  IF Armed(e) THEN [e EXCEPT !.active = FALSE, !.status = status, !.reason = reason] ELSE e

StopLoop(e) == Resolve(e, "stopped", "user")

\* RecordSend looks neither at Active nor at the arming it is sent for.
RecordSend(e) ==
  IF Armed(e)
    THEN [e EXCEPT !.iterations = @ + 1, !.sent = ~e.late, !.status = "looping", !.reason = "none"]
    ELSE e

SetPhase(e, phase) == IF Armed(e) THEN [e EXCEPT !.phase = phase] ELSE e

\* ArchGoals.StateFor: the state a conversation ends in, from its loop's status.
StateFor(status) == IF status \in {"done", "capped", "error"} THEN status ELSE "stopped"

=============================================================================
