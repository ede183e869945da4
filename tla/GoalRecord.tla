----------------------------- MODULE GoalRecord -----------------------------
(***************************************************************************)
(* One record of RepoSubagentStore: a goal conversation.  Every operation  *)
(* holds the store's lock and rewrites the file before it returns.         *)
(*                                                                         *)
(* The step plan is kept as one fact, whether a step of it is blocked on   *)
(* the human (ArchGoalPlans.AwaitsHuman); the summary as whether there is  *)
(* one and whether it is marked delivered; EndedAt as the number of the    *)
(* ending, which is what the delivery order compares.                      *)
(***************************************************************************)
EXTENDS Naturals, Sequences

CONSTANTS
  Messages, \* what the parent agent and the Operator write to a conversation
  MaxQueue  \* RepoSubagentStore.MaxQueue

ASSUME QueueAssumption == MaxQueue \in Nat \ {0}

EndStates == {"done", "capped", "error", "stopped"}

Records ==
  [state : {"none", "running"} \cup EndStates, held : BOOLEAN, awaits : BOOLEAN,
   queue : Seq(Messages), session : BOOLEAN, summary : BOOLEAN, told : BOOLEAN, endedAt : Nat]

NoRecord ==
  [state |-> "none", held |-> FALSE, awaits |-> FALSE, queue |-> <<>>, session |-> FALSE,
   summary |-> FALSE, told |-> FALSE, endedAt |-> 0]

IsRunning(r)   == r.state = "running"
HasEnded(r)    == r.state \in EndStates
Undelivered(r) == HasEnded(r) /\ r.summary /\ ~r.told

StartRecord == [NoRecord EXCEPT !.state = "running"]

\* Continue: the queue and the session stay, an undelivered summary goes.
Reopened(r) ==
  [r EXCEPT !.state = "running", !.held = FALSE, !.awaits = FALSE,
            !.summary = FALSE, !.told = FALSE, !.endedAt = 0]

Newest(q) == IF Len(q) > MaxQueue THEN SubSeq(q, Len(q) - MaxQueue + 1, Len(q)) ELSE q

Queued(r, m) == IF IsRunning(r) THEN [r EXCEPT !.queue = Newest(Append(@, m))] ELSE r

\* Variant: the messages are read and not taken.
Drained_Kept(r) == r

Drained(r) == [r EXCEPT !.queue = <<>>]

Ended(r, state, n) ==
  IF IsRunning(r)
    THEN [r EXCEPT !.state = state, !.held = FALSE, !.summary = TRUE, !.told = FALSE, !.endedAt = n]
    ELSE r

\* Variant: the delivery is not written down.
MarkedDelivered_Unsaved(r) == r

\* These three do not look at the state.
MarkedDelivered(r) == [r EXCEPT !.told = TRUE]
WithHeld(r, held)  == [r EXCEPT !.held = held]
WithPlan(r, waits) == [r EXCEPT !.awaits = waits]
=============================================================================
