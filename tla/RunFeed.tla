------------------------------- MODULE RunFeed -------------------------------
(***************************************************************************)
(* What a detached run promises its readers, and nothing of how: a run is  *)
(* a log that only grows and is then closed; a reader that joined at some  *)
(* point of the log reads on from there one event at a time, in order, and *)
(* is told the end exactly when the log is closed and read to its end.     *)
(* Buffers, channels, locks and the turn that fills the log are left out.  *)
(***************************************************************************)
EXTENDS Naturals

CONSTANTS Readers, LogIds

VARIABLES
  stage,    \* stage[r]: "future", "open" or "closed"
  newest,   \* newest[r]: the seq of the newest event of log r
  reader    \* where each reader is

feedVars == <<stage, newest, reader>>

Away == [on |-> FALSE, log |-> 0, at |-> 0, told |-> FALSE]

Init ==
  /\ stage = [r \in LogIds |-> "future"]
  /\ newest = [r \in LogIds |-> 0]
  /\ reader = [a \in Readers |-> Away]

\* A log may start at any count.
Open(r) ==
  /\ stage[r] = "future"
  /\ stage' = [stage EXCEPT ![r] = "open"]
  /\ newest'[r] \in Nat
  /\ newest' = [newest EXCEPT ![r] = newest'[r]]
  /\ UNCHANGED reader

Publish(r) ==
  /\ stage[r] = "open"
  /\ newest' = [newest EXCEPT ![r] = @ + 1]
  /\ UNCHANGED <<stage, reader>>

Close(r) ==
  /\ stage[r] = "open"
  /\ stage' = [stage EXCEPT ![r] = "closed"]
  /\ UNCHANGED <<newest, reader>>

\* The process that serves the logs is lost: everything closes, everybody is away.
Lose ==
  /\ stage' = [r \in LogIds |-> IF stage[r] = "open" THEN "closed" ELSE stage[r]]
  /\ reader' = [a \in Readers |-> Away]
  /\ UNCHANGED newest

Join(a, r) ==
  /\ ~reader[a].on
  /\ stage[r] # "future"
  /\ \E at \in 0..newest[r] :
       reader' = [reader EXCEPT ![a] = [on |-> TRUE, log |-> r, at |-> at, told |-> FALSE]]
  /\ UNCHANGED <<stage, newest>>

Read(a) ==
  /\ reader[a].on
  /\ reader[a].at < newest[reader[a].log]
  /\ reader' = [reader EXCEPT ![a].at = @ + 1]
  /\ UNCHANGED <<stage, newest>>

Tell(a) ==
  /\ reader[a].on
  /\ ~reader[a].told
  /\ stage[reader[a].log] = "closed"
  /\ reader[a].at = newest[reader[a].log]
  /\ reader' = [reader EXCEPT ![a].told = TRUE]
  /\ UNCHANGED <<stage, newest>>

Leave(a) ==
  /\ reader[a].on
  /\ reader' = [reader EXCEPT ![a] = Away]
  /\ UNCHANGED <<stage, newest>>

Next ==
  \/ \E r \in LogIds : Open(r) \/ Publish(r) \/ Close(r)
  \/ Lose
  \/ \E a \in Readers :
       \/ \E r \in LogIds : Join(a, r)
       \/ Read(a) \/ Tell(a) \/ Leave(a)

\* A reader that stays is served, up to the end.
Spec ==
  /\ Init /\ [][Next]_feedVars
  /\ \A a \in Readers : WF_feedVars(Read(a)) /\ WF_feedVars(Tell(a))
=============================================================================
