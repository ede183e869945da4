---------------------------- MODULE MC_RunSession ----------------------------
(* RunSession on small instances, and its refinement of RunFeed.             *)
EXTENDS RunSession

\* A run's log is open while the run is running; a reader is on from the
\* moment StreamAsync has taken its snapshot.
Feed == INSTANCE RunFeed WITH
  Readers <- Attachments,
  LogIds  <- 1..MaxRuns,
  stage   <- [r \in 1..MaxRuns |-> IF r \notin Runs THEN "future"
                                   ELSE IF Running(r) THEN "open" ELSE "closed"],
  newest  <- [r \in 1..MaxRuns |-> IF r \in Runs THEN LastSeq(r) ELSE 0],
  reader  <- [a \in Attachments |->
                IF att[a].state \in {"open", "ended"}
                THEN [on |-> TRUE, log |-> att[a].run, at |-> att[a].last,
                      told |-> att[a].state = "ended"]
                ELSE [on |-> FALSE, log |-> 0, at |-> 0, told |-> FALSE]]

\* A detached run serves its readers as RunFeed promises: every reader is handed
\* the log one event at a time without a hole or a repetition, and is told the end
\* exactly when it has read all of it.  EmitAsync, Complete, StreamAsync.
ServesTheFeed == Feed!Spec
=============================================================================
