----------------------------- MODULE RunSession -----------------------------
(***************************************************************************)
(* One run slot of the Harness: RunSession and RunSessionService           *)
(* (Services/Chat/RunSessionService.cs), the turn that CliRunnerService    *)
(* streams into it, and the SSE attachments that read it.                  *)
(*                                                                         *)
(* A slot is a (repository, lane) key.  Its sessions, in the order they    *)
(* were started, are the sequence sess; slot is the one the registry holds *)
(* (0: none).  A finished session object lives on while an attachment      *)
(* still reads it, so sess keeps all of them.                              *)
(***************************************************************************)
EXTENDS Naturals, Sequences, FiniteSets

CONSTANTS
  Attachments,        \* SSE connections a client can hold
  MaxBufferedEvents,  \* soft cap of the replay buffer (10 000 in the code)
  TrimChunk,          \* how many of the oldest events one trim drops (1 000)
  MaxRuns,            \* bound: runs started in this slot
  MaxEmits,           \* bound: events one run emits
  MaxRestarts         \* bound: how often the Harness process is replaced

ASSUME BufferAssumption ==
  /\ MaxBufferedEvents \in Nat /\ TrimChunk \in Nat
  /\ 0 < TrimChunk /\ TrimChunk <= MaxBufferedEvents

ASSUME BoundAssumption ==
  MaxRuns \in Nat /\ MaxEmits \in Nat /\ MaxRestarts \in Nat

VARIABLES
  sess,      \* every session ever started, oldest first
  slot,      \* the session the registry holds, an index of sess, or 0
  host,      \* "up", or "stopping" once ApplicationStopping has fired
  restarts,  \* how often the process was replaced
  att        \* the attachments

vars == <<sess, slot, host, restarts, att>>

Statuses == {"running", "done", "stopped", "error", "lost"}
Stages   == {"preflight", "cli", "ended", "complete", "notified", "lost"}
Faults   == {"none", "is_error", "exit_code", "crash", "cancelled"}
Kinds    == {"text", "done", "error"}
Runs     == 1..Len(sess)

-----------------------------------------------------------------------------
(* One session object.  fault is the first thing that went wrong with the    *)
(* turn ("is_error" is RunAsync's own sawError); cancelBy is who fired the   *)
(* cancellation first ("nobody": the token is not cancelled).                *)

NewSession(browser, startSeq) ==
  [status |-> "running", stage |-> IF browser THEN "preflight" ELSE "cli",
   start |-> startSeq, seq |-> startSeq, events |-> <<>>,
   sawDone |-> FALSE, sawError |-> FALSE,
   stopRequested |-> FALSE, cancelBy |-> "nobody", fault |-> "none"]

Running(r)   == sess[r].status = "running"
Cancelled(r) == sess[r].cancelBy # "nobody"
LastSeq(r)   == sess[r].seq
Ended(r)     == r \in Runs /\ ~Running(r)

\* Variant: the trim drops the newest chunk.
Buffered_DropsNewest(events, n) ==
  LET grown == Append(events, n) IN
  IF Len(grown) > MaxBufferedEvents THEN SubSeq(grown, 1, Len(grown) - TrimChunk) ELSE grown

\* EmitAsync's buffer: append, then drop the oldest chunk above the cap.
Buffered(events, n) ==
  LET grown == Append(events, n) IN
  IF Len(grown) > MaxBufferedEvents
  THEN SubSeq(grown, TrimChunk + 1, Len(grown))
  ELSE grown

EmitInto(s, kind) ==
  [s EXCEPT !.seq = @ + 1,
            !.events = Buffered(@, s.seq + 1),
            !.sawDone = @ \/ kind = "done",
            !.sawError = @ \/ kind = "error"]

\* EmitAsync, under the session's lock: sess[r] becomes s with one more event,
\* which every subscribed channel receives.
Emit(r, s, kind) ==
  /\ sess' = [sess EXCEPT ![r] = EmitInto(s, kind)]
  /\ att' = [a \in Attachments |->
               IF att[a].run = r /\ att[a].subscribed
               THEN [att[a] EXCEPT !.pending = Append(@, s.seq + 1)]
               ELSE att[a]]

FirstFault(old, new) == IF old = "none" THEN new ELSE old

CanEmit(r) == sess[r].seq < sess[r].start + MaxEmits

-----------------------------------------------------------------------------
(* The attachments.  after is the watermark the client asked with (at most   *)
(* the count of that moment); floor is where its stream began, last the seq  *)
(* of the newest event handed to it; pending is what is left of the replay   *)
(* list followed by the live channel.                                        *)

Lesser(m, n) == IF m < n THEN m ELSE n

Detached ==
  [state |-> "idle", run |-> 0, after |-> 0, last |-> 0, floor |-> 0,
   pending |-> <<>>, subscribed |-> FALSE]

\* Variant: the event at the watermark is replayed again.
Replay_FromWatermark(events, after) ==
  LET k == CHOOSE k \in 0..Len(events) :
             \A i \in 1..Len(events) : i <= k <=> events[i] < after
  IN  SubSeq(events, k + 1, Len(events))

\* StreamAsync's replay: the buffered events above the watermark.  The buffer is
\* ascending, so these are the ones past its first k.
Replay(events, after) ==
  LET k == CHOOSE k \in 0..Len(events) :
             \A i \in 1..Len(events) : i <= k <=> events[i] <= after
  IN  SubSeq(events, k + 1, Len(events))

\* Variant: a client that has something to replay is subscribed only afterwards.
Opened_LateSubscription(r, after) ==
  LET replay == Replay(sess[r].events, after)
      floor  == sess[r].seq - Len(replay)
  IN  [state |-> "open", run |-> r, after |-> Lesser(after, sess[r].seq), last |-> floor,
       floor |-> floor, pending |-> replay,
       subscribed |-> Running(r) /\ replay = <<>>]

Opened(r, after) ==
  LET replay == Replay(sess[r].events, after)
      floor  == sess[r].seq - Len(replay)
  IN  [state |-> "open", run |-> r, after |-> Lesser(after, sess[r].seq), last |-> floor,
       floor |-> floor, pending |-> replay, subscribed |-> Running(r)]

-----------------------------------------------------------------------------
Init ==
  /\ sess = <<>>
  /\ slot = 0
  /\ host = "up"
  /\ restarts = 0
  /\ att = [a \in Attachments |-> Detached]

SlotBusy == slot # 0 /\ Running(slot)

\* Variants: the slot is claimed without looking; the count starts afresh.
Begin_Unchecked(browser) ==
  /\ Len(sess) < MaxRuns
  /\ sess' = Append(sess, NewSession(browser, IF slot = 0 THEN 0 ELSE LastSeq(slot)))
  /\ slot' = Len(sess) + 1

Begin_FreshCount(browser) ==
  /\ ~SlotBusy
  /\ Len(sess) < MaxRuns
  /\ sess' = Append(sess, NewSession(browser, 0))
  /\ slot' = Len(sess) + 1

\* TryBeginRun: claims the slot, or leaves everything alone when it is busy.
Begin(browser) ==
  /\ ~SlotBusy
  /\ Len(sess) < MaxRuns
  /\ sess' = Append(sess, NewSession(browser, IF slot = 0 THEN 0 ELSE LastSeq(slot)))
  /\ slot' = Len(sess) + 1

TryBeginRun(browser) == Begin(browser) /\ UNCHANGED <<host, restarts, att>>

\* The pre-turn browser readiness check: a notice, when there is one, is an
\* event of type "error"; the turn runs either way.
Preflight(r, notice) ==
  /\ sess[r].stage = "preflight"
  /\ IF notice
     THEN Emit(r, [sess[r] EXCEPT !.stage = "cli"], "error")
     ELSE /\ sess' = [sess EXCEPT ![r].stage = "cli"]
          /\ UNCHANGED att
  /\ UNCHANGED <<slot, host, restarts>>

\* One stream-json line of the CLI, translated.  An "error" line is a result
\* with is_error or a rate limit: the adapter also raises OnError.
CliLine(r, kind) ==
  /\ sess[r].stage = "cli"
  /\ CanEmit(r)
  /\ Emit(r, [sess[r] EXCEPT !.fault = IF kind = "error" THEN "is_error" ELSE @], kind)
  /\ UNCHANGED <<slot, host, restarts>>

\* The process exits and its output is drained.  A non-zero exit code that no
\* error line announced becomes an error event.
CliExit(r, code) ==
  /\ sess[r].stage = "cli"
  /\ IF code # 0 /\ sess[r].fault # "is_error"
     THEN Emit(r, [sess[r] EXCEPT !.stage = "ended", !.fault = "exit_code"], "error")
     ELSE /\ sess' = [sess EXCEPT ![r].stage = "ended"]
          /\ UNCHANGED att
  /\ UNCHANGED <<slot, host, restarts>>

\* Variant: the cancellation is looked at only until the terminal line was read.
CliCancelled_BeforeDoneOnly(r) ==
  /\ sess[r].stage = "cli"
  /\ Cancelled(r) /\ ~sess[r].sawDone
  /\ Emit(r, [sess[r] EXCEPT !.stage = "ended",
                             !.fault = FirstFault(@, "cancelled")], "error")
  /\ UNCHANGED <<slot, host, restarts>>

\* RunAsync's catch (OperationCanceledException).
CliCancelled(r) ==
  /\ sess[r].stage = "cli"
  /\ Cancelled(r)
  /\ Emit(r, [sess[r] EXCEPT !.stage = "ended",
                             !.fault = FirstFault(@, "cancelled")], "error")
  /\ UNCHANGED <<slot, host, restarts>>

\* RunAsync's catch (Exception): the CLI cannot be started, or the pipe breaks.
CliCrash(r) ==
  /\ sess[r].stage = "cli"
  /\ Emit(r, [sess[r] EXCEPT !.stage = "ended", !.fault = FirstFault(@, "crash")], "error")
  /\ UNCHANGED <<slot, host, restarts>>

Outcome(s) ==
  IF s.sawDone /\ ~s.sawError THEN "done"
  ELSE IF s.stopRequested THEN "stopped"
  ELSE "error"

\* Variants: a Stop completes the session while its turn still unwinds; the
\* channels' contents are dropped; the channels are left open.
Complete_OnStop(r) ==
  /\ sess[r].stage \in {"cli", "ended"}
  /\ Running(r)
  /\ sess[r].stage = "ended" \/ Cancelled(r)
  /\ sess' = [sess EXCEPT ![r].status = Outcome(sess[r]),
                          ![r].stage = IF @ = "cli" THEN "cli" ELSE "complete"]
  /\ att' = [a \in Attachments |->
               IF att[a].run = r THEN [att[a] EXCEPT !.subscribed = FALSE] ELSE att[a]]
  /\ UNCHANGED <<slot, host, restarts>>

Complete_LeavesChannels(r) ==
  /\ sess[r].stage = "ended"
  /\ Running(r)
  /\ sess' = [sess EXCEPT ![r].status = Outcome(sess[r]), ![r].stage = "complete"]
  /\ UNCHANGED <<slot, host, restarts, att>>

\* Complete, under the lock: the single running -> terminal transition, which
\* also completes and forgets every subscribed channel.
Complete(r) ==
  /\ sess[r].stage = "ended"
  /\ Running(r)
  /\ sess' = [sess EXCEPT ![r].status = Outcome(sess[r]), ![r].stage = "complete"]
  /\ att' = [a \in Attachments |->
               IF att[a].run = r THEN [att[a] EXCEPT !.subscribed = FALSE] ELSE att[a]]
  /\ UNCHANGED <<slot, host, restarts>>

\* Variant: only a successful run is announced.
NotifyCompleted_DoneOnly(r) ==
  /\ sess[r].stage = "complete"
  /\ sess[r].status = "done"
  /\ sess' = [sess EXCEPT ![r].stage = "notified"]
  /\ UNCHANGED <<slot, host, restarts, att>>

\* Complete, after the lock: the Completed callback, so RunCompleted's handlers.
NotifyCompleted(r) ==
  /\ sess[r].stage = "complete"
  /\ sess' = [sess EXCEPT ![r].stage = "notified"]
  /\ UNCHANGED <<slot, host, restarts, att>>

-----------------------------------------------------------------------------
\* Variant: the token is cancelled and the intent is not on record yet.
RecordStop_CancelFirst(r) ==
  /\ Running(r)
  /\ r = slot
  /\ ~sess[r].stopRequested
  /\ sess' = [sess EXCEPT ![r].cancelBy = IF @ = "nobody" THEN "operator" ELSE @]
  /\ UNCHANGED <<slot, host, restarts, att>>

\* ChatStop and RequestStop: the intent is recorded first ...
RecordStop(r) ==
  /\ Running(r)
  /\ r = slot
  /\ ~sess[r].stopRequested
  /\ sess' = [sess EXCEPT ![r].stopRequested = TRUE]
  /\ UNCHANGED <<slot, host, restarts, att>>

\* ... and only then the cancellation fires (nobody observes it once the run ended).
FireCancel(r) ==
  /\ sess[r].stopRequested
  /\ ~Cancelled(r)
  /\ Running(r)
  /\ sess' = [sess EXCEPT ![r].cancelBy = "operator"]
  /\ UNCHANGED <<slot, host, restarts, att>>

\* ApplicationStopping: StopAll cancels what runs without recording a stop.
StopAll ==
  /\ host = "up"
  /\ restarts < MaxRestarts
  /\ host' = "stopping"
  /\ sess' = [r \in Runs |->
                IF r = slot /\ Running(r) /\ ~Cancelled(r)
                THEN [sess[r] EXCEPT !.cancelBy = "shutdown"] ELSE sess[r]]
  /\ UNCHANGED <<slot, restarts, att>>

\* The process is gone (after StopAll, or by a crash) and a new one starts: the
\* registry is in memory only, and every connection is broken.
Restart ==
  /\ restarts < MaxRestarts
  /\ restarts' = restarts + 1
  /\ host' = "up"
  /\ slot' = 0
  /\ sess' = [r \in Runs |->
                [sess[r] EXCEPT !.stage = "lost",
                                !.status = IF Running(r) THEN "lost" ELSE @]]
  /\ att' = [a \in Attachments |-> Detached]

-----------------------------------------------------------------------------
\* Variant: the "no run found" answer is missing.
Resolve_Unchecked(a) ==
  /\ att[a].state = "idle"
  /\ att' = [att EXCEPT ![a] = [Detached EXCEPT !.state = "resolved", !.run = slot]]
  /\ UNCHANGED <<sess, slot, host, restarts>>

\* The handler resolves the slot's session ...
Resolve(a) ==
  /\ att[a].state = "idle"
  /\ slot # 0
  /\ att' = [att EXCEPT ![a] = [Detached EXCEPT !.state = "resolved", !.run = slot]]
  /\ UNCHANGED <<sess, slot, host, restarts>>

\* ... and StreamAsync snapshots and subscribes under one lock.
Attach(a, after) ==
  /\ att[a].state = "resolved"
  /\ att' = [att EXCEPT ![a] = Opened(@.run, after)]
  /\ UNCHANGED <<sess, slot, host, restarts>>

\* Variant: a slow client is handed only the newest of what waits for it.
Deliver_NewestOnly(a) ==
  /\ att[a].state = "open"
  /\ att[a].pending # <<>>
  /\ att' = [att EXCEPT ![a].last = att[a].pending[Len(att[a].pending)],
                        ![a].pending = <<>>]
  /\ UNCHANGED <<sess, slot, host, restarts>>

Deliver(a) ==
  /\ att[a].state = "open"
  /\ att[a].pending # <<>>
  /\ att' = [att EXCEPT ![a].last = Head(att[a].pending),
                        ![a].pending = Tail(@)]
  /\ UNCHANGED <<sess, slot, host, restarts>>

\* The replay is over and the channel completed: the response ends normally.
StreamEnds(a) ==
  /\ att[a].state = "open"
  /\ att[a].pending = <<>>
  /\ ~att[a].subscribed
  /\ att' = [att EXCEPT ![a].state = "ended"]
  /\ UNCHANGED <<sess, slot, host, restarts>>

\* RequestAborted, or the next request of a client whose stream ended; the
\* subscription is removed in StreamAsync's finally.
Detach(a) ==
  /\ att[a].state # "idle"
  /\ att' = [att EXCEPT ![a] = Detached]
  /\ UNCHANGED <<sess, slot, host, restarts>>

-----------------------------------------------------------------------------
\* A client's watermark is a seq it was handed, or 0 on a fresh page.
Watermarks == 0..(MaxRuns * (MaxEmits + 2))

TurnStep(r) ==
  \/ \E notice \in BOOLEAN : Preflight(r, notice)
  \/ \E kind \in Kinds : CliLine(r, kind)
  \/ \E code \in {0, 1} : CliExit(r, code)
  \/ CliCancelled(r)
  \/ CliCrash(r)
  \/ Complete(r)
  \/ NotifyCompleted(r)

ServerStep ==
  \/ \E browser \in BOOLEAN : TryBeginRun(browser)
  \/ \E r \in Runs : TurnStep(r) \/ RecordStop(r) \/ FireCancel(r)
  \/ StopAll
  \/ Restart

Next ==
  \/ ServerStep
  \/ \E a \in Attachments :
       \/ Resolve(a)
       \/ \E after \in Watermarks : Attach(a, after)
       \/ Deliver(a)
       \/ StreamEnds(a)
       \/ Detach(a)

Spec == Init /\ [][Next]_vars

\* What the code itself keeps going: a pre-turn check returns, a requested
\* cancellation fires and the awaiting reader observes it, a turn that ended
\* reaches its finally block, and a connected client is sent what is pending.
\* Nothing makes the CLI print or exit, and nothing makes anybody press Stop.
Fairness ==
  /\ \A r \in 1..MaxRuns :
       /\ WF_vars(r \in Runs /\ \E notice \in BOOLEAN : Preflight(r, notice))
       /\ WF_vars(r \in Runs /\ FireCancel(r))
       /\ WF_vars(r \in Runs /\ CliCancelled(r))
       /\ WF_vars(r \in Runs /\ Complete(r))
       /\ WF_vars(r \in Runs /\ NotifyCompleted(r))
  /\ \A a \in Attachments : WF_vars(Deliver(a)) /\ WF_vars(StreamEnds(a))

FairSpec == Spec /\ Fairness

-----------------------------------------------------------------------------
SessionType ==
  [status : Statuses, stage : Stages, start : Nat, seq : Nat, events : Seq(Nat),
   sawDone : BOOLEAN, sawError : BOOLEAN,
   stopRequested : BOOLEAN, cancelBy : {"nobody", "operator", "shutdown"}, fault : Faults]

AttachmentType ==
  [state : {"idle", "resolved", "open", "ended"}, run : Nat, after : Nat, last : Nat,
   floor : Nat, pending : Seq(Nat), subscribed : BOOLEAN]

\* The type invariant of the slot and its attachments.
TypeOK ==
  /\ sess \in Seq(SessionType)
  /\ slot \in 0..Len(sess)
  /\ host \in {"up", "stopping"}
  /\ restarts \in Nat
  /\ att \in [Attachments -> AttachmentType]
  /\ \A a \in Attachments : att[a].state # "idle" => att[a].run \in Runs

\* Ascending(lo, hi): the seqs lo+1 .. hi, in order.
Ascending(lo, hi) == [i \in 1..(hi - lo) |-> lo + i]

\* The single-flight gate of the slot: whatever is still executing a turn (its
\* pre-turn check, its CLI process, its finally block) is the registry's session,
\* so no two turns of one key ever overlap.  TryBeginRun, Complete.
SingleFlight ==
  \A r \in Runs :
    sess[r].stage \in {"preflight", "cli", "ended"} => r = slot /\ Running(r)

\* The replay buffer is the newest stretch of the run's events, without a hole,
\* never above the cap and never trimmed further than one chunk below it.
IsTail(s) ==
  /\ s.start + Len(s.events) <= s.seq
  /\ Len(s.events) <= MaxBufferedEvents
  /\ s.events = Ascending(s.seq - Len(s.events), s.seq)
  /\ \/ s.start + Len(s.events) = s.seq
     \/ Len(s.events) > MaxBufferedEvents - TrimChunk

BufferIsTail == \A r \in Runs : IsTail(sess[r])

\* StreamAsync: "Snapshot and subscription happen under one lock, so no event is
\* missed or duplicated across the replay/live boundary."  Whatever a client was
\* handed and whatever waits for it together reach the run's newest event with
\* no hole and no repetition, also when the run completes under the reader.
DeliveryIsExact ==
  \A a \in Attachments :
    att[a].state \in {"open", "ended"} =>
      LET seq == sess[att[a].run].seq IN
      /\ att[a].last <= seq
      /\ att[a].pending = Ascending(att[a].last, seq)

\* A stream that the server ends normally has handed over the run's last event.
EndedStreamIsWhole ==
  \A a \in Attachments :
    att[a].state = "ended" =>
      Ended(att[a].run) /\ att[a].last = sess[att[a].run].seq

\* What a reader asked for is what it gets: nothing at or below its watermark is
\* replayed, and the replay starts above the watermark only where a trim, of whole
\* chunks, dropped the events in between.  StreamAsync against EmitAsync's trim.
ReplayMatchesWatermark ==
  \A a \in Attachments :
    LET c == att[a]
        s == sess[c.run]
    IN c.state = "open" =>
         /\ c.floor >= c.after
         /\ (c.floor > c.after /\ c.floor > s.start) =>
              /\ (c.floor - s.start) % TrimChunk = 0
              /\ s.seq - s.start > MaxBufferedEvents

\* Within one process, a later run of the slot counts on from the earlier one:
\* no seq is ever given to two events.  (A restart forgets the count.)
SeqNeverReused ==
  \A r, q \in Runs :
    (r < q /\ sess[r].stage # "lost") => sess[r].seq <= sess[q].start

\* RequestStop records the intent before it cancels, so a turn whose only trouble
\* was the operator's Stop never finalizes as "error": the loop engine must not
\* take a rescue Stop for an agent failure.  A clean "done" had no trouble at all.
StopIsNotAFailure ==
  \A r \in Runs :
    /\ (sess[r].status = "error" /\ sess[r].fault = "cancelled") => sess[r].cancelBy = "shutdown"
    /\ sess[r].status = "done" => sess[r].fault = "none"

\* Complete's comment: "a crashed, is_error, or shutdown-cancelled run finalizes
\* as 'error'": a turn that printed its terminal done and met no trouble is not one.
ErrorNeedsAFault ==
  \A r \in Runs :
    (sess[r].status = "error" /\ sess[r].sawDone) => sess[r].fault # "none"

\* Once a run is terminal its status never changes and no event is added to it:
\* a late event would reach nobody, since every stream of the run has been closed.
NothingAfterTheEnd ==
  [][\A r \in Runs : ~Running(r) =>
       sess'[r].status = sess[r].status /\ sess'[r].seq = sess[r].seq]_vars

\* A requested Stop ends the turn, even one that is still in its pre-turn check.
StopEndsTheTurn ==
  \A r \in 1..MaxRuns :
    (r \in Runs /\ sess[r].stopRequested) ~> Ended(r)

\* Every terminal run is announced to RunCompleted's subscribers (or the process dies).
CompletionIsAnnounced ==
  \A r \in 1..MaxRuns :
    Ended(r) ~> (r \in Runs /\ sess[r].stage \in {"notified", "lost"})

\* A client that stays attached to a run that ended is told so: its stream closes.
ReaderIsReleased ==
  \A a \in Attachments :
    (att[a].state = "open" /\ Ended(att[a].run)) ~> (att[a].state # "open")
=============================================================================
