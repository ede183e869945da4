---------------------------- MODULE RunFeedProofs ----------------------------
(***************************************************************************)
(* Proof that a run slot implements the safety part of RunFeed, step by    *)
(* step, for every buffer size, number of runs, readers and restarts.      *)
(***************************************************************************)
EXTENDS MC_RunSession, RunSessionProofs

LogInv == IInv /\ Len(sess) <= MaxRuns

\* The values that stand for RunFeed's variables.
FeedStage ==
  [r \in 1..MaxRuns |-> IF r \notin Runs THEN "future"
                        ELSE IF Running(r) THEN "open" ELSE "closed"]
FeedNewest == [r \in 1..MaxRuns |-> IF r \in Runs THEN LastSeq(r) ELSE 0]
FeedReader ==
  [a \in Attachments |->
     IF att[a].state \in {"open", "ended"}
     THEN [on |-> TRUE, log |-> att[a].run, at |-> att[a].last, told |-> att[a].state = "ended"]
     ELSE [on |-> FALSE, log |-> 0, at |-> 0, told |-> FALSE]]

-----------------------------------------------------------------------------
\* The runs of the slot are logs of the feed.
LEMMA RunsAreLogs ==
  ASSUME LogInv
  PROVE  /\ Len(sess) \in Nat /\ MaxRuns \in Nat /\ Runs = 1..Len(sess)
         /\ \A r \in Runs : r \in 1..MaxRuns /\ sess[r] \in SessionType /\ sess[r].seq \in Nat
BY SessionOfRun, BoundAssumption DEF LogInv, IInv, SlotInv, TypeOK, Runs, SessionType

\* What leaves the count and the end of every session alone leaves the logs alone.
LEMMA SameLogs ==
  ASSUME LogInv, Len(sess') = Len(sess),
         \A r \in Runs : sess'[r].seq = sess[r].seq /\ (Running(r)' <=> Running(r))
  PROVE  FeedStage' = FeedStage /\ FeedNewest' = FeedNewest
<1>1. Runs' = Runs
  BY DEF Runs
<1> QED BY <1>1 DEF FeedStage, FeedNewest, LastSeq

\* A reader is where its attachment is.
LEMMA SameReaders ==
  ASSUME \A a \in Attachments :
           /\ att'[a].state \in {"open", "ended"} <=> att[a].state \in {"open", "ended"}
           /\ att[a].state \in {"open", "ended"} =>
                att'[a].state = att[a].state /\ att'[a].run = att[a].run /\ att'[a].last = att[a].last
  PROVE  FeedReader' = FeedReader
BY DEF FeedReader

LEMMA QuietFeed ==
  ASSUME FeedStage' = FeedStage, FeedNewest' = FeedNewest, FeedReader' = FeedReader
  PROVE  UNCHANGED Feed!feedVars
BY DEF Feed!feedVars, FeedStage, FeedNewest, FeedReader

\* Handing an event to the channels moves no reader.
LEMMA EmitReaders ==
  ASSUME LogInv, NEW r, NEW s, NEW kind, Emit(r, s, kind)
  PROVE  FeedReader' = FeedReader
<1>1. ASSUME NEW a \in Attachments
      PROVE  att'[a].state = att[a].state /\ att'[a].run = att[a].run /\ att'[a].last = att[a].last
  <2>1. att[a] \in AttachmentType
    BY DEF LogInv, IInv, SlotInv, TypeOK
  <2> DEFINE c == att[a]
             w == Append(c.pending, s.seq + 1)
  <2>2. att'[a] = c \/ att'[a] = [c EXCEPT !.pending = w]
    BY DEF Emit
  <2> HIDE DEF w
  <2> QED BY <2>1, <2>2 DEF AttachmentType
<1> QED BY <1>1, SameReaders

\* An emission of a running turn publishes one event.
LEMMA EmitPublishes ==
  ASSUME LogInv, NEW r \in Runs, Running(r), NEW s \in SessionType, NEW kind \in Kinds,
         s.seq = sess[r].seq, s.start = sess[r].start, s.events = sess[r].events,
         s.status = "running", Emit(r, s, kind)
  PROVE  Feed!Next
<1> DEFINE e == EmitInto(s, kind)
<1>1. IsTail(s)
  BY DEF LogInv, IInv, BufferIsTail, IsTail
<1>2. e \in SessionType /\ e.seq = s.seq + 1 /\ e.status = "running"
  BY <1>1, EmitIntoSession
<1>3. sess' = [sess EXCEPT ![r] = e]
  BY DEF Emit
<1> HIDE DEF e
<1>4. Runs' = Runs /\ sess'[r] = e /\ \A q \in Runs : q # r => sess'[q] = sess[q]
  BY <1>2, <1>3, ReplaceSession DEF LogInv, IInv, SlotInv
<1>5. r \in 1..MaxRuns
  BY RunsAreLogs
<1>6. FeedStage[r] = "open" /\ FeedStage' = FeedStage
  BY <1>2, <1>4, <1>5 DEF FeedStage, Running
<1>7. FeedNewest' = [FeedNewest EXCEPT ![r] = @ + 1]
  BY <1>2, <1>4, <1>5 DEF FeedNewest, LastSeq
<1>8. FeedReader' = FeedReader
  BY EmitReaders
<1>9. Feed!Publish(r)
  BY <1>6, <1>7, <1>8 DEF Feed!Publish, FeedStage, FeedNewest, FeedReader
<1> QED BY <1>5, <1>9 DEF Feed!Next

\* A step of a turn that emits nothing and does not end the run is not seen.
LEMMA QuietTurn ==
  ASSUME LogInv, NEW r \in Runs, NEW s \in SessionType, sess' = [sess EXCEPT ![r] = s],
         s.seq = sess[r].seq, s.status = sess[r].status, att' = att
  PROVE  UNCHANGED Feed!feedVars
<1>1. Len(sess') = Len(sess) /\ sess'[r] = s /\ \A q \in Runs : q # r => sess'[q] = sess[q]
  BY ReplaceSession DEF LogInv, IInv, SlotInv
<1>2. FeedStage' = FeedStage /\ FeedNewest' = FeedNewest
  BY <1>1, SameLogs DEF Running
<1>3. FeedReader' = FeedReader
  BY SameReaders
<1> QED BY <1>2, <1>3, QuietFeed

\* The end of a run closes its log and leaves every reader where it is.
LEMMA CompleteCloses ==
  ASSUME LogInv, NEW r \in Runs, Complete(r)
  PROVE  Feed!Next
<1> DEFINE s == sess[r]
           x == [s EXCEPT !.status = Outcome(s), !.stage = "complete"]
<1>1. s \in SessionType /\ r \in 1..MaxRuns /\ Running(r)
  BY RunsAreLogs DEF Complete
<1>2. x \in SessionType /\ x.seq = s.seq /\ x.status # "running"
  BY <1>1 DEF SessionType, Stages, Statuses, Outcome
<1>3. sess' = [sess EXCEPT ![r] = x]
  BY <1>1 DEF Complete, LogInv, IInv, SlotInv, TypeOK
<1> HIDE DEF x
<1>4. Runs' = Runs /\ sess'[r] = x /\ \A q \in Runs : q # r => sess'[q] = sess[q]
  BY <1>2, <1>3, ReplaceSession DEF LogInv, IInv, SlotInv
<1>5. FeedStage[r] = "open" /\ FeedStage' = [FeedStage EXCEPT ![r] = "closed"]
  BY <1>1, <1>2, <1>4 DEF FeedStage, Running
<1>6. FeedNewest' = FeedNewest
  BY <1>2, <1>4 DEF FeedNewest, LastSeq
<1>7. FeedReader' = FeedReader
  <2>1. ASSUME NEW a \in Attachments
        PROVE  att'[a].state = att[a].state /\ att'[a].run = att[a].run /\ att'[a].last = att[a].last
    <3>1. att[a] \in AttachmentType
      BY DEF LogInv, IInv, SlotInv, TypeOK
    <3>2. att'[a] = att[a] \/ att'[a] = [att[a] EXCEPT !.subscribed = FALSE]
      BY DEF Complete
    <3> QED BY <3>1, <3>2 DEF AttachmentType
  <2> QED BY <2>1, SameReaders
<1>8. Feed!Close(r)
  BY <1>5, <1>6, <1>7 DEF Feed!Close, FeedStage, FeedNewest, FeedReader
<1> QED BY <1>1, <1>8 DEF Feed!Next

\* Every step of a turn, and both halves of a Stop.
LEMMA TurnFeeds ==
  ASSUME LogInv, NEW r \in Runs, TurnStep(r) \/ RecordStop(r) \/ FireCancel(r)
  PROVE  Feed!Next \/ UNCHANGED Feed!feedVars
<1> DEFINE s == sess[r]
<1>1. s \in SessionType
  BY RunsAreLogs
<1>2. s.stage \in {"preflight", "cli", "ended"} <=> s.status = "running"
  BY DEF LogInv, IInv, SlotInv, StageMatchesStatus, Running
<1>3. ASSUME NEW stage \in Stages, NEW fault \in Faults, NEW kind \in Kinds, s.status = "running",
             Emit(r, [s EXCEPT !.stage = stage, !.fault = fault], kind)
      PROVE  Feed!Next
  <2> DEFINE x == [s EXCEPT !.stage = stage, !.fault = fault]
  <2>1. /\ x \in SessionType /\ x.seq = s.seq /\ x.start = s.start /\ x.events = s.events
        /\ x.status = s.status
    BY <1>1 DEF SessionType
  <2>2. Emit(r, x, kind)
    BY <1>3
  <2> HIDE DEF x
  <2> QED BY <1>3, <2>1, <2>2, EmitPublishes DEF Running
<1>4. s = [s EXCEPT !.stage = s.stage] /\ s = [s EXCEPT !.fault = s.fault]
      /\ s.stage \in Stages /\ s.fault \in Faults
  BY <1>1 DEF SessionType
<1>5. ASSUME NEW notice \in BOOLEAN, Preflight(r, notice)
      PROVE  Feed!Next \/ UNCHANGED Feed!feedVars
  <2>1. s.status = "running"
    BY <1>2, <1>5 DEF Preflight
  <2> DEFINE x == [s EXCEPT !.stage = "cli"]
  <2>2. x = [s EXCEPT !.stage = "cli", !.fault = s.fault]
        /\ x \in SessionType /\ x.seq = s.seq /\ x.status = s.status /\ "cli" \in Stages
    BY <1>1 DEF SessionType, Stages
  <2>3. Emit(r, x, "error") \/ (sess' = [sess EXCEPT ![r] = x] /\ att' = att)
    BY <1>5 DEF Preflight
  <2> HIDE DEF x
  <2> QED BY <1>3, <1>4, <2>1, <2>2, <2>3, QuietTurn DEF Kinds
<1>6. ASSUME NEW kind \in Kinds, CliLine(r, kind)
      PROVE  Feed!Next
  <2> DEFINE f == IF kind = "error" THEN "is_error" ELSE s.fault
             x == [s EXCEPT !.fault = f]
  <2>1. s.status = "running" /\ f \in Faults /\ Emit(r, x, kind)
    BY <1>2, <1>4, <1>6 DEF CliLine, Faults
  <2>2. x = [s EXCEPT !.stage = s.stage, !.fault = f]
    BY <1>1 DEF SessionType
  <2> HIDE DEF x, f
  <2> QED BY <1>3, <1>4, <2>1, <2>2
<1>7. ASSUME NEW code \in {0, 1}, CliExit(r, code)
      PROVE  Feed!Next \/ UNCHANGED Feed!feedVars
  <2> DEFINE x == [s EXCEPT !.stage = "ended"]
             y == [s EXCEPT !.stage = "ended", !.fault = "exit_code"]
  <2>1. s.status = "running" /\ "ended" \in Stages /\ "exit_code" \in Faults
        /\ x \in SessionType /\ x.seq = s.seq /\ x.status = s.status
    BY <1>1, <1>2, <1>7 DEF CliExit, SessionType, Stages, Faults
  <2>2. Emit(r, y, "error") \/ (sess' = [sess EXCEPT ![r] = x] /\ att' = att)
    BY <1>7 DEF CliExit
  <2> HIDE DEF x
  <2> QED BY <1>3, <2>1, <2>2, QuietTurn DEF Kinds
<1>8. CASE CliCancelled(r) \/ CliCrash(r)
  <2>1. s.status = "running" /\ "ended" \in Stages
        /\ FirstFault(s.fault, "cancelled") \in Faults /\ FirstFault(s.fault, "crash") \in Faults
    BY <1>2, <1>4, <1>8 DEF CliCancelled, CliCrash, FirstFault, Stages, Faults
  <2>2. \/ Emit(r, [s EXCEPT !.stage = "ended", !.fault = FirstFault(s.fault, "cancelled")], "error")
        \/ Emit(r, [s EXCEPT !.stage = "ended", !.fault = FirstFault(s.fault, "crash")], "error")
    BY <1>8 DEF CliCancelled, CliCrash
  <2> QED BY <1>3, <2>1, <2>2 DEF Kinds
<1>9. ASSUME NEW x \in SessionType, x.seq = s.seq, x.status = s.status,
             sess' = [sess EXCEPT ![r] = x], att' = att
      PROVE  UNCHANGED Feed!feedVars
  BY <1>9, QuietTurn
<1>10. CASE NotifyCompleted(r) \/ RecordStop(r) \/ FireCancel(r)
  <2>1. /\ [s EXCEPT !.stage = "notified"] \in SessionType
        /\ [s EXCEPT !.stopRequested = TRUE] \in SessionType
        /\ [s EXCEPT !.cancelBy = "operator"] \in SessionType
        /\ [s EXCEPT !.stage = "notified"].seq = s.seq
        /\ [s EXCEPT !.stopRequested = TRUE].seq = s.seq
        /\ [s EXCEPT !.cancelBy = "operator"].seq = s.seq
        /\ [s EXCEPT !.stage = "notified"].status = s.status
        /\ [s EXCEPT !.stopRequested = TRUE].status = s.status
        /\ [s EXCEPT !.cancelBy = "operator"].status = s.status
    BY <1>1 DEF SessionType, Stages
  <2>2. /\ \/ sess' = [sess EXCEPT ![r] = [s EXCEPT !.stage = "notified"]]
           \/ sess' = [sess EXCEPT ![r] = [s EXCEPT !.stopRequested = TRUE]]
           \/ sess' = [sess EXCEPT ![r] = [s EXCEPT !.cancelBy = "operator"]]
        /\ att' = att
    BY <1>10 DEF NotifyCompleted, RecordStop, FireCancel
  <2> QED BY <1>9, <2>1, <2>2
<1> QED BY <1>5, <1>6, <1>7, <1>8, <1>10, CompleteCloses DEF TurnStep

-----------------------------------------------------------------------------
\* Claiming the slot opens the next log, at whatever count the slot had reached.
LEMMA BeginOpens ==
  ASSUME LogInv, NEW browser \in BOOLEAN, TryBeginRun(browser)
  PROVE  Feed!Next /\ Len(sess') <= MaxRuns
<1> DEFINE n == Len(sess) + 1
           start == IF slot = 0 THEN 0 ELSE LastSeq(slot)
           s == NewSession(browser, start)
<1>1. sess' = Append(sess, s) /\ Len(sess) < MaxRuns /\ att' = att
  BY DEF TryBeginRun, Begin
<1>2. s.seq = start /\ s.status = "running" /\ start \in Nat
  <2>1. slot # 0 => slot \in Runs
    BY DEF LogInv, IInv, SlotInv, TypeOK, Runs
  <2> QED BY <2>1, RunsAreLogs DEF LastSeq, NewSession
<1> HIDE DEF s, start
<1>3. Len(sess) \in Nat /\ n \in 1..MaxRuns /\ Runs = 1..Len(sess) /\ n \notin Runs
  BY <1>1, RunsAreLogs
<1>4. Len(sess') = n /\ Runs' = Runs \cup {n} /\ sess'[n] = s /\ \A q \in Runs : sess'[q] = sess[q]
  <2>1. Len(sess') = n /\ sess'[n] = s /\ \A q \in 1..Len(sess) : sess'[q] = sess[q]
    BY <1>1 DEF LogInv, IInv, SlotInv, TypeOK
  <2> QED BY <1>3, <2>1 DEF Runs
<1> HIDE DEF n
<1>5. FeedStage[n] = "future" /\ FeedStage' = [FeedStage EXCEPT ![n] = "open"]
  BY <1>2, <1>3, <1>4 DEF FeedStage, Running
<1>6. FeedNewest'[n] \in Nat /\ FeedNewest' = [FeedNewest EXCEPT ![n] = FeedNewest'[n]]
  <2>1. FeedNewest'[n] = start
    BY <1>2, <1>3, <1>4 DEF FeedNewest, LastSeq
  <2>2. FeedNewest' = [FeedNewest EXCEPT ![n] = start]
    BY <1>2, <1>3, <1>4 DEF FeedNewest, LastSeq
  <2> QED BY <1>2, <2>1, <2>2
<1>7. FeedReader' = FeedReader
  BY <1>1, SameReaders
<1>8. PICK log \in 1..MaxRuns : log = n
  BY <1>3
<1>9. Feed!Open(log)
  BY <1>5, <1>6, <1>7, <1>8 DEF Feed!Open, FeedStage, FeedNewest, FeedReader
<1>10. Len(sess') <= MaxRuns
  BY <1>4, <1>8, RunsAreLogs
<1> QED BY <1>9, <1>10 DEF Feed!Next

\* A shutdown's cancellation is not seen by the feed.
LEMMA StopAllQuiet ==
  ASSUME LogInv, StopAll
  PROVE  UNCHANGED Feed!feedVars /\ Len(sess') = Len(sess)
<1> DEFINE f == [r \in Runs |->
                   IF r = slot /\ Running(r) /\ ~Cancelled(r)
                   THEN [sess[r] EXCEPT !.cancelBy = "shutdown"] ELSE sess[r]]
<1>1. sess' = f /\ att' = att
  BY DEF StopAll
<1>2. ASSUME NEW r \in Runs
      PROVE  /\ f[r] \in SessionType /\ f[r].seq = sess[r].seq /\ f[r].start = sess[r].start
             /\ f[r].events = sess[r].events /\ f[r].status = sess[r].status
  <2>1. sess[r] \in SessionType
    BY RunsAreLogs
  <2> QED BY <2>1 DEF SessionType
<1>3. f = [r \in Runs |-> f[r]]
  OBVIOUS
<1> HIDE DEF f
<1>4. Len(sess') = Len(sess)
  BY <1>1, <1>2, <1>3, AllSessions DEF LogInv
<1>5. FeedStage' = FeedStage /\ FeedNewest' = FeedNewest
  BY <1>1, <1>2, <1>4, SameLogs DEF Running
<1>6. FeedReader' = FeedReader
  BY <1>1, SameReaders
<1> QED BY <1>4, <1>5, <1>6, QuietFeed

\* A new process closes every log and sends every reader away.
LEMMA RestartLoses ==
  ASSUME LogInv, Restart
  PROVE  Feed!Next /\ Len(sess') = Len(sess)
<1> DEFINE f == [r \in Runs |->
                   [sess[r] EXCEPT !.stage = "lost",
                                   !.status = IF Running(r) THEN "lost" ELSE @]]
<1>1. sess' = f /\ att' = [a \in Attachments |-> Detached]
  BY DEF Restart
<1>2. ASSUME NEW r \in Runs
      PROVE  /\ f[r] \in SessionType /\ f[r].seq = sess[r].seq /\ f[r].start = sess[r].start
             /\ f[r].events = sess[r].events /\ f[r].status # "running"
  <2>1. sess[r] \in SessionType
    BY RunsAreLogs
  <2>2. (IF Running(r) THEN "lost" ELSE sess[r].status) \in Statuses \ {"running"}
    BY <2>1 DEF SessionType, Statuses, Running
  <2> QED BY <2>1, <2>2 DEF SessionType, Stages
<1>3. f = [r \in Runs |-> f[r]]
  OBVIOUS
<1> HIDE DEF f
<1>4. Len(sess') = Len(sess) /\ Runs' = Runs
  BY <1>1, <1>2, <1>3, AllSessions DEF LogInv
<1>5. FeedNewest' = FeedNewest
  BY <1>1, <1>2, <1>4 DEF FeedNewest, LastSeq
<1>6. FeedStage' = [r \in 1..MaxRuns |-> IF FeedStage[r] = "open" THEN "closed" ELSE FeedStage[r]]
  BY <1>1, <1>2, <1>4 DEF FeedStage, Running
<1>7. FeedReader' = [a \in Attachments |-> Feed!Away]
  BY <1>1 DEF FeedReader, Detached, Feed!Away
<1>8. Feed!Lose
  BY <1>5, <1>6, <1>7 DEF Feed!Lose, FeedStage, FeedNewest, FeedReader
<1> QED BY <1>4, <1>8 DEF Feed!Next

\* The steps of one attachment, in terms of where its reader is before and after.
LEMMA OneReader ==
  ASSUME LogInv, NEW a \in Attachments, NEW c \in AttachmentType,
         att' = [att EXCEPT ![a] = c], sess' = sess
  PROVE  /\ FeedStage' = FeedStage /\ FeedNewest' = FeedNewest
         /\ FeedReader' =
              [FeedReader EXCEPT ![a] =
                 IF c.state \in {"open", "ended"}
                 THEN [on |-> TRUE, log |-> c.run, at |-> c.last, told |-> c.state = "ended"]
                 ELSE [on |-> FALSE, log |-> 0, at |-> 0, told |-> FALSE]]
<1>1. att \in [Attachments -> AttachmentType]
  BY DEF LogInv, IInv, SlotInv, TypeOK
<1>2. FeedStage' = FeedStage /\ FeedNewest' = FeedNewest
  BY SameLogs DEF Running
<1> QED BY <1>1, <1>2 DEF FeedReader

ReaderType == [on : BOOLEAN, log : Nat, at : Nat, told : BOOLEAN]

\* Readers with the same fields are the same.
LEMMA SameFields ==
  ASSUME NEW x \in ReaderType, NEW y \in ReaderType,
         x.on <=> y.on, x.told <=> y.told, x.log = y.log, x.at = y.at
  PROVE  x = y
BY DEF ReaderType

\* A reader that reads on, and one that is told the end.
LEMMA ReaderMoves ==
  ASSUME NEW here, NEW log \in Nat, NEW at \in Nat,
         here = [on |-> TRUE, log |-> log, at |-> at, told |-> FALSE]
  PROVE  /\ [here EXCEPT !.at = @ + 1] = [on |-> TRUE, log |-> log, at |-> at + 1, told |-> FALSE]
         /\ [here EXCEPT !.told = TRUE] = [on |-> TRUE, log |-> log, at |-> at, told |-> TRUE]
<1> DEFINE n == at + 1
           x == [on |-> TRUE, log |-> log, at |-> n, told |-> FALSE]
           y == [on |-> TRUE, log |-> log, at |-> at, told |-> TRUE]
           u == [here EXCEPT !.at = n]
           v == [here EXCEPT !.told = TRUE]
<1>1. n \in Nat
  OBVIOUS
<1> HIDE DEF n
<1>2. here \in ReaderType /\ here.on /\ here.log = log /\ here.at = at /\ ~here.told
  BY DEF ReaderType
<1>3. x \in ReaderType /\ x.on /\ x.log = log /\ x.at = n /\ ~x.told
  BY <1>1 DEF ReaderType
<1>4. y \in ReaderType /\ y.on /\ y.log = log /\ y.at = at /\ y.told
  BY DEF ReaderType
<1>5. u \in ReaderType /\ u.on /\ u.log = log /\ u.at = n /\ ~u.told
  BY <1>1, <1>2 DEF ReaderType
<1>6. v \in ReaderType /\ v.on /\ v.log = log /\ v.at = at /\ v.told
  BY <1>2 DEF ReaderType
<1> HIDE DEF x, y, u, v
<1>7. u = x
  BY <1>3, <1>5, SameFields
<1>8. v = y
  BY <1>4, <1>6, SameFields
<1> QED BY <1>2, <1>7, <1>8 DEF n, x, y, u, v

\* Joining, reading, being told and leaving.
LEMMA AttachmentFeeds ==
  ASSUME LogInv, NEW a \in Attachments,
         \/ Resolve(a)
         \/ \E after \in Watermarks : Attach(a, after)
         \/ Deliver(a) \/ StreamEnds(a) \/ Detach(a)
  PROVE  Feed!Next \/ UNCHANGED Feed!feedVars
<1> DEFINE c == att[a]
           here == FeedReader[a]
<1>1. /\ c \in AttachmentType /\ att \in [Attachments -> AttachmentType]
      /\ c.state # "idle" => c.run \in Runs
      /\ c.subscribed <=> (c.state = "open" /\ Running(c.run))
      /\ c.state \in {"open", "ended"} =>
           c.last <= sess[c.run].seq /\ c.pending = Ascending(c.last, sess[c.run].seq)
  BY DEF LogInv, IInv, SlotInv, TypeOK, SubscribedWhileOpen, DeliveryIsExact
<1>2. c.run \in Runs => /\ c.run \in 1..MaxRuns /\ sess[c.run] \in SessionType
                        /\ sess[c.run].seq \in Nat /\ IsTail(sess[c.run])
                        /\ FeedNewest[c.run] = sess[c.run].seq
                        /\ FeedStage[c.run] = IF Running(c.run) THEN "open" ELSE "closed"
  BY RunsAreLogs DEF LogInv, IInv, BufferIsTail, FeedNewest, FeedStage, LastSeq
<1>3. here = IF c.state \in {"open", "ended"}
             THEN [on |-> TRUE, log |-> c.run, at |-> c.last, told |-> c.state = "ended"]
             ELSE [on |-> FALSE, log |-> 0, at |-> 0, told |-> FALSE]
  BY DEF FeedReader
<1>4. CASE Resolve(a)
  <2> DEFINE d == [Detached EXCEPT !.state = "resolved", !.run = slot]
  <2>1. c.state = "idle" /\ att' = [att EXCEPT ![a] = d] /\ sess' = sess
    BY <1>4 DEF Resolve
  <2>2. d.state = "resolved"
    BY DEF Detached
  <2>3. FeedReader' = FeedReader
    BY <1>1, <2>1, <2>2, SameReaders
  <2>4. FeedStage' = FeedStage /\ FeedNewest' = FeedNewest
    BY <2>1, SameLogs DEF Running
  <2> QED BY <2>3, <2>4, QuietFeed
<1>5. ASSUME NEW after \in Watermarks, Attach(a, after)
      PROVE  Feed!Next
  <2> DEFINE s == sess[c.run]
             replay == Replay(s.events, after)
             low == Lesser(after, s.seq)
             d == Opened(c.run, after)
  <2>1. c.state = "resolved" /\ c.run \in Runs /\ c.run \in Nat
        /\ att' = [att EXCEPT ![a] = d] /\ sess' = sess
    BY <1>1, <1>5 DEF Attach, AttachmentType
  <2>2. after \in Nat
    BY BoundAssumption DEF Watermarks
  <2>3. s \in SessionType /\ IsTail(s) /\ s.seq \in Nat
    BY <1>2, <2>1
  <2>4. PICK floor \in Nat : /\ floor <= s.seq
                             /\ replay = Ascending(floor, s.seq)
                             /\ Len(replay) = s.seq - floor
    BY <2>2, <2>3, ReplayIsTail
  <2>5. low \in Nat /\ s.seq - Len(replay) = floor /\ replay \in Seq(Nat)
    <3>1. low \in Nat
      BY <2>2, <2>3 DEF Lesser
    <3>2. Ascending(floor, s.seq) \in Seq(Nat)
      BY <2>3, <2>4, AscendingSeq
    <3> QED BY <2>3, <2>4, <3>1, <3>2
  <2>6. d = [state |-> "open", run |-> c.run, after |-> low, last |-> floor,
             floor |-> floor, pending |-> replay, subscribed |-> Running(c.run)]
    BY <2>5 DEF Opened
  <2>7. Running(c.run) \in BOOLEAN
    BY DEF Running
  <2> HIDE DEF d, replay, low
  <2>8. d \in AttachmentType /\ d.state = "open" /\ d.run = c.run /\ d.last = floor
    BY <2>1, <2>4, <2>5, <2>6, <2>7 DEF AttachmentType
  <2>9. /\ FeedStage' = FeedStage /\ FeedNewest' = FeedNewest
        /\ FeedReader' = [FeedReader EXCEPT ![a] =
                            [on |-> TRUE, log |-> c.run, at |-> floor, told |-> FALSE]]
    BY <2>1, <2>8, OneReader
  <2>10. ~here.on /\ FeedStage[c.run] # "future" /\ floor \in 0..FeedNewest[c.run]
    BY <1>2, <1>3, <2>1, <2>3, <2>4
  <2>11. PICK log \in 1..MaxRuns : log = c.run
    BY <1>2, <2>1
  <2>12. Feed!Join(a, log)
    BY <2>9, <2>10, <2>11 DEF Feed!Join, FeedStage, FeedNewest, FeedReader
  <2> QED BY <2>12 DEF Feed!Next
<1>6. CASE Deliver(a)
  <2> DEFINE seq == sess[c.run].seq
             d == [c EXCEPT !.last = Head(c.pending), !.pending = Tail(@)]
  <2>1. c.state = "open" /\ c.pending # <<>> /\ att' = [att EXCEPT ![a] = d] /\ sess' = sess
    BY <1>1, <1>6 DEF Deliver
  <2>2. c.run \in Runs /\ seq \in Nat /\ c.last \in Nat /\ c.last <= seq
        /\ c.pending = Ascending(c.last, seq)
    BY <1>1, <1>2, <2>1 DEF AttachmentType
  <2>3. c.last < seq
    <3>1. CASE c.last = seq
      <4> HIDE DEF c, seq, d
      <4>1. Ascending(c.last, seq) \in Seq(Nat) /\ Len(Ascending(c.last, seq)) = seq - c.last
        BY <2>2, AscendingSeq
      <4>2. Len(c.pending) = 0
        BY <2>2, <3>1, <4>1
      <4> QED BY <2>1, <2>2, <4>1, <4>2, EmptySeq
    <3> QED BY <2>2, <3>1
  <2>4. Head(c.pending) = c.last + 1 /\ Tail(c.pending) = Ascending(c.last + 1, seq)
    BY <2>2, <2>3, AscendingTail
  <2>5. c.last + 1 \in Nat /\ Ascending(c.last + 1, seq) \in Seq(Nat)
    <3> DEFINE m == c.last + 1
    <3> HIDE DEF c, seq, d
    <3>1. m \in Nat /\ m <= seq
      BY <2>2, <2>3
    <3> HIDE DEF m
    <3>2. Ascending(m, seq) \in Seq(Nat)
      BY <2>2, <3>1, AscendingSeq
    <3> QED BY <3>1, <3>2 DEF m
  <2>6. d \in AttachmentType /\ d.state = "open" /\ d.run = c.run /\ d.last = c.last + 1
    BY <1>1, <2>1, <2>4, <2>5 DEF AttachmentType
  <2> HIDE DEF d
  <2>7. /\ FeedStage' = FeedStage /\ FeedNewest' = FeedNewest
        /\ FeedReader' = [FeedReader EXCEPT ![a] =
                            [on |-> TRUE, log |-> c.run, at |-> c.last + 1, told |-> FALSE]]
    BY <2>1, <2>6, OneReader
  <2>8. here = [on |-> TRUE, log |-> c.run, at |-> c.last, told |-> FALSE]
    BY <1>3, <2>1
  <2>9. FeedReader' = [FeedReader EXCEPT ![a].at = @ + 1]
    <3> DEFINE moved == [here EXCEPT !.at = @ + 1]
    <3>1. moved = [on |-> TRUE, log |-> c.run, at |-> c.last + 1, told |-> FALSE]
      <4>1. c.run \in Nat /\ c.last \in Nat
        BY <1>1 DEF AttachmentType
      <4> HIDE DEF here, c
      <4> QED BY <2>8, <4>1, ReaderMoves
    <3>2. [FeedReader EXCEPT ![a].at = @ + 1] = [FeedReader EXCEPT ![a] = moved]
      OBVIOUS
    <3> HIDE DEF moved, here, c
    <3> QED BY <2>7, <3>1, <3>2
  <2>10. here.on /\ here.at < FeedNewest[here.log]
    BY <1>2, <2>2, <2>3, <2>8
  <2>11. Feed!Read(a)
    BY <2>7, <2>9, <2>10 DEF Feed!Read, FeedStage, FeedNewest, FeedReader
  <2> QED BY <2>11 DEF Feed!Next
<1>7. CASE StreamEnds(a)
  <2> DEFINE seq == sess[c.run].seq
             d == [c EXCEPT !.state = "ended"]
  <2>1. c.state = "open" /\ c.pending = <<>> /\ ~c.subscribed
        /\ att' = [att EXCEPT ![a] = d] /\ sess' = sess
    BY <1>1, <1>7 DEF StreamEnds
  <2>2. c.run \in Runs /\ seq \in Nat /\ c.last \in Nat /\ c.last <= seq
        /\ c.pending = Ascending(c.last, seq) /\ ~Running(c.run)
    BY <1>1, <1>2, <2>1 DEF AttachmentType
  <2>3. c.last = seq
    <3>1. Len(Ascending(c.last, seq)) = seq - c.last
      BY <2>2, AscendingSeq
    <3> QED BY <2>1, <2>2, <3>1
  <2>4. d \in AttachmentType /\ d.state = "ended" /\ d.run = c.run /\ d.last = c.last
    BY <1>1 DEF AttachmentType
  <2> HIDE DEF d
  <2>5. /\ FeedStage' = FeedStage /\ FeedNewest' = FeedNewest
        /\ FeedReader' = [FeedReader EXCEPT ![a] =
                            [on |-> TRUE, log |-> c.run, at |-> c.last, told |-> TRUE]]
    BY <2>1, <2>4, OneReader
  <2>6. here = [on |-> TRUE, log |-> c.run, at |-> c.last, told |-> FALSE]
    BY <1>3, <2>1
  <2>7. FeedReader' = [FeedReader EXCEPT ![a].told = TRUE]
    <3> DEFINE told == [here EXCEPT !.told = TRUE]
    <3>1. told = [on |-> TRUE, log |-> c.run, at |-> c.last, told |-> TRUE]
      <4>1. c.run \in Nat /\ c.last \in Nat
        BY <1>1 DEF AttachmentType
      <4> HIDE DEF here, c
      <4> QED BY <2>6, <4>1, ReaderMoves
    <3>2. [FeedReader EXCEPT ![a].told = TRUE] = [FeedReader EXCEPT ![a] = told]
      OBVIOUS
    <3> HIDE DEF told, here, c
    <3> QED BY <2>5, <3>1, <3>2
  <2>8. here.on /\ ~here.told /\ FeedStage[here.log] = "closed" /\ here.at = FeedNewest[here.log]
    BY <1>2, <2>2, <2>3, <2>6
  <2>9. Feed!Tell(a)
    BY <2>5, <2>7, <2>8 DEF Feed!Tell, FeedStage, FeedNewest, FeedReader
  <2> QED BY <2>9 DEF Feed!Next
<1>8. CASE Detach(a)
  <2>1. Detached \in AttachmentType /\ Detached.state = "idle"
    BY EmptySeq DEF Detached, AttachmentType
  <2>2. att' = [att EXCEPT ![a] = Detached] /\ sess' = sess
    BY <1>8 DEF Detach
  <2>3. /\ FeedStage' = FeedStage /\ FeedNewest' = FeedNewest
        /\ FeedReader' = [FeedReader EXCEPT ![a] = Feed!Away]
    BY <2>1, <2>2, OneReader DEF Feed!Away
  <2>4. CASE here.on
    <3>1. Feed!Leave(a)
      BY <2>3, <2>4 DEF Feed!Leave, FeedStage, FeedNewest, FeedReader
    <3> QED BY <3>1 DEF Feed!Next
  <2>5. CASE ~here.on
    <3>1. here = Feed!Away
      BY <1>3, <2>5 DEF Feed!Away
    <3>2. FeedReader' = FeedReader
      BY <2>3, <3>1 DEF FeedReader
    <3> QED BY <2>3, <3>2, QuietFeed
  <2> QED BY <2>4, <2>5
<1> QED BY <1>4, <1>5, <1>6, <1>7, <1>8

-----------------------------------------------------------------------------
\* An empty slot is a feed whose logs are all to come.
LEMMA FeedInit == Init => LogInv /\ Feed!Init
<1> SUFFICES ASSUME Init PROVE LogInv /\ Feed!Init
  OBVIOUS
<1>1. Runs = {} /\ Len(sess) = 0 /\ MaxRuns \in Nat
  BY BoundAssumption DEF Init, Runs
<1>2. LogInv
  BY <1>1, InitInv DEF LogInv
<1>3. \A a \in Attachments : att[a] = Detached /\ Detached.state = "idle"
  BY DEF Init, Detached
<1>4. Feed!Init
  BY <1>1, <1>3 DEF Feed!Init, Feed!Away
<1> QED BY <1>2, <1>4

\* Every step of the slot is a step of the feed, or one the feed does not see.
LEMMA FeedStep ==
  ASSUME LogInv, [Next]_vars
  PROVE  LogInv' /\ [Feed!Next]_(Feed!feedVars)
<1>1. IInv'
  BY StepInv DEF LogInv
<1>2. ASSUME NEW r \in Runs, TurnStep(r) \/ RecordStop(r) \/ FireCancel(r)
      PROVE  Len(sess') = Len(sess)
  <2>1. Len(sess) \in Nat /\ DOMAIN sess = 1..Len(sess)
    BY DEF LogInv, IInv, SlotInv, TypeOK
  <2>2. DOMAIN sess' = DOMAIN sess /\ \E f : sess' = [sess EXCEPT ![r] = f]
    BY <1>2 DEF TurnStep, Preflight, CliLine, CliExit, CliCancelled, CliCrash, Complete, Emit,
                NotifyCompleted, RecordStop, FireCancel
  <2> QED BY <2>1, <2>2
<1>3. ASSUME NEW a \in Attachments,
             \/ Resolve(a)
             \/ \E after \in Watermarks : Attach(a, after)
             \/ Deliver(a) \/ StreamEnds(a) \/ Detach(a)
      PROVE  sess' = sess
  BY <1>3 DEF Resolve, Attach, Deliver, StreamEnds, Detach
<1>4. CASE UNCHANGED vars
  <2>1. sess' = sess /\ att' = att
    BY <1>4 DEF vars
  <2>2. FeedStage' = FeedStage /\ FeedNewest' = FeedNewest /\ FeedReader' = FeedReader
    BY <2>1, SameLogs, SameReaders DEF Running
  <2> QED BY <1>1, <2>1, <2>2, QuietFeed DEF LogInv
<1>5. ASSUME NEW browser \in BOOLEAN, TryBeginRun(browser)
      PROVE  LogInv' /\ Feed!Next
  BY <1>1, <1>5, BeginOpens DEF LogInv
<1>6. CASE StopAll
  BY <1>1, <1>6, StopAllQuiet DEF LogInv
<1>7. CASE Restart
  BY <1>1, <1>7, RestartLoses DEF LogInv
<1>8. ASSUME NEW r \in Runs, TurnStep(r) \/ RecordStop(r) \/ FireCancel(r)
      PROVE  LogInv' /\ [Feed!Next]_(Feed!feedVars)
  BY <1>1, <1>2, <1>8, TurnFeeds DEF LogInv
<1>9. ASSUME NEW a \in Attachments,
             \/ Resolve(a)
             \/ \E after \in Watermarks : Attach(a, after)
             \/ Deliver(a) \/ StreamEnds(a) \/ Detach(a)
      PROVE  LogInv' /\ [Feed!Next]_(Feed!feedVars)
  BY <1>1, <1>3, <1>9, AttachmentFeeds DEF LogInv
<1> QED BY <1>4, <1>5, <1>6, <1>7, <1>8, <1>9 DEF Next, ServerStep

\* A run slot serves its readers as RunFeed says: every step of the slot is one of the
\* feed's or stutters, whatever is buffered, trimmed, stopped or replaced meanwhile.
THEOREM SlotServesTheFeed == Spec => Feed!Init /\ [][Feed!Next]_(Feed!feedVars)
<1>1. LogInv /\ [Next]_vars => LogInv' /\ [Feed!Next]_(Feed!feedVars)
  BY FeedStep
<1> QED BY <1>1, FeedInit, PTL DEF Spec
=============================================================================
