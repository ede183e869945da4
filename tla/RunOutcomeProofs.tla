--------------------------- MODULE RunOutcomeProofs ---------------------------
(***************************************************************************)
(* Proofs about how runs end and how their events are counted, for every   *)
(* number of runs, stops and restarts: a Stop never becomes a failure, a   *)
(* terminal status is final and no event follows it, and no seq is given   *)
(* to two events of one process.                                           *)
(***************************************************************************)
EXTENDS RunSessionProofs

(* What a session remembers of a trouble: it was told as an error, a cancelled turn had been   *)
(* cancelled, and an operator's cancellation comes after the intent.                           *)
Facts(s) ==
  /\ s.fault # "none" => s.sawError
  /\ s.fault = "cancelled" => s.cancelBy # "nobody"
  /\ s.cancelBy = "operator" => s.stopRequested
  /\ s.status = "error" /\ s.fault = "cancelled" => s.cancelBy = "shutdown"
  /\ s.status = "done" => s.fault = "none"

(* What the replay buffer has lost is a number of whole chunks, and it lost none before the    *)
(* run had more events than the buffer holds.                                                  *)
TrimmedInChunks(s) ==
  LET lo == s.seq - Len(s.events) IN
  /\ (lo - s.start) % TrimChunk = 0
  /\ lo > s.start => s.seq - s.start > MaxBufferedEvents

(* What a step may make of a session s.                                                        *)
Follows(s, t) ==
  /\ t.start = s.start /\ s.seq <= t.seq
  /\ s.status # "running" => t.seq = s.seq /\ t.status = s.status
  /\ s.stage = "lost" => t.stage = "lost"
  /\ Facts(s) => Facts(t)
  /\ TrimmedInChunks(s) => TrimmedInChunks(t)

AllFacts == \A r \in Runs : Facts(sess[r])

AllTrimmed == \A r \in Runs : TrimmedInChunks(sess[r])

\* The registry holds the newest session, or the process is new and every earlier one is lost.
SlotIsNewest ==
  /\ slot # 0 => slot = Len(sess)
  /\ slot = 0 => \A r \in Runs : sess[r].stage = "lost"

OInv == IInv /\ AllFacts /\ AllTrimmed /\ SlotIsNewest /\ SeqNeverReused

-----------------------------------------------------------------------------
\* What an emission changes and what it leaves.
LEMMA EmitFields ==
  ASSUME NEW s \in SessionType, NEW kind \in Kinds
  PROVE  LET e == EmitInto(s, kind) IN
         /\ e.status = s.status /\ e.stage = s.stage /\ e.start = s.start /\ e.seq = s.seq + 1
         /\ e.fault = s.fault /\ e.cancelBy = s.cancelBy /\ e.stopRequested = s.stopRequested
         /\ e.sawError <=> (s.sawError \/ kind = "error")
         /\ e.sawDone <=> (s.sawDone \/ kind = "done")
BY DEF EmitInto, SessionType

\* What division by a positive number gives.
LEMMA DivMod ==
  ASSUME NEW x \in Nat, NEW t \in Nat, t > 0
  PROVE  /\ x \div t \in Nat
         /\ x % t \in 0..(t - 1)
         /\ x = t * (x \div t) + (x % t)
         /\ (x + t) \div t = (x \div t) + 1
<1>1. x \div t \in Nat
  OBVIOUS
<1>2. x % t \in 0..(t - 1)
  OBVIOUS
<1>3. x = t * (x \div t) + (x % t)
  OBVIOUS
<1>4. (x + t) \div t = (x \div t) + 1
  OBVIOUS
<1> QED BY <1>1, <1>2, <1>3, <1>4

\* A multiple of t and t more is a multiple of t.
LEMMA OneMore ==
  ASSUME NEW x \in Nat, NEW t \in Nat, t > 0, x % t = 0
  PROVE  (x + t) % t = 0
<1> DEFINE y == x + t
           q == x \div t
           d == y \div t
           m == y % t
<1>1. y \in Nat /\ y = x + t
  OBVIOUS
<1> HIDE DEF y
<1>2. q \in Nat /\ x = t * q + (x % t)
  BY DivMod
<1>3. d = q + 1
  BY <1>1, DivMod
<1>4. d \in Nat /\ y = t * d + m /\ m \in 0..(t - 1)
  BY <1>1, DivMod
<1> HIDE DEF q, d, m
<1>5. x = t * q
  BY <1>2
<1>6. t * d = t * q + t
  BY <1>2, <1>3
<1>7. m = 0
  <2>1. t * q \in Nat
    BY <1>2
  <2> DEFINE z == t * q
             w == t * d
  <2>2. x = z /\ w = z + t /\ y = w + m /\ z \in Nat /\ m \in Nat
    BY <1>4, <1>5, <1>6, <2>1
  <2> HIDE DEF z, w
  <2> QED BY <1>1, <2>2
<1> QED BY <1>7 DEF m, y

\* An emission keeps the trims whole: it drops nothing, or one chunk of a buffer above its cap.
LEMMA EmitTrims ==
  ASSUME NEW s \in SessionType, NEW kind \in Kinds, IsTail(s), TrimmedInChunks(s)
  PROVE  TrimmedInChunks(EmitInto(s, kind))
<1> DEFINE n == Len(s.events)
           lo == s.seq - n
           hi == s.seq + 1
           grown == Append(s.events, hi)
           e == EmitInto(s, kind)
<1>1. /\ s.seq \in Nat /\ s.start \in Nat /\ s.events \in Seq(Nat) /\ n \in Nat
      /\ lo \in Nat /\ lo <= s.seq /\ s.start <= lo /\ hi \in Nat /\ hi = s.seq + 1
      /\ n <= MaxBufferedEvents /\ lo + n = s.seq
  BY DEF SessionType, IsTail
<1>2. /\ MaxBufferedEvents \in Nat /\ TrimChunk \in Nat
      /\ 0 < TrimChunk /\ TrimChunk <= MaxBufferedEvents
  BY BufferAssumption
<1>3. (lo - s.start) % TrimChunk = 0
  BY DEF TrimmedInChunks
<1>4. grown \in Seq(Nat) /\ Len(grown) = n + 1
  BY <1>1
<1>5. /\ e.seq = hi /\ e.start = s.start
      /\ e.events = IF n + 1 > MaxBufferedEvents THEN SubSeq(grown, TrimChunk + 1, n + 1) ELSE grown
  BY <1>4 DEF EmitInto, SessionType, Buffered
<1> HIDE DEF n, lo, hi, e, grown
<1>6. CASE n + 1 > MaxBufferedEvents
  <2> DEFINE m == Len(e.events)
             x == lo - s.start
  <2>1. m = n + 1 - TrimChunk
    <3>1. e.events = SubSeq(grown, TrimChunk + 1, n + 1)
      BY <1>5, <1>6
    <3>2. \A i \in (TrimChunk + 1)..(n + 1) : grown[i] \in Nat
      BY <1>1, <1>2, <1>4, ElementOfSeq
    <3>3. TrimChunk + 1 \in Int /\ n + 1 \in Int /\ TrimChunk + 1 <= n + 1
      BY <1>1, <1>2, <1>6
    <3>4. Len(SubSeq(grown, TrimChunk + 1, n + 1)) = (n + 1) - (TrimChunk + 1) + 1
      BY <3>2, <3>3, SubSeqProperties
    <3> QED BY <1>1, <1>2, <3>1, <3>4
  <2>2. e.seq - m = lo + TrimChunk
    <3> HIDE DEF m
    <3> QED BY <1>1, <1>2, <1>5, <2>1
  <2>6. x % TrimChunk = 0
    BY <1>3
  <2>7. x = lo - s.start
    OBVIOUS
  <2> HIDE DEF x
  <2>3. x \in Nat /\ (lo + TrimChunk) - s.start = x + TrimChunk
    BY <1>1, <1>2, <2>7
  <2>4. ((lo + TrimChunk) - s.start) % TrimChunk = 0
    <3>1. (x + TrimChunk) % TrimChunk = 0
      BY <1>2, <2>3, <2>6, OneMore
    <3> QED BY <2>3, <3>1
  <2>5. e.seq - e.start > MaxBufferedEvents
    BY <1>1, <1>2, <1>5, <1>6
  <2> QED BY <1>5, <2>2, <2>4, <2>5 DEF TrimmedInChunks, e
<1>7. CASE ~(n + 1 > MaxBufferedEvents)
  <2>1. e.seq - Len(e.events) = lo
    BY <1>1, <1>4, <1>5, <1>7
  <2>2. lo > s.start => s.seq - s.start > MaxBufferedEvents
    BY DEF TrimmedInChunks, lo, n
  <2>3. lo > e.start => e.seq - e.start > MaxBufferedEvents
    BY <1>1, <1>2, <1>5, <2>2
  <2> QED BY <1>3, <1>5, <2>1, <2>3 DEF TrimmedInChunks, e
<1> QED BY <1>6, <1>7

\* A running turn that emits: what is remembered beforehand may wait for the error event.
LEMMA EmitFollows ==
  ASSUME IInv, NEW r \in Runs, Running(r), NEW s \in SessionType, NEW kind \in Kinds,
         s.seq = sess[r].seq, s.start = sess[r].start, s.events = sess[r].events,
         s.status = "running", sess[r].stage # "lost",
         Facts(sess[r]) => /\ s.fault # "none" => s.sawError \/ kind = "error"
                           /\ s.fault = "cancelled" => s.cancelBy # "nobody"
                           /\ s.cancelBy = "operator" => s.stopRequested,
         Emit(r, s, kind)
  PROVE  \E t \in SessionType : sess' = [sess EXCEPT ![r] = t] /\ Follows(sess[r], t)
<1> DEFINE t == EmitInto(s, kind)
<1>1. IsTail(s)
  BY DEF IInv, BufferIsTail, IsTail
<1>2. t \in SessionType
  BY <1>1, EmitIntoSession
<1>3. /\ t.status = s.status /\ t.stage = s.stage /\ t.start = s.start /\ t.seq = s.seq + 1
      /\ t.fault = s.fault /\ t.cancelBy = s.cancelBy /\ t.stopRequested = s.stopRequested
      /\ t.sawError <=> (s.sawError \/ kind = "error")
  BY EmitFields
<1>4. sess' = [sess EXCEPT ![r] = t]
  BY DEF Emit
<1>7. TrimmedInChunks(sess[r]) => TrimmedInChunks(t)
  BY <1>1, EmitTrims DEF TrimmedInChunks
<1> HIDE DEF t
<1>5. sess[r] \in SessionType
  BY SessionOfRun DEF IInv, SlotInv
<1>8. Facts(sess[r]) => Facts(t)
  BY <1>3, <1>5 DEF Facts, Running, SessionType
<1>6. Follows(sess[r], t)
  BY <1>3, <1>5, <1>7, <1>8 DEF Follows, Running, SessionType
<1> QED BY <1>2, <1>4, <1>6

\* A step that emits nothing, of a session that goes on.
LEMMA QuietFollows ==
  ASSUME NEW r \in Runs, NEW s \in SessionType, sess[r] \in SessionType,
         s.seq = sess[r].seq, s.start = sess[r].start, s.events = sess[r].events,
         sess[r].status # "running" => s.status = sess[r].status,
         sess[r].stage # "lost",
         Facts(sess[r]) => Facts(s),
         sess' = [sess EXCEPT ![r] = s]
  PROVE  \E t \in SessionType : sess' = [sess EXCEPT ![r] = t] /\ Follows(sess[r], t)
<1>1. Follows(sess[r], s)
  <2>1. TrimmedInChunks(sess[r]) => TrimmedInChunks(s)
    BY DEF TrimmedInChunks
  <2> QED BY <2>1 DEF Follows, SessionType
<1> QED BY <1>1

\* Every step of one turn, and both halves of a Stop.
LEMMA TurnFollows ==
  ASSUME IInv, NEW r \in Runs, TurnStep(r) \/ RecordStop(r) \/ FireCancel(r)
  PROVE  \E t \in SessionType : sess' = [sess EXCEPT ![r] = t] /\ Follows(sess[r], t)
<1> DEFINE s == sess[r]
<1>1. s \in SessionType
  BY SessionOfRun DEF IInv, SlotInv
<1>2. s.stage \in {"preflight", "cli", "ended"} <=> s.status = "running"
  BY DEF IInv, SlotInv, StageMatchesStatus, Running
<1>3. ASSUME NEW notice \in BOOLEAN, Preflight(r, notice)
      PROVE  \E t \in SessionType : sess' = [sess EXCEPT ![r] = t] /\ Follows(sess[r], t)
  <2> DEFINE x == [s EXCEPT !.stage = "cli"]
  <2>1. /\ x \in SessionType /\ x.seq = s.seq /\ x.start = s.start /\ x.events = s.events
        /\ x.status = s.status /\ x.fault = s.fault /\ x.cancelBy = s.cancelBy
        /\ x.stopRequested = s.stopRequested /\ x.sawError = s.sawError
    BY <1>1 DEF SessionType, Stages
  <2>2. s.stage = "preflight" /\ s.status = "running"
    BY <1>2, <1>3 DEF Preflight
  <2>3. CASE notice
    <3>1. Emit(r, x, "error")
      BY <1>3, <2>3 DEF Preflight
    <3> HIDE DEF x
    <3> QED BY <2>1, <2>2, <3>1, EmitFollows DEF Kinds, Running, Facts
  <2>4. CASE ~notice
    <3>1. sess' = [sess EXCEPT ![r] = x]
      BY <1>3, <2>4 DEF Preflight
    <3> HIDE DEF x
    <3> QED BY <1>1, <2>1, <2>2, <3>1, QuietFollows DEF Facts
  <2> QED BY <2>3, <2>4
<1>4. ASSUME NEW kind \in Kinds, CliLine(r, kind)
      PROVE  \E t \in SessionType : sess' = [sess EXCEPT ![r] = t] /\ Follows(sess[r], t)
  <2> DEFINE x == [s EXCEPT !.fault = IF kind = "error" THEN "is_error" ELSE @]
  <2>1. /\ x \in SessionType /\ x.seq = s.seq /\ x.start = s.start /\ x.events = s.events
        /\ x.status = s.status /\ x.cancelBy = s.cancelBy /\ x.stopRequested = s.stopRequested
        /\ x.sawError = s.sawError /\ x.fault = IF kind = "error" THEN "is_error" ELSE s.fault
    BY <1>1 DEF SessionType, Faults
  <2>2. s.stage = "cli" /\ s.status = "running" /\ Emit(r, x, kind)
    BY <1>2, <1>4 DEF CliLine
  <2> HIDE DEF x
  <2> QED BY <2>1, <2>2, EmitFollows DEF Running, Facts
<1>5. ASSUME NEW code \in {0, 1}, CliExit(r, code)
      PROVE  \E t \in SessionType : sess' = [sess EXCEPT ![r] = t] /\ Follows(sess[r], t)
  <2>1. s.stage = "cli" /\ s.status = "running"
    BY <1>2, <1>5 DEF CliExit
  <2>2. CASE code # 0 /\ s.fault # "is_error"
    <3> DEFINE x == [s EXCEPT !.stage = "ended", !.fault = "exit_code"]
    <3>1. /\ x \in SessionType /\ x.seq = s.seq /\ x.start = s.start /\ x.events = s.events
          /\ x.status = s.status /\ x.cancelBy = s.cancelBy /\ x.stopRequested = s.stopRequested
          /\ x.fault = "exit_code"
      BY <1>1 DEF SessionType, Faults, Stages
    <3>2. Emit(r, x, "error")
      BY <1>5, <2>2 DEF CliExit
    <3> HIDE DEF x
    <3> QED BY <2>1, <3>1, <3>2, EmitFollows DEF Kinds, Running, Facts
  <2>3. CASE ~(code # 0 /\ s.fault # "is_error")
    <3> DEFINE x == [s EXCEPT !.stage = "ended"]
    <3>1. /\ x \in SessionType /\ x.seq = s.seq /\ x.start = s.start /\ x.events = s.events /\ x.status = s.status
          /\ x.fault = s.fault /\ x.cancelBy = s.cancelBy
          /\ x.stopRequested = s.stopRequested /\ x.sawError = s.sawError
      BY <1>1 DEF SessionType, Stages
    <3>2. sess' = [sess EXCEPT ![r] = x]
      BY <1>5, <2>3 DEF CliExit
    <3> HIDE DEF x
    <3> QED BY <1>1, <2>1, <3>1, <3>2, QuietFollows DEF Facts
  <2> QED BY <2>2, <2>3
<1>6. ASSUME NEW what \in {"cancelled", "crash"}, s.stage = "cli", what = "cancelled" => Cancelled(r),
             Emit(r, [s EXCEPT !.stage = "ended", !.fault = FirstFault(@, what)], "error")
      PROVE  \E t \in SessionType : sess' = [sess EXCEPT ![r] = t] /\ Follows(sess[r], t)
  <2> DEFINE x == [s EXCEPT !.stage = "ended", !.fault = FirstFault(@, what)]
  <2>1. /\ x \in SessionType /\ x.seq = s.seq /\ x.start = s.start /\ x.events = s.events
        /\ x.status = s.status /\ x.cancelBy = s.cancelBy /\ x.stopRequested = s.stopRequested
        /\ x.fault = IF s.fault = "none" THEN what ELSE s.fault
    BY <1>1 DEF SessionType, Faults, Stages, FirstFault
  <2>2. Emit(r, x, "error") /\ s.status = "running" /\ (what = "cancelled" => s.cancelBy # "nobody")
    BY <1>2, <1>6 DEF Cancelled
  <2> HIDE DEF x
  <2> QED BY <1>6, <2>1, <2>2, EmitFollows DEF Kinds, Running, Facts
<1>7. CASE CliCancelled(r) \/ CliCrash(r)
  BY <1>6, <1>7 DEF CliCancelled, CliCrash
<1>8. CASE Complete(r)
  <2> DEFINE x == [s EXCEPT !.status = Outcome(s), !.stage = "complete"]
  <2>1. /\ x \in SessionType /\ x.seq = s.seq /\ x.start = s.start /\ x.events = s.events /\ x.status = Outcome(s)
        /\ x.fault = s.fault /\ x.cancelBy = s.cancelBy
        /\ x.stopRequested = s.stopRequested /\ x.sawError = s.sawError
    BY <1>1 DEF SessionType, Stages, Statuses, Outcome
  <2>2. s.stage = "ended" /\ s.status = "running"
    BY <1>8 DEF Complete, Running
  <2>3. sess' = [sess EXCEPT ![r] = x]
    BY <1>1, <1>8 DEF Complete, IInv, SlotInv, TypeOK
  <2>4. Facts(s) => Facts(x)
    <3> HIDE DEF x
    <3>1. x.status = "done" => ~s.sawError
      BY <2>1 DEF Outcome
    <3>2. x.status = "error" => ~s.stopRequested
      BY <2>1 DEF Outcome
    <3> QED BY <1>1, <2>1, <3>1, <3>2 DEF Facts, SessionType
  <2> HIDE DEF x
  <2> QED BY <1>1, <2>1, <2>2, <2>3, <2>4, QuietFollows
<1>9. CASE NotifyCompleted(r)
  <2> DEFINE x == [s EXCEPT !.stage = "notified"]
  <2>1. /\ x \in SessionType /\ x.seq = s.seq /\ x.start = s.start /\ x.events = s.events /\ x.status = s.status
        /\ x.fault = s.fault /\ x.cancelBy = s.cancelBy
        /\ x.stopRequested = s.stopRequested /\ x.sawError = s.sawError
    BY <1>1 DEF SessionType, Stages
  <2>2. s.stage = "complete" /\ sess' = [sess EXCEPT ![r] = x]
    BY <1>9 DEF NotifyCompleted
  <2> HIDE DEF x
  <2> QED BY <1>1, <2>1, <2>2, QuietFollows DEF Facts
<1>10. CASE RecordStop(r)
  <2> DEFINE x == [s EXCEPT !.stopRequested = TRUE]
  <2>1. /\ x \in SessionType /\ x.seq = s.seq /\ x.start = s.start /\ x.events = s.events /\ x.status = s.status
        /\ x.fault = s.fault /\ x.cancelBy = s.cancelBy
        /\ x.stopRequested /\ x.sawError = s.sawError
    BY <1>1 DEF SessionType
  <2>2. s.stage # "lost" /\ sess' = [sess EXCEPT ![r] = x]
    BY <1>2, <1>10 DEF RecordStop, Running
  <2> HIDE DEF x
  <2> QED BY <1>1, <2>1, <2>2, QuietFollows DEF Facts
<1>11. CASE FireCancel(r)
  <2> DEFINE x == [s EXCEPT !.cancelBy = "operator"]
  <2>1. /\ x \in SessionType /\ x.seq = s.seq /\ x.start = s.start /\ x.events = s.events /\ x.status = s.status
        /\ x.fault = s.fault /\ x.cancelBy = "operator"
        /\ x.stopRequested = s.stopRequested /\ x.sawError = s.sawError
    BY <1>1 DEF SessionType
  <2>2. s.stage # "lost" /\ s.status = "running" /\ s.stopRequested /\ sess' = [sess EXCEPT ![r] = x]
    BY <1>2, <1>11 DEF FireCancel, Running
  <2> HIDE DEF x
  <2> QED BY <1>1, <2>1, <2>2, QuietFollows DEF Facts
<1> QED BY <1>3, <1>4, <1>5, <1>7, <1>8, <1>9, <1>10, <1>11 DEF TurnStep

-----------------------------------------------------------------------------
\* Every session of the slot, before and after a step that starts no run.
Grows == Len(sess') = Len(sess) /\ \A r \in Runs : Follows(sess[r], sess'[r])

LEMMA TurnGrows ==
  ASSUME IInv, NEW r \in Runs, TurnStep(r) \/ RecordStop(r) \/ FireCancel(r)
  PROVE  Grows /\ slot' = slot
<1>1. PICK t \in SessionType : sess' = [sess EXCEPT ![r] = t] /\ Follows(sess[r], t)
  BY TurnFollows
<1>2. Len(sess') = Len(sess) /\ sess'[r] = t /\ \A q \in Runs : q # r => sess'[q] = sess[q]
  BY <1>1, ReplaceSession DEF IInv, SlotInv
<1>3. \A q \in Runs : Follows(sess[q], sess[q])
  BY SessionOfRun DEF IInv, SlotInv, Follows, SessionType
<1>4. slot' = slot
  BY DEF TurnStep, Preflight, CliLine, CliExit, CliCancelled, CliCrash, Complete,
         NotifyCompleted, RecordStop, FireCancel
<1> QED BY <1>1, <1>2, <1>3, <1>4 DEF Grows

\* A shutdown cancels on nobody's behalf what no operator has cancelled.
LEMMA StopAllGrows ==
  ASSUME IInv, StopAll
  PROVE  Grows /\ slot' = slot
<1> DEFINE f == [r \in Runs |->
                   IF r = slot /\ Running(r) /\ ~Cancelled(r)
                   THEN [sess[r] EXCEPT !.cancelBy = "shutdown"] ELSE sess[r]]
<1>1. sess' = f /\ slot' = slot
  BY DEF StopAll
<1>2. ASSUME NEW r \in Runs
      PROVE  /\ Follows(sess[r], f[r]) /\ f[r] \in SessionType /\ f[r].seq = sess[r].seq
             /\ f[r].start = sess[r].start /\ f[r].events = sess[r].events
  <2> DEFINE s == sess[r]
             x == [s EXCEPT !.cancelBy = "shutdown"]
  <2>1. s \in SessionType
    BY SessionOfRun DEF IInv, SlotInv
  <2>2. /\ x \in SessionType /\ x.seq = s.seq /\ x.start = s.start /\ x.events = s.events
        /\ x.status = s.status /\ x.stage = s.stage /\ x.fault = s.fault
        /\ x.cancelBy = "shutdown" /\ x.stopRequested = s.stopRequested
        /\ x.sawError = s.sawError
    BY <2>1 DEF SessionType
  <2>3. f[r] = s \/ f[r] = x
    OBVIOUS
  <2> HIDE DEF x, f
  <2>4. Follows(s, s) /\ Follows(s, x)
    <3>1. TrimmedInChunks(s) => TrimmedInChunks(x)
      BY <2>2 DEF TrimmedInChunks
    <3> QED BY <2>1, <2>2, <3>1 DEF Follows, Facts, SessionType
  <2> QED BY <2>1, <2>2, <2>3, <2>4
<1>3. f = [r \in Runs |-> f[r]]
  OBVIOUS
<1> HIDE DEF f
<1>4. Len(sess') = Len(sess)
  BY <1>1, <1>2, <1>3, AllSessions
<1> QED BY <1>1, <1>2, <1>4 DEF Grows

\* A new process remembers no run: what ran is lost, what had ended keeps its status.
LEMMA RestartGrows ==
  ASSUME IInv, Restart
  PROVE  Grows /\ slot' = 0 /\ \A r \in Runs : sess'[r].stage = "lost"
<1> DEFINE f == [r \in Runs |->
                   [sess[r] EXCEPT !.stage = "lost",
                                   !.status = IF Running(r) THEN "lost" ELSE @]]
<1>1. sess' = f /\ slot' = 0
  BY DEF Restart
<1>2. ASSUME NEW r \in Runs
      PROVE  /\ Follows(sess[r], f[r]) /\ f[r] \in SessionType /\ f[r].seq = sess[r].seq
             /\ f[r].start = sess[r].start /\ f[r].events = sess[r].events
             /\ f[r].stage = "lost"
  <2> DEFINE s == sess[r]
             st == IF Running(r) THEN "lost" ELSE s.status
             x == [s EXCEPT !.stage = "lost", !.status = st]
  <2>1. s \in SessionType
    BY SessionOfRun DEF IInv, SlotInv
  <2>2. st \in Statuses /\ (st = s.status \/ (s.status = "running" /\ st = "lost"))
    BY <2>1 DEF SessionType, Statuses, Running
  <2> HIDE DEF st
  <2>3. /\ x \in SessionType /\ x.seq = s.seq /\ x.start = s.start /\ x.events = s.events
        /\ x.status = st /\ x.stage = "lost" /\ x.fault = s.fault
        /\ x.cancelBy = s.cancelBy /\ x.stopRequested = s.stopRequested
        /\ x.sawError = s.sawError
    BY <2>1, <2>2 DEF SessionType, Stages
  <2>4. f[r] = x
    BY DEF st
  <2> HIDE DEF x, f
  <2>5. Follows(s, x)
    <3>1. TrimmedInChunks(s) => TrimmedInChunks(x)
      BY <2>3 DEF TrimmedInChunks
    <3> QED BY <2>1, <2>2, <2>3, <3>1 DEF Follows, Facts, SessionType
  <2> QED BY <2>3, <2>4, <2>5
<1>3. f = [r \in Runs |-> f[r]]
  OBVIOUS
<1> HIDE DEF f
<1>4. Len(sess') = Len(sess)
  BY <1>1, <1>2, <1>3, AllSessions
<1> QED BY <1>1, <1>2, <1>4 DEF Grows

\* What a step that starts no run keeps: only the newest session can still grow, so the
\* numbers that separate two sessions stay where they are.
LEMMA GrowsKeeps ==
  ASSUME OInv, IInv', Grows, SlotIsNewest'
  PROVE  OInv'
<1>1. Runs' = Runs
  BY DEF Grows, Runs
<1>2. AllFacts'
  BY <1>1 DEF OInv, AllFacts, Grows, Follows
<1>3. ASSUME NEW r \in Runs, NEW q \in Runs, r < q, sess'[r].stage # "lost"
      PROVE  sess'[r].seq <= sess'[q].start
  <2>1. Follows(sess[r], sess'[r]) /\ Follows(sess[q], sess'[q])
    BY DEF Grows
  <2>2. sess[r].stage # "lost"
    BY <1>3, <2>1 DEF Follows
  <2>3. sess[r].seq <= sess[q].start
    BY <1>3, <2>2 DEF OInv, SeqNeverReused
  <2>4. sess[r].status # "running"
    <3>1. Running(r) => r = slot
      BY DEF OInv, IInv, SlotInv, RunningIsCurrent
    <3>2. Len(sess) \in Nat /\ Runs = 1..Len(sess)
      BY DEF OInv, IInv, SlotInv, TypeOK, Runs
    <3>3. r # slot
      BY <1>3, <3>2 DEF OInv, SlotIsNewest
    <3> QED BY <3>1, <3>3 DEF Running
  <2> QED BY <2>1, <2>3, <2>4 DEF Follows
<1>4. SeqNeverReused'
  BY <1>1, <1>3 DEF SeqNeverReused
<1>5. AllTrimmed'
  BY <1>1 DEF OInv, AllTrimmed, Grows, Follows
<1> QED BY <1>2, <1>4, <1>5 DEF OInv

\* A new run counts on from the newest session, which counted on from every earlier one.
LEMMA BeginKeeps ==
  ASSUME OInv, IInv', NEW browser \in BOOLEAN, TryBeginRun(browser)
  PROVE  OInv' /\ Runs \subseteq Runs' /\ \A r \in Runs : sess'[r] = sess[r]
<1> DEFINE n == Len(sess) + 1
           start == IF slot = 0 THEN 0 ELSE LastSeq(slot)
           s == NewSession(browser, start)
<1>1. sess' = Append(sess, s) /\ slot' = n /\ n # 0
  <2>1. Len(sess) \in Nat
    BY DEF OInv, IInv, SlotInv, TypeOK
  <2> QED BY <2>1 DEF TryBeginRun, Begin
<1>2. s.start = start /\ s.fault = "none" /\ s.cancelBy = "nobody" /\ s.status = "running"
  BY DEF NewSession
<1>3. s \in SessionType
  <2>1. start \in Nat
    <3>1. slot # 0 => slot \in Runs
      BY DEF OInv, IInv, SlotInv, TypeOK, Runs
    <3>2. slot # 0 => sess[slot] \in SessionType
      BY <3>1, SessionOfRun DEF OInv, IInv, SlotInv
    <3> QED BY <3>2 DEF LastSeq, SessionType
  <2> HIDE DEF start
  <2> QED BY <2>1, EmptySeq DEF NewSession, SessionType, Statuses, Stages, Faults
<1> HIDE DEF s
<1>4. Len(sess) \in Nat /\ n \in Nat /\ Runs = 1..Len(sess) /\ sess \in Seq(SessionType)
  BY DEF OInv, IInv, SlotInv, TypeOK, Runs
<1>5. /\ Len(sess') = n /\ Runs' = 1..n
      /\ sess'[n] = s /\ \A q \in Runs : sess'[q] = sess[q]
  BY <1>1, <1>3, <1>4, AppendProperties DEF Runs
<1>6. \A q \in Runs' : q \in Runs \/ q = n
  BY <1>4, <1>5
<1>7. AllFacts'
  <2>1. Facts(s)
    BY <1>2 DEF Facts
  <2> QED BY <1>5, <1>6, <2>1 DEF OInv, AllFacts
<1>12. AllTrimmed'
  <2>1. s.seq = start /\ s.events = <<>>
    BY DEF s, NewSession
  <2>2. s.seq - Len(s.events) = s.start /\ s.start \in Nat
    <3>1. s.seq \in Nat /\ Len(<<>>) = 0
      BY <1>3 DEF SessionType
    <3> HIDE DEF start
    <3> QED BY <1>2, <2>1, <3>1
  <2>3. 0 % TrimChunk = 0
    <3>1. TrimChunk \in Nat /\ TrimChunk > 0
      BY BufferAssumption
    <3> QED BY <3>1
  <2>4. s.start - s.start = 0 /\ ~(s.start > s.start)
    BY <2>2
  <2>5. TrimmedInChunks(s)
    BY <2>2, <2>3, <2>4 DEF TrimmedInChunks
  <2> QED BY <1>5, <1>6, <2>5 DEF OInv, AllTrimmed
<1>8. SlotIsNewest'
  BY <1>1, <1>5 DEF SlotIsNewest
<1>9. ASSUME NEW r \in Runs, sess[r].stage # "lost"
      PROVE  sess[r].seq <= start
  <2>1. slot # 0 /\ slot = Len(sess) /\ slot \in Runs /\ start = sess[slot].seq
    <3>1. slot # 0
      BY <1>9 DEF OInv, SlotIsNewest
    <3>2. slot = Len(sess)
      BY <3>1 DEF OInv, SlotIsNewest
    <3> QED BY <1>4, <3>1, <3>2 DEF LastSeq
  <2>2. CASE r = slot
    BY <2>1, <2>2, SessionOfRun DEF OInv, IInv, SlotInv, SessionType
  <2>3. CASE r # slot
    <3>1. r < slot
      BY <1>4, <2>1, <2>3
    <3>2. sess[r].seq <= sess[slot].start
      BY <1>9, <2>1, <3>1 DEF OInv, SeqNeverReused
    <3>3. sess[slot] \in SessionType /\ sess[r] \in SessionType /\ IsTail(sess[slot])
      BY <2>1, SessionOfRun DEF OInv, IInv, SlotInv, BufferIsTail
    <3>4. /\ sess[slot].seq \in Nat /\ sess[slot].start \in Nat /\ sess[r].seq \in Nat
          /\ Len(sess[slot].events) \in Nat
          /\ sess[slot].start + Len(sess[slot].events) <= sess[slot].seq
      BY <3>3 DEF IsTail, SessionType
    <3> HIDE DEF start
    <3> QED BY <2>1, <3>2, <3>4
  <2> QED BY <2>2, <2>3
<1>10. ASSUME NEW r \in Runs', NEW q \in Runs', r < q, sess'[r].stage # "lost"
       PROVE  sess'[r].seq <= sess'[q].start
  <2> HIDE DEF start
  <2>1. r \in Runs /\ sess'[r] = sess[r]
    BY <1>4, <1>5, <1>10
  <2>2. CASE q = n
    BY <1>2, <1>5, <1>9, <1>10, <2>1, <2>2
  <2>3. CASE q \in Runs
    BY <1>5, <1>10, <2>1, <2>3 DEF OInv, SeqNeverReused
  <2> QED BY <1>6, <2>2, <2>3
<1>11. SeqNeverReused'
  BY <1>10 DEF SeqNeverReused
<1>13. Runs \subseteq Runs'
  BY <1>4, <1>5
<1> QED BY <1>5, <1>7, <1>8, <1>11, <1>12, <1>13 DEF OInv

-----------------------------------------------------------------------------
\* The empty registry satisfies the invariant.
LEMMA OutcomeInit == Init => OInv
<1> SUFFICES ASSUME Init PROVE OInv
  OBVIOUS
<1>1. Runs = {} /\ slot = 0
  BY DEF Init, Runs
<1> QED BY <1>1, InitInv DEF OInv, AllFacts, AllTrimmed, SlotIsNewest, SeqNeverReused

\* What a step may make of the sessions there are: each counts on from its own start, and one
\* that ended stays as it ended.
GoOn ==
  /\ Runs \subseteq Runs'
  /\ \A r \in Runs :
       /\ sess'[r].start = sess[r].start /\ sess[r].seq <= sess'[r].seq
       /\ ~Running(r) => sess'[r].status = sess[r].status /\ sess'[r].seq = sess[r].seq

\* Every step keeps the invariant and lets each session only go on.
LEMMA OutcomeStep ==
  ASSUME OInv, [Next]_vars
  PROVE  OInv' /\ GoOn
<1>1. IInv'
  BY StepInv DEF OInv
<1>2. IInv
  BY DEF OInv
<1>3. ASSUME Grows, slot' = slot
      PROVE  SlotIsNewest'
  BY <1>3 DEF OInv, SlotIsNewest, Grows, Follows, Runs
<1>4. ASSUME Grows
      PROVE  GoOn
  BY <1>4 DEF GoOn, Grows, Follows, Running, Runs
<1>5. ASSUME NEW browser \in BOOLEAN, TryBeginRun(browser)
      PROVE  OInv' /\ GoOn
  <2>1. OInv' /\ Runs \subseteq Runs' /\ \A r \in Runs : sess'[r] = sess[r]
    BY <1>1, <1>5, BeginKeeps
  <2>2. \A r \in Runs : sess[r] \in SessionType
    BY <1>2, SessionOfRun DEF IInv, SlotInv
  <2> QED BY <2>1, <2>2 DEF GoOn, SessionType
<1>6. ASSUME NEW r \in Runs, TurnStep(r) \/ RecordStop(r) \/ FireCancel(r)
      PROVE  Grows /\ slot' = slot
  BY <1>2, <1>6, TurnGrows
<1>7. CASE StopAll
  BY <1>1, <1>2, <1>3, <1>4, <1>7, StopAllGrows, GrowsKeeps
<1>8. CASE Restart
  <2>1. Grows /\ slot' = 0 /\ \A r \in Runs : sess'[r].stage = "lost"
    BY <1>2, <1>8, RestartGrows
  <2>2. SlotIsNewest'
    BY <2>1 DEF SlotIsNewest, Grows, Runs
  <2> QED BY <1>1, <1>4, <2>1, <2>2, GrowsKeeps
<1>9. CASE UNCHANGED <<sess, slot>>
  <2>1. Grows
    BY <1>2, <1>9, SessionOfRun DEF IInv, SlotInv, Grows, Follows, SessionType
  <2> QED BY <1>1, <1>3, <1>4, <1>9, <2>1, GrowsKeeps
<1>10. ASSUME NEW a \in Attachments,
              \/ Resolve(a)
              \/ \E after \in Watermarks : Attach(a, after)
              \/ Deliver(a) \/ StreamEnds(a) \/ Detach(a)
       PROVE  UNCHANGED <<sess, slot>>
  BY <1>10 DEF Resolve, Attach, Deliver, StreamEnds, Detach
<1>11. ASSUME NEW r \in Runs, TurnStep(r) \/ RecordStop(r) \/ FireCancel(r)
       PROVE  OInv' /\ GoOn
  BY <1>1, <1>3, <1>4, <1>6, <1>11, GrowsKeeps
<1>12. UNCHANGED vars => UNCHANGED <<sess, slot>>
  BY DEF vars
<1> QED BY <1>5, <1>7, <1>8, <1>9, <1>10, <1>11, <1>12 DEF Next, ServerStep

-----------------------------------------------------------------------------
\* A stream that was open before a step and still is keeps its floor and its watermark.
LEMMA OpenStreamsKept ==
  ASSUME OInv, GoOn, ReplayMatchesWatermark,
         \A a \in Attachments : att'[a].state = "open" =>
           /\ att[a].state = "open" /\ att'[a].run = att[a].run
           /\ att'[a].floor = att[a].floor /\ att'[a].after = att[a].after,
         \A r \in Runs : sess'[r].seq \in Nat
  PROVE  ReplayMatchesWatermark'
<1> SUFFICES ASSUME NEW a \in Attachments, NEW c, c = att[a], NEW d, d = att'[a],
                    d.state = "open", NEW t, t = sess'[d.run]
             PROVE  /\ d.floor >= d.after
                    /\ (d.floor > d.after /\ d.floor > t.start) =>
                         /\ (d.floor - t.start) % TrimChunk = 0
                         /\ t.seq - t.start > MaxBufferedEvents
  BY Zenon DEF ReplayMatchesWatermark
<1> DEFINE s == sess[c.run]
<1>1. c.state = "open" /\ d.run = c.run /\ d.floor = c.floor /\ d.after = c.after
  OBVIOUS
<1>2. /\ c.floor >= c.after
      /\ (c.floor > c.after /\ c.floor > s.start) =>
           (c.floor - s.start) % TrimChunk = 0 /\ s.seq - s.start > MaxBufferedEvents
  BY <1>1 DEF ReplayMatchesWatermark
<1>3. c.run \in Runs
  BY <1>1 DEF OInv, IInv, SlotInv, TypeOK
<1>4. s \in SessionType
  BY <1>3, SessionOfRun DEF OInv, IInv, SlotInv
<1>5. t.start = s.start /\ s.seq <= t.seq /\ t.seq \in Nat
  BY <1>1, <1>3 DEF GoOn
<1>6. s.seq \in Nat /\ s.start \in Nat /\ MaxBufferedEvents \in Nat
  BY <1>4, BufferAssumption DEF SessionType
<1> HIDE DEF s
<1>7. s.seq - s.start > MaxBufferedEvents => t.seq - t.start > MaxBufferedEvents
  BY <1>5, <1>6
<1> QED BY <1>1, <1>2, <1>5, <1>7

\* A stream that opens begins right above its watermark, or where the buffer begins.
LEMMA OpeningMatches ==
  ASSUME NEW s \in SessionType, IsTail(s), TrimmedInChunks(s), NEW after \in Nat,
         NEW floor, floor = s.seq - Len(Replay(s.events, after)), NEW low, low = Lesser(after, s.seq)
  PROVE  /\ floor >= low
         /\ (floor > low /\ floor > s.start) =>
              (floor - s.start) % TrimChunk = 0 /\ s.seq - s.start > MaxBufferedEvents
<1> DEFINE lo == s.seq - Len(s.events)
           len == Len(Replay(s.events, after))
<1>1. PICK f \in Nat : /\ f <= s.seq /\ len = s.seq - f
                       /\ after <= s.seq => after <= f
                       /\ s.seq <= after => f = s.seq
                       /\ lo <= f
                       /\ f <= after \/ f = lo
  BY ReplayIsTail
<1>2. s.seq \in Nat /\ s.start \in Nat
  BY DEF SessionType
<1>3. (lo - s.start) % TrimChunk = 0 /\ (lo > s.start => s.seq - s.start > MaxBufferedEvents)
  BY DEF TrimmedInChunks
<1>4. floor = s.seq - len /\ low = IF after < s.seq THEN after ELSE s.seq
  BY DEF Lesser
<1> HIDE DEF lo, len
<1>5. floor = f
  BY <1>1, <1>2, <1>4
<1>6. floor >= low
  <2>1. CASE after < s.seq
    <3>1. low = after /\ after <= f
      BY <1>1, <1>2, <1>4, <2>1
    <3> QED BY <1>5, <3>1
  <2>2. CASE ~(after < s.seq)
    <3>1. low = s.seq /\ f = s.seq
      BY <1>1, <1>2, <1>4, <2>2
    <3> QED BY <1>2, <1>5, <3>1
  <2> QED BY <2>1, <2>2
<1>7. floor > low => floor = lo
  BY <1>1, <1>2, <1>4, <1>5
<1> QED BY <1>3, <1>6, <1>7

\* Every step keeps what the streams were promised.
LEMMA WatermarkStep ==
  ASSUME OInv, OInv', ReplayMatchesWatermark, GoOn, [Next]_vars
  PROVE  ReplayMatchesWatermark'
<1> DEFINE Kept == \A a \in Attachments : att'[a].state = "open" =>
                     /\ att[a].state = "open" /\ att'[a].run = att[a].run
                     /\ att'[a].floor = att[a].floor /\ att'[a].after = att[a].after
<1>1. att \in [Attachments -> AttachmentType] /\ att' \in [Attachments -> AttachmentType]
  BY DEF OInv, IInv, SlotInv, TypeOK
<1>2. \A r \in Runs : sess'[r].seq \in Nat
  <2>1. \A r \in Runs' : sess'[r] \in SessionType
    BY ElementOfSeq DEF OInv, IInv, SlotInv, TypeOK, Runs
  <2> QED BY <2>1 DEF GoOn, SessionType
<1>3. Kept => ReplayMatchesWatermark'
  BY <1>2, OpenStreamsKept
<1>4. UNCHANGED att => Kept
  OBVIOUS
<1>5. ASSUME NEW r, NEW s, NEW kind, Emit(r, s, kind)
      PROVE  Kept
  BY <1>1, <1>5 DEF Emit, AttachmentType
<1>6. ASSUME NEW r, Complete(r)
      PROVE  Kept
  BY <1>1, <1>6 DEF Complete, AttachmentType
<1>7. ASSUME Restart
      PROVE  Kept
  <2>1. \A a \in Attachments : att'[a] = Detached
    BY <1>7 DEF Restart
  <2>2. Detached.state # "open"
    BY DEF Detached
  <2> QED BY <2>1, <2>2
<1> HIDE DEF Kept
<1>8. ASSUME NEW r \in Runs, TurnStep(r)
      PROVE  Kept
  <2>1. ASSUME NEW notice \in BOOLEAN, Preflight(r, notice)
        PROVE  Kept
    <3>1. CASE notice
      BY <1>5, <2>1, <3>1 DEF Preflight
    <3>2. CASE ~notice
      BY <1>4, <2>1, <3>2 DEF Preflight
    <3> QED BY <3>1, <3>2
  <2>2. ASSUME NEW kind \in Kinds, CliLine(r, kind)
        PROVE  Kept
    BY <1>5, <2>2 DEF CliLine
  <2>3. ASSUME NEW code \in {0, 1}, CliExit(r, code)
        PROVE  Kept
    <3>1. CASE code # 0 /\ sess[r].fault # "is_error"
      BY <1>5, <2>3, <3>1 DEF CliExit
    <3>2. CASE ~(code # 0 /\ sess[r].fault # "is_error")
      BY <1>4, <2>3, <3>2 DEF CliExit
    <3> QED BY <3>1, <3>2
  <2>4. CASE CliCancelled(r) \/ CliCrash(r)
    BY <1>5, <2>4 DEF CliCancelled, CliCrash
  <2>5. CASE NotifyCompleted(r)
    BY <1>4, <2>5 DEF NotifyCompleted
  <2> QED BY <1>6, <1>8, <2>1, <2>2, <2>3, <2>4, <2>5 DEF TurnStep
<1>9. ServerStep => Kept
  <2>1. ASSUME NEW browser \in BOOLEAN, TryBeginRun(browser)
        PROVE  Kept
    BY <1>4, <2>1 DEF TryBeginRun
  <2>2. ASSUME NEW r \in Runs, RecordStop(r) \/ FireCancel(r)
        PROVE  Kept
    BY <1>4, <2>2 DEF RecordStop, FireCancel
  <2>3. StopAll => Kept
    BY <1>4 DEF StopAll
  <2> QED BY <1>7, <1>8, <2>1, <2>2, <2>3 DEF ServerStep
<1>10. ASSUME NEW a \in Attachments, Resolve(a) \/ Deliver(a) \/ StreamEnds(a) \/ Detach(a)
       PROVE  Kept
  <2>1. CASE Resolve(a)
    BY <1>1, <2>1 DEF Kept, Resolve, Detached
  <2>2. CASE Deliver(a)
    BY <1>1, <2>2 DEF Kept, Deliver, AttachmentType
  <2>3. CASE StreamEnds(a)
    BY <1>1, <2>3 DEF Kept, StreamEnds, AttachmentType
  <2>4. CASE Detach(a)
    BY <1>1, <2>4 DEF Kept, Detach, Detached
  <2> QED BY <1>10, <2>1, <2>2, <2>3, <2>4
<1>11. ASSUME NEW a \in Attachments, NEW after \in Watermarks, Attach(a, after)
       PROVE  ReplayMatchesWatermark'
  <2> DEFINE r == att[a].run
             d == Opened(r, after)
  <2>1. /\ sess' = sess /\ att'[a] = d
        /\ \A b \in Attachments : b # a => att'[b] = att[b]
    BY <1>1, <1>11 DEF Attach
  <2>2. r \in Runs /\ after \in Nat
    <3>1. r \in Runs
      BY <1>11 DEF Attach, OInv, IInv, SlotInv, TypeOK
    <3>2. after \in Nat
      BY BoundAssumption DEF Watermarks
    <3> QED BY <3>1, <3>2
  <2>3. sess[r] \in SessionType /\ IsTail(sess[r]) /\ TrimmedInChunks(sess[r])
    BY <2>2, SessionOfRun DEF OInv, IInv, SlotInv, BufferIsTail, AllTrimmed
  <2>4. /\ d.run = r /\ d.after = Lesser(after, sess[r].seq)
        /\ d.floor = sess[r].seq - Len(Replay(sess[r].events, after))
    BY DEF Opened
  <2> HIDE DEF d, r
  <2>5. /\ d.floor >= d.after
        /\ (d.floor > d.after /\ d.floor > sess[r].start) =>
             (d.floor - sess[r].start) % TrimChunk = 0 /\ sess[r].seq - sess[r].start > MaxBufferedEvents
    BY <2>2, <2>3, <2>4, OpeningMatches
  <2> QED BY <2>1, <2>4, <2>5 DEF ReplayMatchesWatermark
<1>12. UNCHANGED vars => Kept
  BY <1>4 DEF vars
<1> QED BY <1>3, <1>9, <1>10, <1>11, <1>12 DEF Next

\* The strengthened invariant of endings and counts holds in every reachable state.
THEOREM OutcomeInvariance == Spec => []OInv
<1>1. OInv /\ [Next]_vars => OInv'
  BY OutcomeStep
<1> QED BY <1>1, OutcomeInit, PTL DEF Spec

\* Whatever a client asks for is what it gets: its stream begins at its watermark, or where
\* whole chunks had been trimmed, for every cap, chunk size and interleaving of its opening
\* with the run's emissions.
THEOREM ReplayMatchesItsWatermark == Spec => []ReplayMatchesWatermark
<1>1. Init => ReplayMatchesWatermark
  BY DEF Init, Detached, ReplayMatchesWatermark
<1>2. OInv /\ OInv' /\ ReplayMatchesWatermark /\ [Next]_vars => ReplayMatchesWatermark'
  BY OutcomeStep, WatermarkStep
<1> QED BY <1>1, <1>2, OutcomeInvariance, PTL DEF Spec

\* No seq is given to two events of one process, for every number of runs of the slot.
THEOREM SeqIsNeverReused == Spec => []SeqNeverReused
<1>1. OInv => SeqNeverReused
  BY DEF OInv
<1> QED BY <1>1, OutcomeInvariance, PTL

\* A turn whose only trouble was the operator's Stop never finalizes as "error", and a
\* clean "done" had no trouble, whichever of Stop, shutdown and exit came first.
THEOREM StopIsNeverAFailure == Spec => []StopIsNotAFailure
<1>1. OInv => StopIsNotAFailure
  BY DEF OInv, AllFacts, Facts, StopIsNotAFailure
<1> QED BY <1>1, OutcomeInvariance, PTL

\* A terminal run's status is final and no event follows it.
THEOREM EndIsFinal == Spec => NothingAfterTheEnd
<1>1. OInv /\ [Next]_vars =>
        [\A r \in Runs : ~Running(r) =>
           sess'[r].status = sess[r].status /\ sess'[r].seq = sess[r].seq]_vars
  BY OutcomeStep DEF GoOn
<1> QED BY <1>1, OutcomeInvariance, PTL DEF Spec, NothingAfterTheEnd
=============================================================================
