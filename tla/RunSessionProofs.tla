-------------------------- MODULE RunSessionProofs --------------------------
(***************************************************************************)
(* Proofs about RunSession: for every number of runs, events and           *)
(* attachments and every buffer size, turns of one slot never overlap, the *)
(* replay buffer is the newest stretch of the log, and every attachment is *)
(* handed the log without a hole or a repetition.                          *)
(***************************************************************************)
EXTENDS RunSession, SequenceTheorems, TLAPS

(* The inductive invariant.  A turn that is still executing is the one of the  *)
(* registry's session, so only it can emit; a channel is subscribed exactly    *)
(* while its stream is open on a running session, so it misses no emission.    *)

StageMatchesStatus ==
  \A r \in Runs : sess[r].stage \in {"preflight", "cli", "ended"} <=> Running(r)

RunningIsCurrent == \A r \in Runs : Running(r) => r = slot

SubscribedWhileOpen ==
  \A a \in Attachments :
    att[a].subscribed <=> (att[a].state = "open" /\ Running(att[a].run))

SlotInv == TypeOK /\ StageMatchesStatus /\ RunningIsCurrent

IInv ==
  /\ SlotInv
  /\ BufferIsTail
  /\ SubscribedWhileOpen
  /\ DeliveryIsExact
  /\ EndedStreamIsWhole

-----------------------------------------------------------------------------
\* Ascending(lo, hi) is a sequence of naturals of length hi - lo.
LEMMA AscendingSeq ==
  ASSUME NEW lo \in Nat, NEW hi \in Nat, lo <= hi
  PROVE  /\ Ascending(lo, hi) \in Seq(Nat)
         /\ Len(Ascending(lo, hi)) = hi - lo
         /\ \A i \in 1..(hi - lo) : Ascending(lo, hi)[i] = lo + i
BY DEF Ascending

\* One more event at the end of an ascending stretch.
LEMMA AscendingAppend ==
  ASSUME NEW lo \in Nat, NEW hi \in Nat, lo <= hi
  PROVE  Append(Ascending(lo, hi), hi + 1) = Ascending(lo, hi + 1)
BY DEF Ascending

\* Dropping the oldest k events of an ascending stretch.
LEMMA AscendingSuffix ==
  ASSUME NEW lo \in Nat, NEW hi \in Nat, NEW k \in Nat, lo + k <= hi
  PROVE  SubSeq(Ascending(lo, hi), k + 1, hi - lo) = Ascending(lo + k, hi)
BY DEF Ascending

\* Taking the oldest event off an ascending stretch.
LEMMA AscendingTail ==
  ASSUME NEW lo \in Nat, NEW hi \in Nat, lo < hi
  PROVE  /\ Ascending(lo, hi) # <<>>
         /\ Head(Ascending(lo, hi)) = lo + 1
         /\ Tail(Ascending(lo, hi)) = Ascending(lo + 1, hi)
<1> DEFINE s == Ascending(lo, hi)
           t == Ascending(lo + 1, hi)
<1>1. s \in Seq(Nat) /\ Len(s) = hi - lo /\ \A i \in 1..(hi - lo) : s[i] = lo + i
  BY AscendingSeq
<1>2. t \in Seq(Nat) /\ Len(t) = hi - (lo + 1) /\ \A i \in 1..(hi - (lo + 1)) : t[i] = lo + 1 + i
  BY AscendingSeq
<1> HIDE DEF s, t
<1>3. s # <<>> /\ Head(s) = lo + 1
  BY <1>1
<1>4. Tail(s) \in Seq(Nat) /\ Len(Tail(s)) = Len(s) - 1
      /\ \A i \in 1..Len(Tail(s)) : Tail(s)[i] = s[i + 1]
  BY <1>1, <1>3, HeadTailProperties
<1>5. Len(Tail(s)) = Len(t) /\ \A i \in 1..Len(Tail(s)) : Tail(s)[i] = t[i]
  BY <1>1, <1>2, <1>4
<1>6. Tail(s) = t
  BY <1>2, <1>4, <1>5, SeqEqual
<1> QED BY <1>3, <1>6 DEF s, t

\* What it takes for a session's buffer to be a tail of its log.
LEMMA TailFrom ==
  ASSUME NEW s, NEW lo \in Nat, s.seq \in Nat, s.start \in Nat,
         s.start <= lo, lo <= s.seq, s.events = Ascending(lo, s.seq),
         s.seq - lo <= MaxBufferedEvents,
         lo = s.start \/ s.seq - lo > MaxBufferedEvents - TrimChunk
  PROVE  IsTail(s)
<1>1. Len(s.events) = s.seq - lo
  BY AscendingSeq
<1>2. s.seq - Len(s.events) = lo /\ s.start + Len(s.events) <= s.seq
  BY <1>1
<1> QED BY <1>1, <1>2 DEF IsTail

\* An update of the log's fields keeps a session a session.
LEMMA SessionUpdate ==
  ASSUME NEW s \in SessionType, NEW n \in Nat, NEW events \in Seq(Nat),
         NEW sawDone \in BOOLEAN, NEW sawError \in BOOLEAN
  PROVE  [s EXCEPT !.seq = n, !.events = events,
                   !.sawDone = sawDone, !.sawError = sawError] \in SessionType
BY DEF SessionType

\* Emitting keeps a session a session and its buffer a tail of its log.
LEMMA EmitIntoSession ==
  ASSUME NEW s \in SessionType, NEW kind \in Kinds, IsTail(s)
  PROVE  /\ EmitInto(s, kind) \in SessionType
         /\ IsTail(EmitInto(s, kind))
         /\ EmitInto(s, kind).seq = s.seq + 1
         /\ EmitInto(s, kind).status = s.status
         /\ EmitInto(s, kind).stage = s.stage
<1> DEFINE n == Len(s.events)
           lo == s.seq - n
           hi == s.seq + 1
           cut == lo + TrimChunk
           grown == Append(s.events, hi)
           events == Buffered(s.events, hi)
           e == EmitInto(s, kind)
<1>1. /\ s.seq \in Nat /\ s.start \in Nat /\ s.events \in Seq(Nat) /\ n \in Nat
      /\ lo \in Nat /\ lo <= s.seq /\ s.start <= lo /\ hi \in Nat /\ hi = s.seq + 1
      /\ hi - lo = n + 1
  BY DEF SessionType, IsTail
<1>2. /\ s.events = Ascending(lo, s.seq)
      /\ n <= MaxBufferedEvents
      /\ lo = s.start \/ n > MaxBufferedEvents - TrimChunk
  BY <1>1 DEF IsTail
<1>3. /\ MaxBufferedEvents \in Nat /\ TrimChunk \in Nat
      /\ 0 < TrimChunk /\ TrimChunk <= MaxBufferedEvents
  BY BufferAssumption
<1>4. grown \in Seq(Nat) /\ Len(grown) = n + 1
  BY <1>1
<1>5. events = IF n + 1 > MaxBufferedEvents THEN SubSeq(grown, TrimChunk + 1, n + 1) ELSE grown
  BY <1>4 DEF Buffered
<1>6. /\ e.seq = hi
      /\ e.start = s.start
      /\ e.events = events
      /\ e.status = s.status
      /\ e.stage = s.stage
  BY DEF EmitInto, SessionType
<1>7. cut = lo + TrimChunk
  OBVIOUS
<1>8. grown = Append(s.events, hi)
  OBVIOUS
<1>9. events \in Seq(Nat) => e \in SessionType
  <2> DEFINE sawDone == s.sawDone \/ kind = "done"
             sawError == s.sawError \/ kind = "error"
  <2>1. sawDone \in BOOLEAN /\ sawError \in BOOLEAN
    OBVIOUS
  <2>2. e = [s EXCEPT !.seq = hi, !.events = events,
                      !.sawDone = sawDone, !.sawError = sawError]
    BY DEF EmitInto, SessionType
  <2> HIDE DEF sawDone, sawError, events, e, hi, n
  <2> QED BY <1>1, <2>1, <2>2, SessionUpdate
<1> HIDE DEF n, lo, hi, cut, grown, events, e
<1>10. grown = Ascending(lo, hi)
  BY <1>1, <1>2, <1>8, AscendingAppend
<1>11. CASE n + 1 > MaxBufferedEvents
  <2>1. /\ cut \in Nat /\ lo + TrimChunk <= hi /\ cut <= hi /\ s.start <= cut
        /\ hi - cut <= MaxBufferedEvents /\ hi - cut > MaxBufferedEvents - TrimChunk
    BY <1>1, <1>2, <1>3, <1>7, <1>11
  <2>2. events = Ascending(cut, hi)
    <3>1. lo \in Nat /\ hi \in Nat /\ TrimChunk \in Nat /\ lo + TrimChunk <= hi
      BY <1>1, <1>3, <2>1
    <3>2. SubSeq(Ascending(lo, hi), TrimChunk + 1, hi - lo) = Ascending(lo + TrimChunk, hi)
      BY <3>1, AscendingSuffix
    <3> QED BY <1>1, <1>5, <1>7, <1>10, <1>11, <3>2
  <2>3. events \in Seq(Nat)
    BY <1>1, <2>1, <2>2, AscendingSeq
  <2>4. IsTail(e)
    BY <1>1, <1>6, <2>1, <2>2, TailFrom
  <2> QED BY <1>6, <1>9, <1>1, <2>3, <2>4 DEF e
<1>12. CASE ~(n + 1 > MaxBufferedEvents)
  <2>1. /\ hi - lo <= MaxBufferedEvents /\ lo <= hi
        /\ lo = s.start \/ hi - lo > MaxBufferedEvents - TrimChunk
    BY <1>1, <1>2, <1>3, <1>12
  <2>2. events = Ascending(lo, hi) /\ events \in Seq(Nat)
    BY <1>4, <1>5, <1>10, <1>12
  <2>3. IsTail(e)
    BY <1>1, <1>6, <2>1, <2>2, TailFrom
  <2> QED BY <1>6, <1>9, <1>1, <2>2, <2>3 DEF e
<1> QED BY <1>11, <1>12

-----------------------------------------------------------------------------
\* Replacing one session of the sequence.
LEMMA ReplaceSession ==
  ASSUME TypeOK, NEW r \in Runs, NEW s \in SessionType,
         sess' = [sess EXCEPT ![r] = s]
  PROVE  /\ sess' \in Seq(SessionType)
         /\ Runs' = Runs
         /\ Len(sess') = Len(sess)
         /\ sess'[r] = s
         /\ \A q \in Runs : q # r => sess'[q] = sess[q]
BY ExceptSeq DEF TypeOK, Runs

\* What the type invariant says of the session of one run.
LEMMA SessionOfRun ==
  ASSUME TypeOK, NEW r \in Runs
  PROVE  sess[r] \in SessionType
BY ElementOfSeq DEF TypeOK, Runs

\* A step that changes one session, but neither its log, its status nor whether
\* it is executing, and no attachment.
LEMMA QuietStep ==
  ASSUME IInv, NEW r \in Runs, NEW s \in SessionType,
         sess' = [sess EXCEPT ![r] = s],
         s.seq = sess[r].seq, s.start = sess[r].start, s.events = sess[r].events,
         s.status = sess[r].status,
         s.stage \in {"preflight", "cli", "ended"}
           <=> sess[r].stage \in {"preflight", "cli", "ended"},
         UNCHANGED <<slot, host, restarts, att>>
  PROVE  IInv'
<1>1. /\ sess' \in Seq(SessionType) /\ Runs' = Runs /\ Len(sess') = Len(sess)
      /\ sess'[r] = s /\ \A q \in Runs : q # r => sess'[q] = sess[q]
  BY ReplaceSession DEF IInv, SlotInv
<1>2. /\ \A q \in Runs : /\ sess'[q].seq = sess[q].seq
                         /\ sess'[q].start = sess[q].start
                         /\ sess'[q].events = sess[q].events
                         /\ sess'[q].status = sess[q].status
                         /\ sess'[q].stage \in {"preflight", "cli", "ended"}
                              <=> sess[q].stage \in {"preflight", "cli", "ended"}
  BY <1>1
<1>3. \A a \in Attachments : att[a].state # "idle" => att[a].run \in Runs
  BY DEF IInv, SlotInv, TypeOK
<1>4. TypeOK'
  BY <1>1 DEF IInv, SlotInv, TypeOK
<1>5. StageMatchesStatus' /\ RunningIsCurrent'
  BY <1>1, <1>2 DEF IInv, SlotInv, StageMatchesStatus, RunningIsCurrent, Running
<1>6. BufferIsTail'
  BY <1>1, <1>2 DEF IInv, BufferIsTail, IsTail
<1>7. SubscribedWhileOpen'
  BY <1>1, <1>2, <1>3 DEF IInv, SubscribedWhileOpen, Running
<1>8. DeliveryIsExact'
  BY <1>1, <1>2, <1>3 DEF IInv, DeliveryIsExact
<1>9. EndedStreamIsWhole'
  BY <1>1, <1>2, <1>3 DEF IInv, EndedStreamIsWhole, Ended, Running
<1> QED BY <1>4, <1>5, <1>6, <1>7, <1>8, <1>9 DEF IInv, SlotInv

\* A step of a running turn that emits: s is its session but for the new event.
LEMMA EmitStep ==
  ASSUME IInv, NEW r \in Runs, NEW s \in SessionType, NEW kind \in Kinds,
         Running(r), s.seq = sess[r].seq, s.start = sess[r].start,
         s.events = sess[r].events, s.status = "running", s.stage \in {"cli", "ended"},
         Emit(r, s, kind), UNCHANGED <<slot, host, restarts>>
  PROVE  IInv'
<1> DEFINE e == EmitInto(s, kind)
           n == s.seq
           m == s.seq + 1
<1>1. IsTail(s)
  BY DEF IInv, BufferIsTail, IsTail
<1>2. /\ e \in SessionType /\ IsTail(e) /\ e.seq = m
      /\ e.status = "running" /\ e.stage \in {"cli", "ended"}
  BY <1>1, EmitIntoSession
<1>3. /\ sess' = [sess EXCEPT ![r] = e]
      /\ n = sess[r].seq
  BY DEF Emit
<1>5. n \in Nat /\ m \in Nat /\ m = n + 1
  BY DEF SessionType
<1>7. att' = [a \in Attachments |->
                IF att[a].run = r /\ att[a].subscribed
                THEN [att[a] EXCEPT !.pending = Append(@, m)] ELSE att[a]]
  BY DEF Emit
<1> HIDE DEF e, n, m
<1>4. /\ sess' \in Seq(SessionType) /\ Runs' = Runs /\ Len(sess') = Len(sess)
      /\ sess'[r] = e /\ \A q \in Runs : q # r => sess'[q] = sess[q]
  BY <1>2, <1>3, ReplaceSession DEF IInv, SlotInv
<1>6. \A a \in Attachments :
        /\ att[a] \in AttachmentType
        /\ att[a].state # "idle" => att[a].run \in Runs
  BY DEF IInv, SlotInv, TypeOK
<1>8. \A a \in Attachments :
        /\ att'[a].state = att[a].state /\ att'[a].run = att[a].run
        /\ att'[a].last = att[a].last /\ att'[a].subscribed = att[a].subscribed
        /\ att'[a].pending = IF att[a].run = r /\ att[a].subscribed
                             THEN Append(att[a].pending, m) ELSE att[a].pending
        /\ att'[a] \in AttachmentType
  <2> SUFFICES ASSUME NEW a \in Attachments
               PROVE  /\ att'[a].state = att[a].state /\ att'[a].run = att[a].run
                      /\ att'[a].last = att[a].last /\ att'[a].subscribed = att[a].subscribed
                      /\ att'[a].pending = IF att[a].run = r /\ att[a].subscribed
                                           THEN Append(att[a].pending, m) ELSE att[a].pending
                      /\ att'[a] \in AttachmentType
    OBVIOUS
  <2>1. CASE att[a].run = r /\ att[a].subscribed
    <3>1. att'[a] = [att[a] EXCEPT !.pending = Append(@, m)]
      BY <1>7, <2>1
    <3>2. att[a] \in AttachmentType
      BY <1>6
    <3>3. Append(att[a].pending, m) \in Seq(Nat)
      BY <1>5, <3>2 DEF AttachmentType
    <3> DEFINE c == att[a]
               pending == Append(c.pending, m)
    <3> HIDE DEF pending
    <3>4. [c EXCEPT !.pending = pending] \in AttachmentType
      BY <3>2, <3>3 DEF AttachmentType, pending
    <3>5. /\ [c EXCEPT !.pending = pending].state = c.state
          /\ [c EXCEPT !.pending = pending].run = c.run
          /\ [c EXCEPT !.pending = pending].last = c.last
          /\ [c EXCEPT !.pending = pending].subscribed = c.subscribed
          /\ [c EXCEPT !.pending = pending].pending = pending
      BY <3>2 DEF AttachmentType
    <3> QED BY <2>1, <3>1, <3>4, <3>5 DEF pending
  <2>2. CASE ~(att[a].run = r /\ att[a].subscribed)
    BY <1>6, <1>7, <2>2
  <2> QED BY <2>1, <2>2
<1>9. TypeOK'
  BY <1>4, <1>6, <1>7, <1>8 DEF IInv, SlotInv, TypeOK
<1>10. StageMatchesStatus' /\ RunningIsCurrent'
  BY <1>2, <1>4 DEF IInv, SlotInv, StageMatchesStatus, RunningIsCurrent, Running
<1>11. BufferIsTail'
  BY <1>2, <1>4 DEF IInv, BufferIsTail
<1>12. SubscribedWhileOpen'
  BY <1>2, <1>4, <1>6, <1>8 DEF IInv, SubscribedWhileOpen, Running
<1>13. DeliveryIsExact'
  <2> SUFFICES ASSUME NEW a \in Attachments, att[a].state \in {"open", "ended"}
               PROVE  /\ att[a].last <= sess'[att[a].run].seq
                      /\ att'[a].pending = Ascending(att[a].last, sess'[att[a].run].seq)
    BY <1>8 DEF DeliveryIsExact
  <2>1. /\ att[a].run \in Runs
        /\ att[a].last <= sess[att[a].run].seq
        /\ att[a].pending = Ascending(att[a].last, sess[att[a].run].seq)
    BY <1>6 DEF IInv, DeliveryIsExact
  <2>2. CASE att[a].run # r
    BY <1>4, <1>8, <2>1, <2>2
  <2>3. CASE att[a].run = r
    <3>1. att[a].state = "open" /\ att[a].subscribed
      BY <2>3 DEF IInv, EndedStreamIsWhole, SubscribedWhileOpen, Ended
    <3>2. att[a].last \in Nat /\ att[a].last <= n
      BY <1>3, <1>6, <2>1, <2>3 DEF AttachmentType
    <3>3. Append(Ascending(att[a].last, n), m) = Ascending(att[a].last, m)
      BY <1>5, <3>2, AscendingAppend
    <3>4. sess'[att[a].run].seq = m /\ att[a].last <= m
      BY <1>2, <1>4, <1>5, <2>3, <3>2
    <3>5. att'[a].pending = Append(Ascending(att[a].last, n), m)
      BY <1>3, <1>8, <2>1, <2>3, <3>1
    <3> QED BY <3>3, <3>4, <3>5
  <2> QED BY <2>2, <2>3
<1>14. EndedStreamIsWhole'
  BY <1>2, <1>4, <1>6, <1>8 DEF IInv, EndedStreamIsWhole, Ended, Running
<1> QED BY <1>9, <1>10, <1>11, <1>12, <1>13, <1>14 DEF IInv, SlotInv

-----------------------------------------------------------------------------
\* The empty registry satisfies the invariant.
LEMMA InitInv == Init => IInv
BY EmptySeq DEF Init, IInv, SlotInv, TypeOK, Runs, StageMatchesStatus, RunningIsCurrent,
   BufferIsTail, SubscribedWhileOpen, DeliveryIsExact, EndedStreamIsWhole, Detached,
   AttachmentType

\* A new run: every earlier one is terminal, so the new one is the only one running.
\* Attachments may come with it that are resolved to it.
LEMMA BeginInv ==
  ASSUME IInv, NEW browser \in BOOLEAN, Begin(browser), UNCHANGED <<host, restarts>>,
         att' \in [Attachments -> AttachmentType],
         \A a \in Attachments :
           \/ att'[a] = att[a]
           \/ /\ att'[a].state = "resolved" /\ att'[a].run = Len(sess) + 1
              /\ ~att'[a].subscribed
  PROVE  IInv'
<1> DEFINE n == Len(sess) + 1
           start == IF slot = 0 THEN 0 ELSE LastSeq(slot)
           s == NewSession(browser, start)
<1>1. /\ sess' = Append(sess, s) /\ slot' = n
      /\ ~SlotBusy /\ UNCHANGED <<host, restarts>>
  BY DEF Begin
<1>2. start \in Nat
  <2>1. slot # 0 => slot \in Runs
    BY DEF IInv, SlotInv, TypeOK, Runs
  <2>2. slot # 0 => sess[slot] \in SessionType
    BY <2>1, SessionOfRun DEF IInv, SlotInv
  <2> QED BY <2>2 DEF LastSeq, SessionType
<1>3. /\ s \in SessionType /\ s.status = "running" /\ s.stage \in {"preflight", "cli"}
      /\ IsTail(s)
  <2> HIDE DEF start
  <2>1. s \in SessionType /\ s.status = "running" /\ s.stage \in {"preflight", "cli"}
        /\ s.start = start /\ s.seq = start /\ s.events = <<>>
    BY <1>2 DEF NewSession, SessionType, Statuses, Stages, Faults
  <2>2. Ascending(start, start) = <<>>
    BY <1>2, AscendingSeq DEF Ascending
  <2> QED BY <1>2, <2>1, <2>2, BufferAssumption DEF IsTail
<1> HIDE DEF s
<1>4. Len(sess) \in Nat /\ n \in Nat /\ Runs = 1..Len(sess) /\ sess \in Seq(SessionType)
  BY DEF IInv, SlotInv, TypeOK, Runs
<1>5. /\ sess' \in Seq(SessionType) /\ Len(sess') = n /\ Runs' = 1..n
      /\ sess'[n] = s /\ \A q \in Runs : sess'[q] = sess[q]
  BY <1>1, <1>3, <1>4, AppendProperties DEF Runs
<1>6. \A q \in Runs : ~Running(q)
  BY <1>1, <1>4 DEF IInv, SlotInv, RunningIsCurrent, SlotBusy
<1>7. /\ \A q \in Runs' : q \in Runs \/ q = n
      /\ \A q \in Runs : q \in Runs' /\ q # n
  BY <1>4, <1>5
<1>8. \A a \in Attachments :
        /\ att[a].state # "idle" => att[a].run \in Runs
        /\ att'[a] = att[a] \/ (/\ att'[a].state = "resolved" /\ att'[a].run = n
                                /\ ~att'[a].subscribed)
  BY DEF IInv, SlotInv, TypeOK
<1>9. TypeOK'
  BY <1>1, <1>4, <1>5, <1>7, <1>8 DEF IInv, SlotInv, TypeOK
<1>10. StageMatchesStatus' /\ RunningIsCurrent'
  BY <1>1, <1>3, <1>5, <1>6, <1>7
     DEF IInv, SlotInv, StageMatchesStatus, RunningIsCurrent, Running
<1>11. BufferIsTail'
  BY <1>3, <1>5, <1>7 DEF IInv, BufferIsTail
<1>12. SubscribedWhileOpen'
  <2> SUFFICES ASSUME NEW a \in Attachments
               PROVE  att'[a].subscribed <=>
                        (att'[a].state = "open" /\ sess'[att'[a].run].status = "running")
    BY DEF SubscribedWhileOpen, Running
  <2>1. CASE att'[a] = att[a]
    <3>1. att[a].subscribed <=> (att[a].state = "open" /\ sess[att[a].run].status = "running")
      BY DEF IInv, SubscribedWhileOpen, Running
    <3>2. att[a].state = "open" => sess'[att[a].run] = sess[att[a].run]
      BY <1>5, <1>8
    <3> QED BY <2>1, <3>1, <3>2
  <2>2. CASE att'[a].state = "resolved" /\ ~att'[a].subscribed
    BY <2>2
  <2> QED BY <1>8, <2>1, <2>2
<1>13. DeliveryIsExact'
  BY <1>1, <1>5, <1>8 DEF IInv, DeliveryIsExact
<1>14. EndedStreamIsWhole'
  BY <1>1, <1>5, <1>7, <1>8 DEF IInv, EndedStreamIsWhole, Ended, Running
<1> QED BY <1>9, <1>10, <1>11, <1>12, <1>13, <1>14 DEF IInv, SlotInv

LEMMA TryBeginRunInv ==
  ASSUME IInv, NEW browser \in BOOLEAN, TryBeginRun(browser)
  PROVE  IInv'
<1>1. att \in [Attachments -> AttachmentType]
  BY DEF IInv, SlotInv, TypeOK
<1> QED BY <1>1, BeginInv DEF TryBeginRun

\* The steps of one turn.
LEMMA TurnStepInv ==
  ASSUME IInv, NEW r \in Runs, TurnStep(r)
  PROVE  IInv'
<1>1. sess[r] \in SessionType
  BY SessionOfRun DEF IInv, SlotInv
<1>2. sess[r].stage \in {"preflight", "cli", "ended"} => Running(r)
  BY DEF IInv, SlotInv, StageMatchesStatus
<1>3. ASSUME NEW notice \in BOOLEAN, Preflight(r, notice) PROVE IInv'
  <2> DEFINE s == [sess[r] EXCEPT !.stage = "cli"]
  <2>1. /\ s \in SessionType /\ s.seq = sess[r].seq /\ s.start = sess[r].start
        /\ s.events = sess[r].events /\ s.status = sess[r].status /\ s.stage = "cli"
    BY <1>1 DEF SessionType, Stages
  <2>2. sess[r].stage = "preflight" /\ Running(r)
        /\ UNCHANGED <<slot, host, restarts>>
    BY <1>2, <1>3 DEF Preflight
  <2>3. CASE notice
    <3>1. Emit(r, s, "error")
      BY <1>3, <2>3 DEF Preflight
    <3> QED BY <2>1, <2>2, <3>1, EmitStep DEF Kinds, Running
  <2>4. CASE ~notice
    <3>1. sess' = [sess EXCEPT ![r] = s] /\ UNCHANGED att
      BY <1>3, <2>4 DEF Preflight
    <3> QED BY <2>1, <2>2, <3>1, QuietStep
  <2> QED BY <2>3, <2>4
<1>4. ASSUME NEW kind \in Kinds, CliLine(r, kind) PROVE IInv'
  <2> DEFINE f == IF kind = "error" THEN "is_error" ELSE sess[r].fault
             s == [sess[r] EXCEPT !.fault = f]
  <2>1. f \in Faults
    BY <1>1 DEF SessionType, Faults
  <2>2. /\ s \in SessionType /\ s.seq = sess[r].seq /\ s.start = sess[r].start
        /\ s.events = sess[r].events /\ s.status = sess[r].status /\ s.stage = sess[r].stage
    BY <1>1, <2>1 DEF SessionType
  <2>3. sess[r].stage = "cli" /\ Running(r) /\ Emit(r, s, kind)
        /\ UNCHANGED <<slot, host, restarts>>
    BY <1>2, <1>4 DEF CliLine
  <2> QED BY <2>2, <2>3, EmitStep DEF Running
<1>5. ASSUME NEW f \in Faults,
             sess[r].stage = "cli", UNCHANGED <<slot, host, restarts>>,
             Emit(r, [sess[r] EXCEPT !.stage = "ended", !.fault = f], "error")
      PROVE  IInv'
  <2> DEFINE s == [sess[r] EXCEPT !.stage = "ended", !.fault = f]
  <2>1. /\ s \in SessionType /\ s.seq = sess[r].seq /\ s.start = sess[r].start
        /\ s.events = sess[r].events /\ s.status = sess[r].status /\ s.stage = "ended"
    BY <1>1, <1>5 DEF SessionType, Stages
  <2> QED BY <1>2, <1>5, <2>1, EmitStep DEF Kinds, Running
<1>6. \A f \in Faults : FirstFault(sess[r].fault, f) \in Faults
  BY <1>1 DEF FirstFault, SessionType
<1>7. ASSUME NEW code \in {0, 1}, CliExit(r, code) PROVE IInv'
  <2> DEFINE s == [sess[r] EXCEPT !.stage = "ended"]
             loud == code # 0 /\ sess[r].fault # "is_error"
  <2>1. /\ s \in SessionType /\ s.seq = sess[r].seq /\ s.start = sess[r].start
        /\ s.events = sess[r].events /\ s.status = sess[r].status /\ s.stage = "ended"
    BY <1>1 DEF SessionType, Stages
  <2>2. CASE loud
    BY <1>5, <1>7, <2>2 DEF CliExit, Faults
  <2>3. CASE ~loud
    <3>1. sess' = [sess EXCEPT ![r] = s] /\ UNCHANGED <<slot, host, restarts, att>>
          /\ sess[r].stage = "cli"
      BY <1>7, <2>3 DEF CliExit
    <3> QED BY <2>1, <3>1, QuietStep
  <2> QED BY <2>2, <2>3
<1>8. ASSUME CliCancelled(r) PROVE IInv'
  BY <1>5, <1>6, <1>8 DEF CliCancelled, Faults
<1>9. ASSUME CliCrash(r) PROVE IInv'
  BY <1>5, <1>6, <1>9 DEF CliCrash, Faults
<1>10. ASSUME NotifyCompleted(r) PROVE IInv'
  <2> DEFINE s == [sess[r] EXCEPT !.stage = "notified"]
  <2>1. /\ s \in SessionType /\ s.seq = sess[r].seq /\ s.start = sess[r].start
        /\ s.events = sess[r].events /\ s.status = sess[r].status /\ s.stage = "notified"
    BY <1>1 DEF SessionType, Stages
  <2>2. sess' = [sess EXCEPT ![r] = s] /\ UNCHANGED <<slot, host, restarts, att>>
        /\ sess[r].stage = "complete"
    BY <1>10 DEF NotifyCompleted
  <2> QED BY <2>1, <2>2, QuietStep
<1>11. ASSUME Complete(r) PROVE IInv'
  <2> DEFINE s == [sess[r] EXCEPT !.status = Outcome(sess[r]), !.stage = "complete"]
  <2>1. Outcome(sess[r]) \in {"done", "stopped", "error"}
    BY DEF Outcome
  <2>2. /\ s \in SessionType /\ s.seq = sess[r].seq /\ s.start = sess[r].start
        /\ s.events = sess[r].events /\ s.status # "running" /\ s.stage = "complete"
    BY <1>1, <2>1 DEF SessionType, Stages, Statuses
  <2>3. sess' = [sess EXCEPT ![r] = s] /\ UNCHANGED <<slot, host, restarts>>
    BY <1>11 DEF Complete
  <2>4. att' = [a \in Attachments |->
                  IF att[a].run = r THEN [att[a] EXCEPT !.subscribed = FALSE] ELSE att[a]]
    BY <1>11 DEF Complete
  <2> HIDE DEF s
  <2>5. /\ sess' \in Seq(SessionType) /\ Runs' = Runs /\ Len(sess') = Len(sess)
        /\ sess'[r] = s /\ \A q \in Runs : q # r => sess'[q] = sess[q]
    BY <2>2, <2>3, ReplaceSession DEF IInv, SlotInv
  <2>6. \A a \in Attachments : /\ att[a] \in AttachmentType
                               /\ att[a].state # "idle" => att[a].run \in Runs
    BY DEF IInv, SlotInv, TypeOK
  <2>7. \A a \in Attachments :
          /\ att'[a].state = att[a].state /\ att'[a].run = att[a].run
          /\ att'[a].last = att[a].last /\ att'[a].pending = att[a].pending
          /\ att'[a].subscribed <=> (att[a].subscribed /\ att[a].run # r)
          /\ att'[a] \in AttachmentType
    <3> SUFFICES ASSUME NEW a \in Attachments
                 PROVE  /\ att'[a].state = att[a].state /\ att'[a].run = att[a].run
                        /\ att'[a].last = att[a].last /\ att'[a].pending = att[a].pending
                        /\ att'[a].subscribed <=> (att[a].subscribed /\ att[a].run # r)
                        /\ att'[a] \in AttachmentType
      OBVIOUS
    <3>1. CASE att[a].run = r
      <4>1. att'[a] = [att[a] EXCEPT !.subscribed = FALSE]
        BY <2>4, <3>1
      <4>2. att[a] \in AttachmentType
        BY <2>6
      <4> QED BY <3>1, <4>1, <4>2 DEF AttachmentType
    <3>2. CASE att[a].run # r
      BY <2>4, <2>6, <3>2
    <3> QED BY <3>1, <3>2
  <2>8. TypeOK'
    BY <2>3, <2>4, <2>5, <2>6, <2>7 DEF IInv, SlotInv, TypeOK
  <2>9. StageMatchesStatus' /\ RunningIsCurrent'
    BY <2>2, <2>3, <2>5 DEF IInv, SlotInv, StageMatchesStatus, RunningIsCurrent, Running
  <2>10. BufferIsTail'
    BY <2>2, <2>5 DEF IInv, BufferIsTail, IsTail
  <2>11. SubscribedWhileOpen'
    BY <2>2, <2>5, <2>6, <2>7 DEF IInv, SubscribedWhileOpen, Running
  <2>12. DeliveryIsExact'
    BY <2>2, <2>5, <2>6, <2>7 DEF IInv, DeliveryIsExact
  <2>13. EndedStreamIsWhole'
    BY <2>2, <2>5, <2>6, <2>7 DEF IInv, EndedStreamIsWhole, Ended, Running
  <2> QED BY <2>8, <2>9, <2>10, <2>11, <2>12, <2>13 DEF IInv, SlotInv
<1> QED BY <1>3, <1>4, <1>7, <1>8, <1>9, <1>10, <1>11 DEF TurnStep

\* The operator's Stop.
LEMMA StopInv ==
  ASSUME IInv, NEW r \in Runs, RecordStop(r) \/ FireCancel(r)
  PROVE  IInv'
<1>1. sess[r] \in SessionType
  BY SessionOfRun DEF IInv, SlotInv
<1>2. CASE RecordStop(r)
  <2> DEFINE s == [sess[r] EXCEPT !.stopRequested = TRUE]
  <2>1. /\ s \in SessionType /\ s.seq = sess[r].seq /\ s.start = sess[r].start
        /\ s.events = sess[r].events /\ s.status = sess[r].status /\ s.stage = sess[r].stage
    BY <1>1 DEF SessionType
  <2>2. sess' = [sess EXCEPT ![r] = s] /\ UNCHANGED <<slot, host, restarts, att>>
    BY <1>2 DEF RecordStop
  <2> QED BY <2>1, <2>2, QuietStep
<1>3. CASE FireCancel(r)
  <2> DEFINE s == [sess[r] EXCEPT !.cancelBy = "operator"]
  <2>1. /\ s \in SessionType /\ s.seq = sess[r].seq /\ s.start = sess[r].start
        /\ s.events = sess[r].events /\ s.status = sess[r].status /\ s.stage = sess[r].stage
    BY <1>1 DEF SessionType
  <2>2. sess' = [sess EXCEPT ![r] = s] /\ UNCHANGED <<slot, host, restarts, att>>
    BY <1>3 DEF FireCancel
  <2> QED BY <2>1, <2>2, QuietStep
<1> QED BY <1>2, <1>3

\* A step that gives every session a new value with the same log.
LEMMA AllSessions ==
  ASSUME IInv, NEW f, f = [r \in Runs |-> f[r]], sess' = f,
         \A r \in Runs : f[r] \in SessionType /\ f[r].seq = sess[r].seq
                         /\ f[r].start = sess[r].start /\ f[r].events = sess[r].events
  PROVE  /\ sess' \in Seq(SessionType) /\ Runs' = Runs /\ Len(sess') = Len(sess)
         /\ BufferIsTail'
<1>1. Len(sess) \in Nat /\ Runs = 1..Len(sess)
  BY DEF IInv, SlotInv, TypeOK, Runs
<1>2. sess' \in Seq(SessionType) /\ Len(sess') = Len(sess)
  BY <1>1
<1>3. Runs' = Runs
  BY <1>2 DEF Runs
<1>4. BufferIsTail'
  BY <1>3 DEF IInv, BufferIsTail, IsTail
<1> QED BY <1>2, <1>3, <1>4

\* A shutdown's StopAll touches no log and no channel.
LEMMA StopAllInv ==
  ASSUME IInv, StopAll
  PROVE  IInv'
<1> DEFINE f == [r \in Runs |->
                   IF r = slot /\ Running(r) /\ ~Cancelled(r)
                   THEN [sess[r] EXCEPT !.cancelBy = "shutdown"] ELSE sess[r]]
<1>1. sess' = f /\ host' = "stopping" /\ UNCHANGED <<slot, restarts, att>>
  BY DEF StopAll
<1>2. \A r \in Runs :
        /\ f[r] \in SessionType /\ f[r].seq = sess[r].seq /\ f[r].start = sess[r].start
        /\ f[r].events = sess[r].events /\ f[r].status = sess[r].status
        /\ f[r].stage = sess[r].stage
  <2> SUFFICES ASSUME NEW r \in Runs
               PROVE  /\ f[r] \in SessionType /\ f[r].seq = sess[r].seq
                      /\ f[r].start = sess[r].start /\ f[r].events = sess[r].events
                      /\ f[r].status = sess[r].status /\ f[r].stage = sess[r].stage
    OBVIOUS
  <2>1. sess[r] \in SessionType
    BY SessionOfRun DEF IInv, SlotInv
  <2> QED BY <2>1 DEF SessionType
<1>3. f = [r \in Runs |-> f[r]]
  OBVIOUS
<1> HIDE DEF f
<1>4. /\ sess' \in Seq(SessionType) /\ Runs' = Runs /\ Len(sess') = Len(sess)
      /\ BufferIsTail'
  BY <1>1, <1>2, <1>3, AllSessions
<1>5. \A a \in Attachments : att[a].state # "idle" => att[a].run \in Runs
  BY DEF IInv, SlotInv, TypeOK
<1>6. TypeOK'
  BY <1>1, <1>4 DEF IInv, SlotInv, TypeOK
<1>7. StageMatchesStatus' /\ RunningIsCurrent'
  BY <1>1, <1>2, <1>4 DEF IInv, SlotInv, StageMatchesStatus, RunningIsCurrent, Running
<1>8. SubscribedWhileOpen' /\ DeliveryIsExact' /\ EndedStreamIsWhole'
  BY <1>1, <1>2, <1>4, <1>5
     DEF IInv, SubscribedWhileOpen, DeliveryIsExact, EndedStreamIsWhole, Ended, Running
<1> QED BY <1>4, <1>6, <1>7, <1>8 DEF IInv, SlotInv

\* A new process: every run is lost and every attachment is gone.
LEMMA RestartInv ==
  ASSUME IInv, Restart
  PROVE  IInv'
<1> DEFINE f == [r \in Runs |->
                   [sess[r] EXCEPT !.stage = "lost",
                                   !.status = IF Running(r) THEN "lost" ELSE @]]
<1>1. /\ sess' = f /\ host' = "up" /\ slot' = 0 /\ restarts' = restarts + 1
      /\ att' = [a \in Attachments |-> Detached]
  BY DEF Restart
<1>2. \A r \in Runs :
        /\ f[r] \in SessionType /\ f[r].seq = sess[r].seq /\ f[r].start = sess[r].start
        /\ f[r].events = sess[r].events /\ f[r].status # "running" /\ f[r].stage = "lost"
  <2> SUFFICES ASSUME NEW r \in Runs
               PROVE  /\ f[r] \in SessionType /\ f[r].seq = sess[r].seq
                      /\ f[r].start = sess[r].start /\ f[r].events = sess[r].events
                      /\ f[r].status # "running" /\ f[r].stage = "lost"
    OBVIOUS
  <2>1. sess[r] \in SessionType
    BY SessionOfRun DEF IInv, SlotInv
  <2>2. (IF Running(r) THEN "lost" ELSE sess[r].status) \in Statuses \ {"running"}
    BY <2>1 DEF SessionType, Statuses, Running
  <2> QED BY <2>1, <2>2 DEF SessionType, Stages, Running
<1>3. f = [r \in Runs |-> f[r]]
  OBVIOUS
<1> HIDE DEF f
<1>4. /\ sess' \in Seq(SessionType) /\ Runs' = Runs /\ Len(sess') = Len(sess)
      /\ BufferIsTail'
  BY <1>1, <1>2, <1>3, AllSessions
<1>5. Detached \in AttachmentType /\ Detached.state = "idle" /\ Detached.subscribed = FALSE
  BY EmptySeq DEF Detached, AttachmentType
<1>6. \A a \in Attachments : att'[a] = Detached
  BY <1>1
<1>7. TypeOK'
  BY <1>1, <1>4, <1>5, <1>6 DEF IInv, SlotInv, TypeOK
<1>8. StageMatchesStatus' /\ RunningIsCurrent'
  BY <1>1, <1>2, <1>4 DEF StageMatchesStatus, RunningIsCurrent, Running
<1>9. SubscribedWhileOpen' /\ DeliveryIsExact' /\ EndedStreamIsWhole'
  BY <1>5, <1>6 DEF SubscribedWhileOpen, DeliveryIsExact, EndedStreamIsWhole
<1> QED BY <1>4, <1>7, <1>8, <1>9 DEF IInv, SlotInv

-----------------------------------------------------------------------------
\* A replay is the part of the buffer above the watermark: a tail of the log again,
\* which begins at the watermark, or above it where the buffer does.
LEMMA ReplayIsTail ==
  ASSUME NEW s \in SessionType, IsTail(s), NEW after \in Nat
  PROVE  \E floor \in Nat :
           /\ floor <= s.seq
           /\ Replay(s.events, after) = Ascending(floor, s.seq)
           /\ Len(Replay(s.events, after)) = s.seq - floor
           /\ after <= s.seq => after <= floor
           /\ s.seq <= after => floor = s.seq
           /\ s.seq - Len(s.events) <= floor
           /\ floor <= after \/ floor = s.seq - Len(s.events)
<1> DEFINE n == Len(s.events)
           lo == s.seq - n
           hi == s.seq
           P(k) == \A i \in 1..n : i <= k <=> s.events[i] <= after
           k == CHOOSE k \in 0..n : P(k)
<1>1. /\ hi \in Nat /\ n \in Nat /\ lo \in Nat /\ lo + n = hi /\ lo <= hi /\ hi - lo = n
      /\ s.events = Ascending(lo, hi) /\ hi = s.seq
  <2>1. s.seq \in Nat /\ s.start \in Nat /\ s.events \in Seq(Nat)
    BY DEF SessionType
  <2>2. n \in Nat
    BY <2>1
  <2>3. s.start + n <= s.seq
    BY DEF IsTail
  <2>4. s.events = Ascending(lo, hi)
    BY DEF IsTail
  <2>5. /\ hi \in Nat /\ lo \in Nat /\ lo + n = hi /\ lo <= hi /\ hi - lo = n /\ hi = s.seq
    <3> HIDE DEF n
    <3> QED BY <2>1, <2>2, <2>3
  <2> QED BY <2>2, <2>4, <2>5
<1>2. \A i \in 1..n : s.events[i] = lo + i
  <2> HIDE DEF n, lo, hi
  <2>1. \A i \in 1..(hi - lo) : Ascending(lo, hi)[i] = lo + i
    BY <1>1, AscendingSeq
  <2> QED BY <1>1, <2>1
<1>3. \E j \in 0..n : P(j)
  <2> HIDE DEF n, lo, hi
  <2>1. CASE after <= lo
    <3>1. P(0) /\ 0 \in 0..n
      BY <1>1, <1>2, <2>1
    <3> QED BY <3>1
  <2>2. CASE lo < after /\ after <= hi
    <3>1. P(after - lo) /\ after - lo \in 0..n
      BY <1>1, <1>2, <2>2
    <3> QED BY <3>1
  <2>3. CASE hi < after
    <3>1. P(n) /\ n \in 0..n
      BY <1>1, <1>2, <2>3
    <3> QED BY <3>1
  <2> QED BY <1>1, <2>1, <2>2, <2>3
<1>4. k \in 0..n
  <2> HIDE DEF P
  <2> QED BY <1>3
<1>5. Replay(s.events, after) = SubSeq(s.events, k + 1, n)
  BY DEF Replay
<1> HIDE DEF k
<1>10. \A i \in 1..n : i <= k <=> s.events[i] <= after
  <2>1. P(k)
    <3> HIDE DEF P
    <3> QED BY <1>3 DEF k
  <2> QED BY <2>1
<1> HIDE DEF n, lo, hi, P
<1>11. \A i \in 1..n : i <= k <=> lo + i <= after
  BY <1>2, <1>10
<1>6. k \in Nat /\ lo + k <= hi /\ lo + k \in Nat
  BY <1>1, <1>4
<1>7. SubSeq(Ascending(lo, hi), k + 1, hi - lo) = Ascending(lo + k, hi)
  BY <1>1, <1>6, AscendingSuffix
<1>8. Replay(s.events, after) = Ascending(lo + k, hi)
  BY <1>1, <1>5, <1>7
<1>9. Len(Ascending(lo + k, hi)) = hi - (lo + k)
  BY <1>1, <1>6, AscendingSeq
<1>12. after <= hi => after <= lo + k
  <2>1. CASE k = n
    BY <1>1, <2>1
  <2>2. CASE k # n
    <3>1. k + 1 \in 1..n /\ ~(k + 1 <= k)
      BY <1>1, <1>4, <2>2
    <3>2. ~(lo + (k + 1) <= after)
      BY <1>11, <3>1
    <3> QED BY <1>1, <1>6, <3>2
  <2> QED BY <2>1, <2>2
<1>13. lo <= lo + k /\ (lo + k <= after \/ lo + k = lo)
  <2>1. CASE k = 0
    BY <1>1, <2>1
  <2>2. CASE k # 0
    BY <1>1, <1>4, <1>11, <2>2
  <2> QED BY <2>1, <2>2
<1>14. lo = s.seq - Len(s.events)
  BY DEF lo, n, hi
<1>15. hi <= after => lo + k = hi
  <2>1. CASE k = n
    BY <1>1, <2>1
  <2>2. CASE k # n
    <3>1. k + 1 \in 1..n /\ ~(k + 1 <= k)
      BY <1>1, <1>4, <2>2
    <3>2. ~(lo + (k + 1) <= after)
      BY <1>11, <3>1
    <3> QED BY <1>1, <1>6, <3>1, <3>2
  <2> QED BY <2>1, <2>2
<1> QED BY <1>1, <1>6, <1>8, <1>9, <1>12, <1>13, <1>14, <1>15

\* The steps of one attachment: every other attachment and the server stay as they are.
LEMMA AttachmentStepInv ==
  ASSUME IInv, NEW a \in Attachments, UNCHANGED <<sess, slot, host, restarts>>,
         NEW c \in AttachmentType, att' = [att EXCEPT ![a] = c],
         c.state # "idle" => c.run \in Runs,
         c.subscribed <=> (c.state = "open" /\ Running(c.run)),
         c.state \in {"open", "ended"} =>
           /\ c.last <= sess[c.run].seq
           /\ c.pending = Ascending(c.last, sess[c.run].seq),
         c.state = "ended" => Ended(c.run) /\ c.last = sess[c.run].seq
  PROVE  IInv'
<1>1. /\ att' \in [Attachments -> AttachmentType]
      /\ att'[a] = c
      /\ \A b \in Attachments : b # a => att'[b] = att[b]
  BY DEF IInv, SlotInv, TypeOK
<1>2. Runs' = Runs
  BY DEF Runs
<1>3. TypeOK'
  BY <1>1, <1>2 DEF IInv, SlotInv, TypeOK
<1>4. StageMatchesStatus' /\ RunningIsCurrent' /\ BufferIsTail'
  BY <1>2 DEF IInv, SlotInv, StageMatchesStatus, RunningIsCurrent, BufferIsTail, Running
<1>5. SubscribedWhileOpen'
  BY <1>1 DEF IInv, SubscribedWhileOpen, Running
<1>6. DeliveryIsExact'
  BY <1>1 DEF IInv, DeliveryIsExact
<1>7. EndedStreamIsWhole'
  BY <1>1, <1>2 DEF IInv, EndedStreamIsWhole, Ended, Running
<1> QED BY <1>3, <1>4, <1>5, <1>6, <1>7 DEF IInv, SlotInv

\* Every step of an attachment preserves the invariant.
LEMMA AttachmentInv ==
  ASSUME IInv, NEW a \in Attachments,
         \/ Resolve(a)
         \/ \E after \in Nat : Attach(a, after)
         \/ Deliver(a) \/ StreamEnds(a) \/ Detach(a)
  PROVE  IInv'
<1> DEFINE c == att[a]
<1>1. /\ c \in AttachmentType
      /\ c.state # "idle" => c.run \in Runs
      /\ c.subscribed <=> (c.state = "open" /\ Running(c.run))
      /\ c.state \in {"open", "ended"} =>
           c.last <= sess[c.run].seq /\ c.pending = Ascending(c.last, sess[c.run].seq)
  BY DEF IInv, SlotInv, TypeOK, SubscribedWhileOpen, DeliveryIsExact
<1>2. c.run \in Runs => sess[c.run] \in SessionType /\ IsTail(sess[c.run])
  BY SessionOfRun DEF IInv, SlotInv, BufferIsTail
<1>3. CASE Resolve(a)
  <2> DEFINE d == [Detached EXCEPT !.state = "resolved", !.run = slot]
  <2>1. slot \in Runs /\ slot \in Nat /\ att' = [att EXCEPT ![a] = d]
        /\ UNCHANGED <<sess, slot, host, restarts>>
    BY <1>3 DEF IInv, SlotInv, TypeOK, Runs, Resolve
  <2>2. d \in AttachmentType /\ d.state = "resolved" /\ d.run = slot /\ ~d.subscribed
    BY <2>1, EmptySeq DEF AttachmentType, Detached
  <2> QED BY <2>1, <2>2, AttachmentStepInv
<1>4. ASSUME NEW after \in Nat, Attach(a, after) PROVE IInv'
  <2> DEFINE s == sess[c.run]
             replay == Replay(s.events, after)
             low == Lesser(after, s.seq)
             d == Opened(c.run, after)
  <2>1. c.state = "resolved" /\ c.run \in Runs /\ c.run \in Nat
        /\ att' = [att EXCEPT ![a] = d] /\ UNCHANGED <<sess, slot, host, restarts>>
    BY <1>1, <1>4 DEF Attach, AttachmentType
  <2>3. s \in SessionType /\ IsTail(s) /\ s.seq \in Nat
    BY <1>2, <2>1 DEF SessionType
  <2>4. PICK floor \in Nat : /\ floor <= s.seq
                             /\ replay = Ascending(floor, s.seq)
                             /\ Len(replay) = s.seq - floor
    BY <2>3, ReplayIsTail
  <2>5. low \in Nat /\ s.seq - Len(replay) = floor /\ replay \in Seq(Nat)
    <3>1. low \in Nat
      BY <2>3 DEF Lesser
    <3>2. Ascending(floor, s.seq) \in Seq(Nat)
      BY <2>3, <2>4, AscendingSeq
    <3> QED BY <2>3, <2>4, <3>1, <3>2
  <2>6. d = [state |-> "open", run |-> c.run, after |-> low, last |-> floor,
             floor |-> floor, pending |-> replay, subscribed |-> Running(c.run)]
    BY <2>5 DEF Opened
  <2>7. Running(c.run) \in BOOLEAN
    BY DEF Running
  <2> HIDE DEF d, replay, low
  <2>8. /\ d \in AttachmentType /\ d.state = "open" /\ d.run = c.run /\ d.last = floor
        /\ d.pending = replay /\ d.subscribed = Running(c.run)
    BY <2>1, <2>4, <2>5, <2>6, <2>7 DEF AttachmentType
  <2> QED BY <2>1, <2>4, <2>8, AttachmentStepInv
<1>5. CASE Deliver(a)
  <2> DEFINE seq == sess[c.run].seq
             d == [c EXCEPT !.last = Head(c.pending), !.pending = Tail(@)]
  <2>1. c.state = "open" /\ c.pending # <<>> /\ att' = [att EXCEPT ![a] = d]
        /\ UNCHANGED <<sess, slot, host, restarts>>
    BY <1>1, <1>5 DEF Deliver
  <2>2. c.run \in Runs /\ seq \in Nat /\ c.last \in Nat /\ c.last <= seq
        /\ c.pending = Ascending(c.last, seq)
    BY <1>1, <1>2, <2>1 DEF AttachmentType, SessionType
  <2>3. c.last < seq
    <3>1. CASE c.last = seq
      <4> HIDE DEF c, seq, d
      <4>1. Ascending(c.last, seq) \in Seq(Nat) /\ Len(Ascending(c.last, seq)) = seq - c.last
        BY <2>2, AscendingSeq
      <4>2. Len(c.pending) = 0
        BY <2>2, <3>1, <4>1
      <4> QED BY <2>1, <2>2, <4>1, <4>2, EmptySeq
    <3> QED BY <2>2, <3>1
  <2>4. Head(c.pending) = c.last + 1 /\ Tail(c.pending) = Ascending(c.last + 1, seq)
    BY <2>2, <2>3, AscendingTail
  <2>5. c.last + 1 \in Nat /\ c.last + 1 <= seq /\ Ascending(c.last + 1, seq) \in Seq(Nat)
    <3> DEFINE m == c.last + 1
    <3> HIDE DEF c, seq, d
    <3>1. m \in Nat /\ m <= seq
      BY <2>2, <2>3
    <3> HIDE DEF m
    <3>2. Ascending(m, seq) \in Seq(Nat)
      BY <2>2, <3>1, AscendingSeq
    <3> QED BY <3>1, <3>2 DEF m
  <2>6. /\ d \in AttachmentType /\ d.state = "open" /\ d.run = c.run
        /\ d.last = c.last + 1 /\ d.pending = Ascending(c.last + 1, seq)
        /\ d.subscribed = c.subscribed
    BY <1>1, <2>1, <2>4, <2>5 DEF AttachmentType
  <2> HIDE DEF d
  <2> QED BY <1>1, <2>1, <2>2, <2>5, <2>6, AttachmentStepInv
<1>6. CASE StreamEnds(a)
  <2> DEFINE seq == sess[c.run].seq
             d == [c EXCEPT !.state = "ended"]
  <2>1. c.state = "open" /\ c.pending = <<>> /\ ~c.subscribed
        /\ att' = [att EXCEPT ![a] = d] /\ UNCHANGED <<sess, slot, host, restarts>>
    BY <1>1, <1>6 DEF StreamEnds
  <2>2. c.run \in Runs /\ seq \in Nat /\ c.last \in Nat /\ c.last <= seq
        /\ c.pending = Ascending(c.last, seq) /\ ~Running(c.run)
    BY <1>1, <1>2, <2>1 DEF AttachmentType, SessionType
  <2>3. c.last = seq
    <3>1. Len(Ascending(c.last, seq)) = seq - c.last
      BY <2>2, AscendingSeq
    <3> QED BY <2>1, <2>2, <3>1
  <2>4. /\ d \in AttachmentType /\ d.state = "ended" /\ d.run = c.run /\ d.last = c.last
        /\ d.pending = c.pending /\ ~d.subscribed
    BY <1>1, <2>1 DEF AttachmentType
  <2> HIDE DEF d
  <2> QED BY <1>1, <2>1, <2>2, <2>3, <2>4, AttachmentStepInv DEF Ended
<1>7. CASE Detach(a)
  <2>1. Detached \in AttachmentType /\ Detached.state = "idle" /\ ~Detached.subscribed
    BY EmptySeq DEF Detached, AttachmentType
  <2>2. att' = [att EXCEPT ![a] = Detached] /\ UNCHANGED <<sess, slot, host, restarts>>
    BY <1>7 DEF Detach
  <2> QED BY <2>1, <2>2, AttachmentStepInv
<1> QED BY <1>3, <1>4, <1>5, <1>6, <1>7

-----------------------------------------------------------------------------
\* A step that changes nothing preserves the invariant.
LEMMA StutterInv == IInv /\ UNCHANGED vars => IInv'
BY DEF vars, IInv, SlotInv, TypeOK, Runs, StageMatchesStatus, RunningIsCurrent, BufferIsTail,
   SubscribedWhileOpen, DeliveryIsExact, EndedStreamIsWhole, Running, Ended

\* IInv is inductive: every step of the slot preserves it.
LEMMA StepInv == IInv /\ [Next]_vars => IInv'
<1> SUFFICES ASSUME IInv, [Next]_vars PROVE IInv'
  OBVIOUS
<1>1. CASE ServerStep
  BY <1>1, TryBeginRunInv, TurnStepInv, StopInv, StopAllInv, RestartInv DEF ServerStep
<1>2. ASSUME NEW a \in Attachments,
             \/ Resolve(a)
             \/ \E after \in Watermarks : Attach(a, after)
             \/ Deliver(a) \/ StreamEnds(a) \/ Detach(a)
      PROVE  IInv'
  BY <1>2, AttachmentInv, BoundAssumption DEF Watermarks
<1>3. CASE UNCHANGED vars
  BY <1>3, StutterInv
<1> QED BY <1>1, <1>2, <1>3 DEF Next

\* The strengthened invariant holds in every reachable state of a slot.
THEOREM Invariance == Spec => []IInv
BY InitInv, StepInv, PTL DEF Spec

\* The slot and its attachments keep their types.
THEOREM TypeCorrect == Spec => []TypeOK
<1>1. IInv => TypeOK
  BY DEF IInv, SlotInv
<1> QED BY <1>1, Invariance, PTL

\* Single flight: whatever still executes a turn is the registry's session and is
\* running, so two turns of one key never overlap, however many there are.
THEOREM SingleFlightHolds == Spec => []SingleFlight
<1>1. IInv => SingleFlight
  BY DEF IInv, SlotInv, StageMatchesStatus, RunningIsCurrent, SingleFlight
<1> QED BY <1>1, Invariance, PTL

\* The replay buffer is the newest stretch of the log, for every cap and trim chunk.
THEOREM BufferIsAlwaysTail == Spec => []BufferIsTail
<1>1. IInv => BufferIsTail
  BY DEF IInv
<1> QED BY <1>1, Invariance, PTL

\* No event is missed or repeated across the replay/live boundary, for any number
\* of attachments that join and leave at any moment.
THEOREM DeliveryIsAlwaysExact == Spec => []DeliveryIsExact
<1>1. IInv => DeliveryIsExact
  BY DEF IInv
<1> QED BY <1>1, Invariance, PTL

\* A stream the server ends normally has handed over the run's last event.
THEOREM EndedStreamIsAlwaysWhole == Spec => []EndedStreamIsWhole
<1>1. IInv => EndedStreamIsWhole
  BY DEF IInv
<1> QED BY <1>1, Invariance, PTL
=============================================================================
