--------------------------- MODULE ChatPageProofs ---------------------------
(***************************************************************************)
(* Proofs about ChatPage, for any number of connections, prompts, uploads, *)
(* lost connections, Stops and runs.  The slot stays sound under the page, *)
(* whoever is registered is a live reader, and the dedup shows no event of *)
(* an own run twice; until a prompt waits for an upload and while the      *)
(* shared connection serves, the page has one reader at most.  While one   *)
(* process serves the page, the dedup drops only what was shown and what a *)
(* second reader may lose, and a page that is told of a run's end shows    *)
(* the rest of it.                                                         *)
(***************************************************************************)
EXTENDS ChatPage, RunSessionProofs

PageRecord ==
  [abortRef : Attachments \cup {Nobody}, stop : BOOLEAN, mark : Nat, streaming : BOOLEAN,
   fresh : BOOLEAN, loads : 0..MaxLoads, polled : BOOLEAN, hub : BOOLEAN, asked : Nat,
   since : Nat]

Spent ==
  [sends : 0..MaxSends, uploads : 0..MaxUploads, drops : 0..MaxDrops,
   stops : 0..MaxStops, resets : 0..MaxResets]

InLegacyLoop == {"asking", "legacy", "asleep"}

\* The attempts of a coroutine are counted in the legacy loop, which gives up after the last.
TriesFit ==
  /\ tries \in [Attachments -> 0..Attempts]
  /\ \A a \in Attachments : /\ reader[a] \notin InLegacyLoop => tries[a] = 0
                            /\ reader[a] = "asleep" => tries[a] < Attempts

RefIsLive == page.abortRef # Nobody => reader[page.abortRef] \in Registered

\* A connection carries a stream only while its coroutine reads.
QuietUnlessReading ==
  \A a \in Attachments : att[a].state # "idle" => reader[a] \in Reading

LiveInv ==
  /\ reader \in [Attachments -> ReaderKinds]
  /\ sending \subseteq Attachments
  /\ page \in PageRecord
  /\ used \in Spent
  /\ TriesFit
  /\ RefIsLive
  /\ QuietUnlessReading

\* While no second reader can come in, every coroutine there is is the registered one.
Alone ==
  /\ \A a \in Attachments : /\ reader[a] \in {"none", "posting", "post", "hub"}
                            /\ reader[a] # "none" <=> page.abortRef = a
  /\ page.streaming <=> page.abortRef # Nobody

OnlyReader == Guarded => Alone

ReaderInv == LiveInv /\ OnlyReader

\* Of the runs that began after the last prompt, whatever is shown is below the mark.
MarkCoversOwn ==
  /\ page.asked <= page.since /\ page.since <= Len(sess)
  /\ \A e \in shown : e[1] > page.asked => e[2] <= page.mark

EventInv ==
  /\ shown \subseteq Runs \X Nat
  /\ repeated \subseteq Runs \X Nat
  /\ skipped \subseteq Runs \X Nat
  /\ MarkCoversOwn
  /\ OwnRunShownOnce

PInv == IInv /\ ReaderInv /\ EventInv

-----------------------------------------------------------------------------
(* What the steps of the server do to the logs and to the attachments.       *)

\* A log only grows, and only the slot's own does; its buffer's end only moves up.
Grows(r) ==
  /\ sess'[r].start = sess[r].start
  /\ sess[r].seq <= sess'[r].seq
  /\ r # slot => sess'[r].seq = sess[r].seq
  /\ sess[r].seq - Len(sess[r].events) <= sess'[r].seq - Len(sess'[r].events)

SamePlace(a) ==
  /\ att'[a].state = att[a].state
  /\ att'[a].run = att[a].run
  /\ att'[a].last = att[a].last

\* What is known of a session and of an attachment.
LEMMA SlotFacts ==
  ASSUME IInv
  PROVE  /\ Len(sess) \in Nat /\ Runs = 1..Len(sess) /\ slot \in 0..Len(sess)
         /\ slot # 0 => slot \in Runs
         /\ \A r \in Runs :
              /\ sess[r] \in SessionType /\ IsTail(sess[r])
              /\ sess[r].seq \in Nat /\ sess[r].start \in Nat /\ sess[r].events \in Seq(Nat)
              /\ Len(sess[r].events) \in Nat
              /\ sess[r].start + Len(sess[r].events) <= sess[r].seq
         /\ \A a \in Attachments :
              /\ att[a] \in AttachmentType
              /\ att[a].run \in Nat /\ att[a].last \in Nat
              /\ att[a].state # "idle" => att[a].run \in Runs
<1>1. TypeOK /\ BufferIsTail
  BY DEF IInv, SlotInv
<1>2. Len(sess) \in Nat /\ Runs = 1..Len(sess) /\ slot \in 0..Len(sess)
  BY <1>1 DEF TypeOK, Runs
<1>3. ASSUME NEW r \in Runs
      PROVE  /\ sess[r] \in SessionType /\ IsTail(sess[r])
             /\ sess[r].seq \in Nat /\ sess[r].start \in Nat /\ sess[r].events \in Seq(Nat)
             /\ Len(sess[r].events) \in Nat
             /\ sess[r].start + Len(sess[r].events) <= sess[r].seq
  <2>1. sess[r] \in SessionType /\ IsTail(sess[r])
    BY <1>1, SessionOfRun DEF BufferIsTail
  <2>2. sess[r].seq \in Nat /\ sess[r].start \in Nat /\ sess[r].events \in Seq(Nat)
    BY <2>1 DEF SessionType
  <2> QED BY <2>1, <2>2 DEF IsTail
<1>4. ASSUME NEW a \in Attachments
      PROVE  /\ att[a] \in AttachmentType
             /\ att[a].run \in Nat /\ att[a].last \in Nat
             /\ att[a].state # "idle" => att[a].run \in Runs
  BY <1>1 DEF TypeOK, AttachmentType
<1> QED BY <1>2, <1>3, <1>4

\* A step that changes one session, but not its log.
LEMMA LogsStay ==
  ASSUME IInv, NEW r \in Runs, NEW s \in SessionType, sess' = [sess EXCEPT ![r] = s],
         s.seq = sess[r].seq, s.start = sess[r].start, s.events = sess[r].events
  PROVE  Len(sess') = Len(sess) /\ Runs' = Runs /\ \A q \in Runs : Grows(q)
<1>1. Runs' = Runs /\ Len(sess') = Len(sess)
      /\ sess'[r] = s /\ \A q \in Runs : q # r => sess'[q] = sess[q]
  BY ReplaceSession DEF IInv, SlotInv
<1>2. \A q \in Runs : /\ sess'[q].seq = sess[q].seq /\ sess'[q].start = sess[q].start
                      /\ sess'[q].events = sess[q].events
  BY <1>1
<1> QED BY <1>1, <1>2, SlotFacts DEF Grows

\* A line that the CLI prints.
LEMMA LineFrame ==
  ASSUME IInv, NEW r \in Runs, CliLine(r, "text")
  PROVE  /\ Len(sess') = Len(sess) /\ Runs' = Runs /\ \A q \in Runs : Grows(q)
         /\ \A a \in Attachments : SamePlace(a)
<1> DEFINE s == [sess[r] EXCEPT !.fault = @]
           e == EmitInto(s, "text")
<1>1. /\ sess[r].stage = "cli" /\ Emit(r, s, "text")
  BY DEF CliLine
<1>2. sess[r] \in SessionType /\ IsTail(sess[r])
  BY SlotFacts
<1>3. s = sess[r]
  BY <1>2 DEF SessionType
<1>4. e \in SessionType /\ IsTail(e) /\ e.seq = sess[r].seq + 1
  BY <1>2, <1>3, EmitIntoSession DEF Kinds
<1>5. e.start = sess[r].start /\ e.events = Buffered(sess[r].events, sess[r].seq + 1)
  BY <1>2, <1>3 DEF EmitInto, SessionType
<1>6. r = slot
  BY <1>1 DEF IInv, SlotInv, StageMatchesStatus, RunningIsCurrent
<1>7. sess' = [sess EXCEPT ![r] = e]
  BY <1>1 DEF Emit
<1>8. att' = [a \in Attachments |->
               IF att[a].run = r /\ att[a].subscribed
               THEN [att[a] EXCEPT !.pending = Append(@, s.seq + 1)]
               ELSE att[a]]
  BY <1>1 DEF Emit
<1>9. \A a \in Attachments : SamePlace(a)
  BY <1>8, SlotFacts DEF SamePlace, AttachmentType
<1> HIDE DEF s, e
<1>10. Runs' = Runs /\ Len(sess') = Len(sess)
       /\ sess'[r] = e /\ \A q \in Runs : q # r => sess'[q] = sess[q]
  BY <1>4, <1>7, ReplaceSession DEF IInv, SlotInv
<1>11. Len(e.events) <= Len(sess[r].events) + 1 /\ Len(e.events) \in Nat
  <2> DEFINE grown == Append(sess[r].events, sess[r].seq + 1)
  <2>1. grown \in Seq(Nat) /\ Len(grown) = Len(sess[r].events) + 1
        /\ Len(sess[r].events) \in Nat
    BY SlotFacts
  <2>2. e.events = IF Len(grown) > MaxBufferedEvents
                   THEN SubSeq(grown, TrimChunk + 1, Len(grown)) ELSE grown
    BY <1>5 DEF Buffered
  <2> HIDE DEF grown
  <2>3. ASSUME Len(grown) > MaxBufferedEvents
        PROVE  Len(SubSeq(grown, TrimChunk + 1, Len(grown))) = Len(grown) - TrimChunk
    BY <2>1, <2>3, BufferAssumption
  <2> QED BY <2>1, <2>2, <2>3, BufferAssumption
<1>12. Grows(r)
  BY <1>4, <1>5, <1>6, <1>10, <1>11, SlotFacts DEF Grows
<1>13. \A q \in Runs : q # r => Grows(q)
  BY <1>10, SlotFacts DEF Grows
<1> QED BY <1>9, <1>10, <1>12, <1>13

\* The steps of a running turn.
LEMMA TurnFrame ==
  ASSUME IInv, NEW r \in Runs, CliLine(r, "text") \/ CliExit(r, 0) \/ Complete(r)
  PROVE  /\ IInv' /\ UNCHANGED slot
         /\ Len(sess') = Len(sess) /\ Runs' = Runs /\ \A q \in Runs : Grows(q)
         /\ \A a \in Attachments : SamePlace(a)
<1>1. TurnStep(r) /\ UNCHANGED slot
  BY DEF TurnStep, Kinds, CliLine, CliExit, Complete
<1>2. IInv'
  BY <1>1, TurnStepInv
<1>3. sess[r] \in SessionType
  BY SlotFacts
<1>4. CASE CliLine(r, "text")
  BY <1>1, <1>2, <1>4, LineFrame
<1>5. CASE CliExit(r, 0)
  <2> DEFINE s == [sess[r] EXCEPT !.stage = "ended"]
  <2>1. sess' = [sess EXCEPT ![r] = s] /\ att' = att
    BY <1>5 DEF CliExit
  <2>2. /\ s \in SessionType /\ s.seq = sess[r].seq /\ s.start = sess[r].start
        /\ s.events = sess[r].events
    BY <1>3 DEF SessionType, Stages
  <2> HIDE DEF s
  <2> QED BY <1>1, <1>2, <2>1, <2>2, LogsStay DEF SamePlace
<1>6. CASE Complete(r)
  <2> DEFINE s == [sess[r] EXCEPT !.status = Outcome(sess[r]), !.stage = "complete"]
  <2>1. sess' = [sess EXCEPT ![r] = s]
    BY <1>6 DEF Complete
  <2>2. /\ s \in SessionType /\ s.seq = sess[r].seq /\ s.start = sess[r].start
        /\ s.events = sess[r].events
    BY <1>3 DEF SessionType, Stages, Statuses, Outcome
  <2>3. \A a \in Attachments : SamePlace(a)
    BY <1>6, SlotFacts DEF Complete, SamePlace, AttachmentType
  <2> HIDE DEF s
  <2> QED BY <1>1, <1>2, <2>1, <2>2, <2>3, LogsStay
<1> QED BY <1>4, <1>5, <1>6

\* A new run counts on from the one before.
LEMMA BeginFrame ==
  ASSUME IInv, Begin(FALSE)
  PROVE  /\ Len(sess') = Len(sess) + 1 /\ Runs' = 1..(Len(sess) + 1)
         /\ slot' = Len(sess) + 1
         /\ \A r \in Runs : sess'[r] = sess[r]
         /\ sess'[Len(sess) + 1].seq = IF slot = 0 THEN 0 ELSE sess[slot].seq
         /\ sess'[Len(sess) + 1].start = IF slot = 0 THEN 0 ELSE sess[slot].seq
         /\ sess'[Len(sess) + 1].events = <<>>
<1> DEFINE start == IF slot = 0 THEN 0 ELSE LastSeq(slot)
           s == NewSession(FALSE, start)
<1>1. sess' = Append(sess, s) /\ slot' = Len(sess) + 1
  BY DEF Begin
<1>2. s.seq = start /\ s.start = start /\ s.events = <<>>
  BY DEF NewSession
<1>3. Len(sess) \in Nat /\ Runs = 1..Len(sess) /\ sess \in Seq(SessionType)
  BY DEF IInv, SlotInv, TypeOK, Runs
<1>4. s \in SessionType
  <2>1. start \in Nat
    BY SlotFacts DEF LastSeq
  <2> HIDE DEF start
  <2> QED BY <2>1, EmptySeq DEF NewSession, SessionType, Statuses, Stages, Faults
<1> HIDE DEF s
<1>5. /\ Len(sess') = Len(sess) + 1 /\ sess'[Len(sess) + 1] = s
      /\ \A r \in Runs : sess'[r] = sess[r]
  BY <1>1, <1>3, <1>4, AppendProperties
<1>6. Runs' = 1..(Len(sess) + 1)
  BY <1>5 DEF Runs
<1> QED BY <1>1, <1>2, <1>5, <1>6 DEF LastSeq

\* What a delivery hands over.
LEMMA DeliverFacts ==
  ASSUME IInv, NEW a \in Attachments, Deliver(a)
  PROVE  /\ att[a].state = "open" /\ att[a].run \in Runs /\ UNCHANGED <<sess, slot, host, restarts>>
         /\ Head(att[a].pending) = att[a].last + 1
         /\ att[a].last + 1 <= sess[att[a].run].seq
         /\ att'[a].state = "open" /\ att'[a].run = att[a].run /\ att'[a].last = att[a].last + 1
         /\ \A b \in Attachments : b # a => att'[b] = att[b]
<1> DEFINE c == att[a]
           seq == sess[c.run].seq
           d == [c EXCEPT !.last = Head(c.pending), !.pending = Tail(@)]
<1>1. c.state = "open" /\ c.pending # <<>> /\ att' = [att EXCEPT ![a] = d]
      /\ UNCHANGED <<sess, slot, host, restarts>>
  BY DEF Deliver
<1>2. c \in AttachmentType /\ c.run \in Runs /\ seq \in Nat /\ c.last \in Nat
  BY <1>1, SlotFacts
<1>3. c.last <= seq /\ c.pending = Ascending(c.last, seq)
  BY <1>1 DEF IInv, DeliveryIsExact
<1>4. att \in [Attachments -> AttachmentType]
  BY DEF IInv, SlotInv, TypeOK
<1>5. d.state = c.state /\ d.run = c.run /\ d.last = Head(c.pending)
  BY <1>2 DEF AttachmentType
<1> HIDE DEF c, seq, d
<1>6. c.last < seq
  <2>1. CASE c.last = seq
    <3>1. Ascending(c.last, seq) \in Seq(Nat) /\ Len(Ascending(c.last, seq)) = seq - c.last
      BY <1>2, <1>3, AscendingSeq
    <3> QED BY <1>1, <1>2, <1>3, <2>1, <3>1, EmptySeq
  <2> QED BY <1>2, <1>3, <2>1
<1>7. Head(c.pending) = c.last + 1
  BY <1>2, <1>3, <1>6, AscendingTail
<1>8. att'[a] = d /\ \A b \in Attachments : b # a => att'[b] = att[b]
  BY <1>1, <1>4
<1> QED BY <1>1, <1>2, <1>5, <1>6, <1>7, <1>8 DEF c, seq

-----------------------------------------------------------------------------
(* The slot under the page's steps.                                          *)

\* Some connections detach, if they were attached at all.
LEMMA DetachedInv ==
  ASSUME IInv, NEW gone, UNCHANGED server,
         att' = [a \in Attachments |-> IF a \in gone THEN Detached ELSE att[a]]
  PROVE  IInv'
<1>1. UNCHANGED <<sess, slot, host, restarts>> /\ Runs' = Runs
  BY DEF server, Runs
<1>2. Detached \in AttachmentType /\ Detached.state = "idle" /\ ~Detached.subscribed
  BY EmptySeq DEF Detached, AttachmentType
<1>3. /\ att' \in [Attachments -> AttachmentType]
      /\ \A a \in Attachments : att'[a] = att[a] \/ att'[a] = Detached
  BY <1>2 DEF IInv, SlotInv, TypeOK
<1>4. TypeOK'
  BY <1>1, <1>2, <1>3 DEF IInv, SlotInv, TypeOK
<1>5. StageMatchesStatus' /\ RunningIsCurrent' /\ BufferIsTail'
  BY <1>1 DEF IInv, SlotInv, StageMatchesStatus, RunningIsCurrent, BufferIsTail, Running
<1>6. SubscribedWhileOpen'
  BY <1>1, <1>2, <1>3 DEF IInv, SubscribedWhileOpen, Running
<1>7. DeliveryIsExact' /\ EndedStreamIsWhole'
  BY <1>1, <1>2, <1>3 DEF IInv, DeliveryIsExact, EndedStreamIsWhole, Ended, Running
<1> QED BY <1>4, <1>5, <1>6, <1>7 DEF IInv, SlotInv

\* The page's own prompt is a new run with its first attachment.
LEMMA PostAcceptedInv ==
  ASSUME IInv, NEW a \in Attachments, PostAccepted(a)
  PROVE  IInv'
<1> DEFINE n == Len(sess) + 1
           d == [Detached EXCEPT !.state = "resolved", !.run = n]
<1>1. Begin(FALSE) /\ att' = [att EXCEPT ![a] = d] /\ UNCHANGED <<host, restarts>>
  BY DEF PostAccepted
<1>2. n \in Nat
  BY SlotFacts
<1> HIDE DEF n
<1>3. d \in AttachmentType /\ d.state = "resolved" /\ d.run = n /\ ~d.subscribed
  BY <1>2, EmptySeq DEF Detached, AttachmentType
<1> HIDE DEF d
<1>4. att \in [Attachments -> AttachmentType]
  BY DEF IInv, SlotInv, TypeOK
<1>5. att' \in [Attachments -> AttachmentType]
      /\ \A b \in Attachments : att'[b] = att[b] \/ att'[b] = d
  BY <1>1, <1>3, <1>4
<1>6. \A b \in Attachments :
        \/ att'[b] = att[b]
        \/ /\ att'[b].state = "resolved" /\ att'[b].run = Len(sess) + 1
           /\ ~att'[b].subscribed
  BY <1>3, <1>5 DEF n
<1>7. FALSE \in BOOLEAN
  OBVIOUS
<1> QED BY <1>1, <1>5, <1>6, <1>7, BeginInv

\* What the page's slot does by itself.
LEMMA RunStepInv ==
  ASSUME IInv, RunStep
  PROVE  IInv' /\ Len(sess) <= Len(sess')
<1>1. CASE TryBeginRun(FALSE)
  <2>1. Len(sess') = Len(sess) + 1 /\ Len(sess) \in Nat
    BY <1>1, BeginFrame, SlotFacts DEF TryBeginRun
  <2>2. FALSE \in BOOLEAN
    OBVIOUS
  <2>3. IInv'
    BY <1>1, <2>2, TryBeginRunInv, Zenon
  <2> QED BY <2>1, <2>3
<1>2. ASSUME NEW r \in Runs, CliLine(r, "text") \/ CliExit(r, 0) \/ Complete(r)
      PROVE  IInv' /\ Len(sess) <= Len(sess')
  BY <1>2, TurnFrame, SlotFacts
<1>3. CASE Restart
  <2>1. sess' = [r \in Runs |-> [sess[r] EXCEPT !.stage = "lost",
                                  !.status = IF Running(r) THEN "lost" ELSE @]]
    BY <1>3 DEF Restart
  <2>2. IInv'
    BY <1>3, RestartInv
  <2>3. DOMAIN sess' = 1..Len(sess) /\ Len(sess) \in Nat
    BY <2>1, SlotFacts
  <2>4. sess' \in Seq(SessionType)
    BY <2>2 DEF IInv, SlotInv, TypeOK
  <2>5. Len(sess') = Len(sess)
    BY <2>3, <2>4
  <2> QED BY <2>2, <2>3, <2>5
<1> QED BY <1>1, <1>2, <1>3 DEF RunStep

\* Every step of the page keeps its slot's invariant.
LEMMA SlotUnderPage ==
  ASSUME IInv, LiveInv, PageNext
  PROVE  IInv' /\ Len(sess) <= Len(sess')
<1>0. Len(sess) \in Nat
  BY SlotFacts
<1> DEFINE Goal == IInv' /\ Len(sess) <= Len(sess')
<1>1. ASSUME UNCHANGED vars PROVE Goal
  BY <1>0, <1>1, StutterInv DEF vars
<1>2. ASSUME UNCHANGED server, IInv' PROVE Goal
  BY <1>0, <1>2 DEF server
<1>3. ASSUME NEW a \in Attachments,
             Resolve(a) \/ (\E after \in Nat : Attach(a, after)) \/ Deliver(a)
               \/ StreamEnds(a) \/ Detach(a)
      PROVE  Goal
  <2>1. UNCHANGED server
    BY <1>3 DEF Resolve, Attach, Deliver, StreamEnds, Detach, server
  <2> QED BY <1>2, <1>3, <2>1, AttachmentInv
<1>4. CASE RunStep
  BY <1>4, RunStepInv
<1>5. ASSUME NEW a \in Attachments, Send(a) \/ Upload(a) \/ Reconcile(a) \/ Loaded(a) PROVE Goal
  BY <1>1, <1>5 DEF Send, Upload, Prompt, Reconcile, Loaded
<1>6. ASSUME NEW a \in Attachments, ReaderStep(a) PROVE Goal
  <2>1. CASE PostAccepted(a)
    <3>1. Len(sess') = Len(sess) + 1
      BY <2>1, BeginFrame DEF PostAccepted
    <3> QED BY <1>0, <2>1, <3>1, PostAcceptedInv
  <2>2. CASE Uploaded(a) \/ UploadFails(a) \/ PostRefused(a) \/ PostLost(a) \/ NoRun(a) \/ Wakes(a)
    BY <1>1, <2>2 DEF Uploaded, UploadFails, Prompt, PostRefused, PostLost, NoRun, Wakes
  <2>3. CASE Open(a)
    <3>1. After(a) \in Nat
      BY DEF After, LiveInv, PageRecord
    <3> QED BY <1>3, <2>3, <3>1 DEF Open
  <2>4. CASE HubResolve(a) \/ LegacyResolve(a) \/ Receive(a) \/ StreamEnds(a) \/ Told(a)
    BY <1>3, <2>4 DEF HubResolve, LegacyResolve, Receive, Told
  <2>5. CASE ConnectionLost(a) \/ AttemptFails(a)
    BY <1>1, <1>3, <2>5 DEF ConnectionLost, AttemptFails, Breaks
  <2> QED BY <1>6, <2>1, <2>2, <2>3, <2>4, <2>5 DEF ReaderStep
<1>7. CASE HubFails
  BY <1>2, <1>7, DetachedInv DEF HubFails
<1>8. ASSUME PressStop \/ NewConversation PROVE Goal
  <2>1. UNCHANGED server
    BY <1>8 DEF PressStop, NewConversation
  <2>2. ASSUME att' = [att EXCEPT ![page.abortRef] = Detached] PROVE IInv'
    <3>1. att' = [a \in Attachments |-> IF a \in {page.abortRef} THEN Detached ELSE att[a]]
      BY <2>2 DEF IInv, SlotInv, TypeOK
    <3> QED BY <2>1, <3>1, DetachedInv
  <2>3. CASE UNCHANGED att
    BY <1>1, <2>1, <2>3 DEF vars, server
  <2> QED BY <1>2, <1>8, <2>1, <2>2, <2>3 DEF PressStop, NewConversation, AbortReader
<1>9. CASE Poll
  BY <1>1, <1>9 DEF Poll
<1> QED BY <1>4, <1>5, <1>6, <1>7, <1>8, <1>9 DEF PageNext

-----------------------------------------------------------------------------
(* Who is registered is alive.                                               *)

\* Nothing but the page's other fields and the streams of readers changes.
LEMMA LiveStays ==
  ASSUME LiveInv, UNCHANGED coroutine, page' \in PageRecord, used' \in Spent,
         page'.abortRef = page.abortRef,
         \A a \in Attachments : att'[a].state # "idle" => reader[a] \in Reading
  PROVE  LiveInv'
BY DEF LiveInv, coroutine, TriesFit, RefIsLive, QuietUnlessReading

\* One coroutine moves on, and is registered or not.
LEMMA LiveMoves ==
  ASSUME LiveInv, NEW a \in Attachments, NEW kind \in ReaderKinds, NEW n \in 0..Attempts,
         reader' = [reader EXCEPT ![a] = kind], tries' = [tries EXCEPT ![a] = n],
         kind \notin InLegacyLoop => n = 0, kind = "asleep" => n < Attempts,
         sending' \subseteq Attachments, page' \in PageRecord, used' \in Spent,
         \/ page'.abortRef = Nobody
         \/ page'.abortRef = a /\ kind \in Registered
         \/ page'.abortRef = page.abortRef /\ (page.abortRef = a => kind \in Registered),
         \A b \in Attachments : att'[b].state # "idle" => att[b].state # "idle" \/ b = a,
         att'[a].state = "idle" \/ kind \in Reading
  PROVE  LiveInv'
<1>1. /\ reader' \in [Attachments -> ReaderKinds] /\ reader'[a] = kind
      /\ \A b \in Attachments : b # a => reader'[b] = reader[b]
      /\ tries' \in [Attachments -> 0..Attempts] /\ tries'[a] = n
      /\ \A b \in Attachments : b # a => tries'[b] = tries[b]
  BY DEF LiveInv, TriesFit
<1>2. TriesFit'
  BY <1>1 DEF LiveInv, TriesFit
<1>3. page.abortRef \in Attachments \cup {Nobody}
  BY DEF LiveInv, PageRecord
<1>4. RefIsLive'
  BY <1>1, <1>3 DEF LiveInv, RefIsLive
<1>5. QuietUnlessReading'
  BY <1>1 DEF LiveInv, QuietUnlessReading
<1> QED BY <1>1, <1>2, <1>4, <1>5 DEF LiveInv

\* Some coroutines end, and whoever was registered of them no longer is.
LEMMA LiveLeaves ==
  ASSUME LiveInv, NEW ended, NEW p \in PageRecord, p.abortRef = page.abortRef, Leave(ended, p),
         used' \in Spent,
         \A a \in Attachments : IF a \in ended THEN att'[a].state = "idle"
                                ELSE att'[a].state # "idle" => att[a].state # "idle"
  PROVE  LiveInv' /\ page'.mark = p.mark /\ page'.asked = p.asked /\ page'.since = p.since
<1> DEFINE ref == IF p.abortRef \in ended \/ sending \cap ended # {} THEN Nobody ELSE p.abortRef
<1>1. /\ reader' = [a \in Attachments |-> IF a \in ended THEN "none" ELSE reader[a]]
      /\ tries' = [a \in Attachments |-> IF a \in ended THEN 0 ELSE tries[a]]
      /\ sending' = sending \ ended
      /\ page' = [p EXCEPT !.streaming = FALSE, !.stop = FALSE, !.abortRef = ref]
  BY DEF Leave
<1>2. ref \in Attachments \cup {Nobody} /\ (ref # Nobody => ref = page.abortRef /\ ref \notin ended)
  BY DEF PageRecord
<1> HIDE DEF ref
<1>3. page' \in PageRecord /\ page'.abortRef = ref
      /\ page'.mark = p.mark /\ page'.asked = p.asked /\ page'.since = p.since
  BY <1>1, <1>2 DEF PageRecord
<1>4. reader' \in [Attachments -> ReaderKinds] /\ sending' \subseteq Attachments
  BY <1>1 DEF LiveInv, ReaderKinds
<1>5. TriesFit'
  <2>1. tries' \in [Attachments -> 0..Attempts]
    BY <1>1, PageAssumption DEF LiveInv, TriesFit
  <2> QED BY <1>1, <2>1 DEF LiveInv, TriesFit, InLegacyLoop
<1>6. RefIsLive'
  BY <1>1, <1>2, <1>3 DEF LiveInv, RefIsLive
<1>7. QuietUnlessReading'
  BY <1>1 DEF LiveInv, QuietUnlessReading
<1> QED BY <1>3, <1>4, <1>5, <1>6, <1>7 DEF LiveInv

\* A coroutine of which nothing is attached goes on with an attempt, or with streamRun.
LEMMA LiveAttempts ==
  ASSUME LiveInv, NEW a \in Attachments, NEW p \in PageRecord, p.abortRef = page.abortRef,
         Attempt(a, p), tries[a] < Attempts, used' \in Spent,
         \A b \in Attachments : att'[b].state # "idle" => att[b].state # "idle" /\ b # a
  PROVE  LiveInv' /\ page'.mark = p.mark /\ page'.asked = p.asked /\ page'.since = p.since
<1>1. CASE p.stop
  BY <1>1, LiveLeaves DEF Attempt
<1>2. CASE ~p.stop
  <2> DEFINE n == tries[a] + 1
  <2>1. /\ reader' = [reader EXCEPT ![a] = "asking"] /\ tries' = [tries EXCEPT ![a] = n]
        /\ page' = [p EXCEPT !.abortRef = a] /\ sending' = sending
    BY <1>2 DEF Attempt
  <2>2. n \in 0..Attempts
    BY PageAssumption DEF LiveInv, TriesFit
  <2> HIDE DEF n
  <2>3. page' \in PageRecord /\ page'.abortRef = a
        /\ page'.mark = p.mark /\ page'.asked = p.asked /\ page'.since = p.since
    BY <2>1 DEF PageRecord
  <2>4. "asking" \in ReaderKinds /\ "asking" \in InLegacyLoop /\ "asking" \in Registered
    BY DEF ReaderKinds, InLegacyLoop, Registered
  <2>5. sending' \subseteq Attachments
    BY <2>1 DEF LiveInv
  <2>6. LiveInv'
    BY <2>1, <2>2, <2>3, <2>4, <2>5, LiveMoves
  <2> QED BY <2>3, <2>6
<1> QED BY <1>1, <1>2

LEMMA LiveStreams ==
  ASSUME LiveInv, NEW a \in Attachments, NEW p \in PageRecord, p.abortRef = page.abortRef,
         StreamRun(a, p), reader[a] \notin InLegacyLoop, used' \in Spent,
         \A b \in Attachments : att'[b].state # "idle" => att[b].state # "idle" /\ b # a
  PROVE  LiveInv' /\ page'.mark = p.mark /\ page'.asked = p.asked /\ page'.since = p.since
<1>1. tries[a] = 0 /\ 0 \in 0..Attempts /\ 0 < Attempts
  BY PageAssumption DEF LiveInv, TriesFit
<1>2. CASE p.hub
  <2>1. /\ reader' = [reader EXCEPT ![a] = "hub"] /\ tries' = [tries EXCEPT ![a] = 0]
        /\ page' = [p EXCEPT !.abortRef = a] /\ sending' \subseteq Attachments
    BY <1>1, <1>2 DEF StreamRun, LiveInv, TriesFit
  <2>2. page' \in PageRecord /\ page'.abortRef = a
        /\ page'.mark = p.mark /\ page'.asked = p.asked /\ page'.since = p.since
    BY <2>1 DEF PageRecord
  <2>3. "hub" \in ReaderKinds /\ "hub" \notin InLegacyLoop /\ "hub" \in Registered /\ "hub" # "asleep"
    BY DEF ReaderKinds, InLegacyLoop, Registered, Reading
  <2>4. LiveInv'
    BY <1>1, <2>1, <2>2, <2>3, LiveMoves
  <2> QED BY <2>2, <2>4
<1>3. CASE ~p.hub
  BY <1>1, <1>3, LiveAttempts DEF StreamRun
<1> QED BY <1>2, <1>3

LEMMA SpentFacts ==
  ASSUME LiveInv
  PROVE  /\ SpendDrop => used' \in Spent
         /\ used.sends < MaxSends =>
              /\ [used EXCEPT !.sends = @ + 1] \in Spent
              /\ used.uploads < MaxUploads =>
                   [used EXCEPT !.sends = @ + 1, !.uploads = @ + 1] \in Spent
         /\ used.stops < MaxStops => [used EXCEPT !.stops = @ + 1] \in Spent
         /\ used.resets < MaxResets => [used EXCEPT !.resets = @ + 1] \in Spent
<1>1. /\ used \in Spent /\ MaxSends \in Nat /\ MaxUploads \in Nat /\ MaxDrops \in Nat
      /\ MaxStops \in Nat /\ MaxResets \in Nat
  BY PageAssumption DEF LiveInv
<1>2. used.drops < MaxDrops => [used EXCEPT !.drops = @ + 1] \in Spent
  BY <1>1 DEF Spent
<1>3. used.sends < MaxSends => [used EXCEPT !.sends = @ + 1] \in Spent
  BY <1>1 DEF Spent
<1>4. used.sends < MaxSends /\ used.uploads < MaxUploads =>
        [used EXCEPT !.sends = @ + 1, !.uploads = @ + 1] \in Spent
  <2> DEFINE m == used.sends + 1
             n == used.uploads + 1
  <2>1. used.sends < MaxSends /\ used.uploads < MaxUploads => m \in 0..MaxSends /\ n \in 0..MaxUploads
    BY <1>1 DEF Spent
  <2>2. [used EXCEPT !.sends = @ + 1, !.uploads = @ + 1] = [used EXCEPT !.sends = m, !.uploads = n]
    BY <1>1 DEF Spent
  <2> HIDE DEF m, n
  <2> QED BY <1>1, <2>1, <2>2 DEF Spent
<1>5. used.stops < MaxStops => [used EXCEPT !.stops = @ + 1] \in Spent
  BY <1>1 DEF Spent
<1>6. used.resets < MaxResets => [used EXCEPT !.resets = @ + 1] \in Spent
  BY <1>1 DEF Spent
<1> QED BY <1>2, <1>3, <1>4, <1>5, <1>6 DEF SpendDrop

-----------------------------------------------------------------------------
(* The page's steps, and what they leave of the registration.                *)

\* A step on one connection, or the end of one, leaves the others alone.
LEMMA OneConnection ==
  ASSUME IInv, NEW a \in Attachments
  PROVE  /\ (Resolve(a) \/ (\E after \in Nat : Attach(a, after)) \/ Deliver(a) \/ StreamEnds(a)
               \/ Detach(a)) => \A b \in Attachments : b # a => att'[b] = att[b]
         /\ Detach(a) => att'[a].state = "idle"
<1>1. att \in [Attachments -> AttachmentType]
  BY DEF IInv, SlotInv, TypeOK
<1>2. ASSUME Detach(a) PROVE att'[a].state = "idle"
  BY <1>1, <1>2 DEF Detach, Detached
<1> QED BY <1>1, <1>2 DEF Resolve, Attach, Deliver, StreamEnds, Detach

\* However a connection breaks, nothing is attached of it any more.
LEMMA BreaksFacts ==
  ASSUME IInv, LiveInv, NEW a \in Attachments, Breaks(a)
  PROVE  /\ used' \in Spent /\ att'[a].state = "idle"
         /\ \A b \in Attachments : b # a => att'[b] = att[b]
         /\ UNCHANGED server
<1>1. CASE SpendDrop /\ Detach(a)
  BY <1>1, SpentFacts, OneConnection DEF Detach, server
<1>2. CASE att[a].state = "idle" /\ UNCHANGED <<vars, used>>
  BY <1>2 DEF vars, server, LiveInv
<1> QED BY <1>1, <1>2 DEF Breaks

\* A registration is of somebody who is not between two attempts.
LEMMA FreeFacts ==
  ASSUME LiveInv, NEW a \in Attachments
  PROVE  /\ page \in PageRecord /\ used \in Spent
         /\ reader[a] \notin Reading => att[a].state = "idle"
         /\ reader[a] \notin Registered => page.abortRef # a
         /\ reader[a] \notin InLegacyLoop => tries[a] = 0
         /\ tries[a] \in 0..Attempts /\ 0 \in 0..Attempts
<1>1. 0 \in 0..Attempts
  BY PageAssumption
<1>2. Nobody # a
  BY PageAssumption
<1> QED BY <1>1, <1>2 DEF LiveInv, QuietUnlessReading, RefIsLive, TriesFit

\* The kinds by which coroutines are told apart.
LEMMA KindFacts ==
  /\ {"none", "uploading", "posting", "post", "hub", "asking", "legacy", "asleep"} \subseteq ReaderKinds
  /\ {"posting", "post", "hub", "asking", "legacy"} \subseteq Registered
  /\ {"post", "hub", "legacy"} \subseteq Reading
  /\ "none" \notin Registered /\ "uploading" \notin Registered /\ "asleep" \notin Registered
  /\ "none" \notin Reading /\ "uploading" \notin Reading /\ "asleep" \notin Reading
  /\ "posting" \notin Reading /\ "asking" \notin Reading
  /\ \A k \in {"none", "uploading", "posting", "post", "hub"} : k \notin InLegacyLoop
BY DEF ReaderKinds, Registered, Reading, InLegacyLoop

LEMMA LiveUnderRun ==
  ASSUME IInv, LiveInv, RunStep, UNCHANGED pageVars
  PROVE  LiveInv'
<1>1. UNCHANGED coroutine /\ page' = page /\ used' = used
  BY DEF pageVars
<1>2. \A b \in Attachments : att'[b].state # "idle" => att[b].state # "idle"
  <2>1. CASE TryBeginRun(FALSE)
    BY <2>1 DEF TryBeginRun
  <2>2. ASSUME NEW r \in Runs, CliLine(r, "text") \/ CliExit(r, 0) \/ Complete(r)
        PROVE  \A b \in Attachments : att'[b].state # "idle" => att[b].state # "idle"
    BY <2>2, TurnFrame DEF SamePlace
  <2>3. CASE Restart
    BY <2>3 DEF Restart, Detached
  <2> QED BY <2>1, <2>2, <2>3 DEF RunStep
<1>3. page' \in PageRecord /\ used' \in Spent /\ page'.abortRef = page.abortRef
  BY <1>1 DEF LiveInv
<1>4. \A b \in Attachments : att'[b].state # "idle" => reader[b] \in Reading
  BY <1>2 DEF LiveInv, QuietUnlessReading
<1> QED BY <1>1, <1>3, <1>4, LiveStays

\* A prompt registers its sender.
LEMMA PromptFrame ==
  ASSUME IInv, LiveInv, NEW a \in Attachments, Prompt(a), reader[a] \in {"none", "uploading"},
         used' \in Spent
  PROVE  /\ LiveInv' /\ UNCHANGED vars
         /\ page'.mark = 0 /\ page'.asked = Len(sess) /\ page'.since = Len(sess)
         /\ page'.abortRef = a /\ page'.streaming = TRUE /\ page'.hub = page.hub
<1>1. /\ reader' = [reader EXCEPT ![a] = "posting"] /\ sending' = sending \cup {a}
      /\ page' = [page EXCEPT !.abortRef = a, !.mark = 0, !.streaming = TRUE, !.fresh = FALSE,
                              !.asked = Len(sess), !.since = Len(sess)]
      /\ tries' = tries /\ UNCHANGED vars
  BY DEF Prompt
<1>2. Len(sess) \in Nat /\ page \in PageRecord
  BY SlotFacts DEF LiveInv
<1>3. /\ page' \in PageRecord /\ page'.abortRef = a
      /\ page'.mark = 0 /\ page'.asked = Len(sess) /\ page'.since = Len(sess)
      /\ page'.streaming = TRUE /\ page'.hub = page.hub
  BY <1>1, <1>2 DEF PageRecord
<1>4. tries[a] = 0 /\ 0 \in 0..Attempts /\ tries' = [tries EXCEPT ![a] = 0]
  <2>1. reader[a] \notin InLegacyLoop
    BY KindFacts
  <2> QED BY <1>1, <2>1, FreeFacts DEF LiveInv, TriesFit
<1>5. sending' \subseteq Attachments
  BY <1>1 DEF LiveInv
<1>6. att' = att
  BY <1>1 DEF vars
<1>7. att[a].state = "idle"
  BY KindFacts, FreeFacts
<1>8. LiveInv'
  BY <1>1, <1>3, <1>4, <1>5, <1>6, <1>7, KindFacts, LiveMoves
<1> QED BY <1>1, <1>3, <1>8

LEMMA LiveUnderReader ==
  ASSUME IInv, LiveInv, NEW a \in Attachments, ReaderStep(a)
  PROVE  LiveInv'
<1> DEFINE Idle(b) == att'[b].state # "idle" => att[b].state # "idle"
<1>0. page \in PageRecord /\ used \in Spent /\ page.abortRef \in Attachments \cup {Nobody}
  BY DEF LiveInv, PageRecord
<1>1. ASSUME UNCHANGED coroutine, page' \in PageRecord, page'.abortRef = page.abortRef,
             used' \in Spent, \A b \in Attachments : b # a => att'[b] = att[b],
             att'[a].state = "idle" \/ reader[a] \in Reading
      PROVE  LiveInv'
  <2>1. \A b \in Attachments : att'[b].state # "idle" => reader[b] \in Reading
    BY <1>1 DEF LiveInv, QuietUnlessReading
  <2> QED BY <1>1, <2>1, LiveStays
<1>2. CASE Uploaded(a)
  <2>1. Prompt(a) /\ reader[a] \in {"none", "uploading"} /\ used' \in Spent
    BY <1>2 DEF Uploaded, LiveInv
  <2> QED BY <2>1, PromptFrame
<1>3. CASE UploadFails(a)
  <2>1. /\ reader[a] = "uploading" /\ reader' = [reader EXCEPT ![a] = "none"]
        /\ UNCHANGED <<vars, sending, tries, page, used>>
    BY <1>3 DEF UploadFails
  <2>2. tries[a] = 0 /\ att[a].state = "idle" /\ page.abortRef # a
    BY <2>1, KindFacts, FreeFacts
  <2>3. tries' = [tries EXCEPT ![a] = 0] /\ sending' \subseteq Attachments
    BY <2>1, <2>2 DEF LiveInv, TriesFit
  <2>4. "none" \in ReaderKinds /\ "none" \notin InLegacyLoop /\ 0 \in 0..Attempts
    BY KindFacts, FreeFacts
  <2>5. att' = att /\ page' = page /\ used' = used
    BY <2>1 DEF vars
  <2> QED BY <1>0, <2>1, <2>2, <2>3, <2>4, <2>5, LiveMoves
<1>4. CASE PostAccepted(a)
  <2> DEFINE d == [Detached EXCEPT !.state = "resolved", !.run = Len(sess) + 1]
  <2>1. /\ reader[a] = "posting" /\ reader' = [reader EXCEPT ![a] = "post"]
        /\ att' = [att EXCEPT ![a] = d] /\ UNCHANGED <<sending, tries, page, used>>
    BY <1>4 DEF PostAccepted
  <2>2. tries[a] = 0 /\ 0 \in 0..Attempts
    BY <2>1, KindFacts, FreeFacts
  <2>3. tries' = [tries EXCEPT ![a] = 0] /\ sending' \subseteq Attachments
    BY <2>1, <2>2 DEF LiveInv, TriesFit
  <2> HIDE DEF d
  <2>4. \A b \in Attachments : b # a => att'[b] = att[b]
    BY <2>1 DEF IInv, SlotInv, TypeOK
  <2>5. "post" \in ReaderKinds /\ "post" \notin InLegacyLoop /\ "post" \in Registered
        /\ "post" \in Reading
    BY KindFacts
  <2> QED BY <1>0, <2>1, <2>2, <2>3, <2>4, <2>5, LiveMoves
<1>5. CASE PostRefused(a) \/ NoRun(a) \/ Told(a)
  <2>1. Leave({a}, page) /\ used' = used
    BY <1>5 DEF PostRefused, NoRun, Told, Finish
  <2>2. /\ att'[a].state = "idle"
        /\ \A b \in Attachments : b # a => att'[b] = att[b]
    <3>1. CASE PostRefused(a) \/ NoRun(a)
      BY <3>1, KindFacts, FreeFacts DEF PostRefused, NoRun, vars
    <3>2. CASE Told(a)
      BY <3>2, OneConnection DEF Told
    <3> QED BY <1>5, <3>1, <3>2
  <2> QED BY <1>0, <2>1, <2>2, LiveLeaves
<1>6. CASE PostLost(a)
  <2>1. reader[a] = "posting" /\ used' \in Spent /\ StreamRun(a, page) /\ att' = att
    BY <1>6, SpentFacts DEF PostLost, vars
  <2> QED BY <1>0, <2>1, KindFacts, FreeFacts, LiveStreams
<1>7. CASE HubResolve(a)
  BY <1>0, <1>1, <1>7, KindFacts, OneConnection DEF HubResolve, pageVars
<1>8. CASE LegacyResolve(a)
  <2>1. /\ reader[a] = "asking" /\ Resolve(a) /\ reader' = [reader EXCEPT ![a] = "legacy"]
        /\ UNCHANGED <<sending, tries, page, used>>
    BY <1>8 DEF LegacyResolve
  <2>2. tries' = [tries EXCEPT ![a] = tries[a]] /\ tries[a] \in 0..Attempts
        /\ sending' \subseteq Attachments
    BY <2>1 DEF LiveInv, TriesFit
  <2>3. "legacy" \in ReaderKinds /\ "legacy" \in InLegacyLoop /\ "legacy" \in Registered
        /\ "legacy" \in Reading
    BY KindFacts DEF InLegacyLoop
  <2> QED BY <1>0, <2>1, <2>2, <2>3, OneConnection, LiveMoves
<1>9. CASE Open(a)
  <2>1. After(a) \in Nat
    BY <1>0 DEF After, PageRecord
  <2> QED BY <1>0, <1>1, <1>9, <2>1, OneConnection DEF Open, pageVars
<1>10. CASE Receive(a)
  <2> DEFINE n == Head(att[a].pending)
  <2>1. n \in Nat
    BY <1>10, DeliverFacts, SlotFacts DEF Receive
  <2> HIDE DEF n
  <2>2. \/ page' = page
        \/ \E prompt \in BOOLEAN :
             page' = [page EXCEPT !.mark = n, !.streaming = page.streaming \/ prompt]
    BY <1>10 DEF Receive, n
  <2>3. page' \in PageRecord /\ page'.abortRef = page.abortRef
    BY <1>0, <2>1, <2>2 DEF PageRecord
  <2> QED BY <1>1, <1>0, <1>10, <2>3, OneConnection DEF Receive
<1>11. CASE StreamEnds(a) /\ UNCHANGED pageVars
  <2>1. reader[a] \in Reading
    BY <1>11 DEF StreamEnds, LiveInv, QuietUnlessReading
  <2> QED BY <1>0, <1>1, <1>11, <2>1, OneConnection DEF pageVars
<1>12. CASE ConnectionLost(a)
  <2>1. Breaks(a) /\ reader[a] \in {"post", "hub"}
    BY <1>12 DEF ConnectionLost
  <2>2. used' \in Spent /\ att'[a].state = "idle" /\ \A b \in Attachments : b # a => att'[b] = att[b]
    BY <2>1, BreaksFacts
  <2>3. CASE reader[a] = "post"
    BY <1>0, <1>12, <2>2, <2>3, KindFacts, LiveStreams DEF ConnectionLost
  <2>4. CASE reader[a] # "post"
    BY <1>0, <1>1, <1>12, <2>2, <2>4 DEF ConnectionLost
  <2> QED BY <2>3, <2>4
<1>13. CASE AttemptFails(a)
  <2>1. used' \in Spent /\ att'[a].state = "idle" /\ \A b \in Attachments : b # a => att'[b] = att[b]
    <3>1. CASE reader[a] = "legacy" /\ Breaks(a)
      BY <3>1, BreaksFacts
    <3>2. CASE reader[a] = "asking" /\ SpendDrop /\ UNCHANGED vars
      BY <3>2, SpentFacts, KindFacts, FreeFacts DEF vars
    <3> QED BY <1>13, <3>1, <3>2 DEF AttemptFails
  <2>2. CASE tries[a] < Attempts
    <3> DEFINE ref == IF page.abortRef = a THEN Nobody ELSE page.abortRef
    <3>1. /\ reader' = [reader EXCEPT ![a] = "asleep"]
          /\ page' = [page EXCEPT !.abortRef = ref] /\ UNCHANGED <<sending, tries>>
      BY <1>13, <2>2 DEF AttemptFails
    <3>2. ref \in Attachments \cup {Nobody} /\ (ref = Nobody \/ (ref = page.abortRef /\ ref # a))
      BY <1>0
    <3> HIDE DEF ref
    <3>3. page' \in PageRecord /\ page'.abortRef = ref
      BY <1>0, <3>1, <3>2 DEF PageRecord
    <3>4. tries' = [tries EXCEPT ![a] = tries[a]] /\ tries[a] \in 0..Attempts
          /\ sending' \subseteq Attachments
      BY <3>1 DEF LiveInv, TriesFit
    <3>5. "asleep" \in ReaderKinds /\ "asleep" \in InLegacyLoop
      BY KindFacts DEF InLegacyLoop
    <3> QED BY <2>1, <2>2, <3>1, <3>2, <3>3, <3>4, <3>5, LiveMoves
  <2>3. CASE ~(tries[a] < Attempts)
    BY <1>0, <1>13, <2>1, <2>3, LiveLeaves DEF AttemptFails, Finish
  <2> QED BY <2>2, <2>3
<1>14. CASE Wakes(a)
  <2>1. /\ reader[a] = "asleep" /\ Attempt(a, page) /\ used' = used /\ att' = att
    BY <1>14 DEF Wakes, vars
  <2>2. tries[a] < Attempts
    BY <2>1 DEF LiveInv, TriesFit
  <2> QED BY <1>0, <2>1, <2>2, KindFacts, FreeFacts, LiveAttempts
<1> QED BY <1>2, <1>3, <1>4, <1>5, <1>6, <1>7, <1>8, <1>9, <1>10, <1>11, <1>12, <1>13, <1>14
        DEF ReaderStep

\* A reattachment to a run that the page did not start.
LEMMA LiveJoins ==
  ASSUME IInv, LiveInv, NEW a \in Attachments, Free(a), NEW p \in PageRecord,
         p.abortRef = page.abortRef, Join(a, p), UNCHANGED <<vars, used>>
  PROVE  LiveInv'
<1> DEFINE q == [p EXCEPT !.streaming = TRUE, !.fresh = FALSE]
<1>1. q \in PageRecord /\ q.abortRef = page.abortRef
  BY DEF PageRecord
<1>2. StreamRun(a, q) /\ reader[a] = "none" /\ att' = att /\ used' = used /\ att[a].state = "idle"
  BY DEF Join, Free, vars
<1> HIDE DEF q
<1>3. used' \in Spent
  BY <1>2 DEF LiveInv
<1> QED BY <1>1, <1>2, <1>3, KindFacts, LiveStreams

LEMMA LiveUnderOthers ==
  ASSUME IInv, LiveInv, NEW a \in Attachments,
         Send(a) \/ Upload(a) \/ Reconcile(a) \/ Loaded(a)
  PROVE  LiveInv'
<1>0. page \in PageRecord /\ used \in Spent /\ page.abortRef \in Attachments \cup {Nobody}
  BY DEF LiveInv, PageRecord
<1>1. ASSUME UNCHANGED <<vars, coroutine, used>>, page' \in PageRecord,
             page'.abortRef = page.abortRef
      PROVE  LiveInv'
  <2>1. \A b \in Attachments : att'[b].state # "idle" => reader[b] \in Reading
    BY <1>1 DEF vars, LiveInv, QuietUnlessReading
  <2> QED BY <1>0, <1>1, <2>1, LiveStays
<1>2. CASE Send(a)
  <2>1. used' \in Spent /\ Prompt(a) /\ reader[a] \in {"none", "uploading"}
    BY <1>2, SpentFacts DEF Send, Free
  <2> QED BY <2>1, PromptFrame
<1>3. CASE Upload(a)
  <2>1. /\ reader[a] = "none" /\ reader' = [reader EXCEPT ![a] = "uploading"]
        /\ UNCHANGED <<vars, sending, tries, page>> /\ used' \in Spent
    BY <1>3, SpentFacts DEF Upload, Free
  <2>2. tries[a] = 0 /\ att[a].state = "idle" /\ page.abortRef # a
    BY <2>1, KindFacts, FreeFacts
  <2>3. tries' = [tries EXCEPT ![a] = 0] /\ sending' \subseteq Attachments
    BY <2>1, <2>2 DEF LiveInv, TriesFit
  <2>4. "uploading" \in ReaderKinds /\ "uploading" \notin InLegacyLoop /\ 0 \in 0..Attempts
        /\ "uploading" # "asleep"
    BY KindFacts, FreeFacts
  <2>5. att' = att /\ page' = page
    BY <2>1 DEF vars
  <2> QED BY <1>0, <2>1, <2>2, <2>3, <2>4, <2>5, LiveMoves
<1>4. CASE Reconcile(a)
  <2> DEFINE p == [page EXCEPT !.polled = FALSE]
             q == [p EXCEPT !.loads = @ + 1]
  <2>1. p \in PageRecord /\ p.abortRef = page.abortRef
    BY <1>0 DEF PageRecord
  <2>2. ASSUME page.loads < MaxLoads PROVE q \in PageRecord /\ q.abortRef = page.abortRef
    <3>1. p.loads = page.loads /\ page.loads + 1 \in 0..MaxLoads
      BY <1>0, <2>2, PageAssumption DEF PageRecord
    <3> HIDE DEF p
    <3>2. q = [p EXCEPT !.loads = page.loads + 1]
      BY <3>1
    <3> QED BY <2>1, <3>1, <3>2 DEF PageRecord
  <2>3. \/ page' = p /\ UNCHANGED coroutine
        \/ Join(a, p)
        \/ page.loads < MaxLoads /\ page' = q /\ UNCHANGED coroutine
    BY <1>4 DEF Reconcile
  <2>4. Free(a) /\ UNCHANGED <<vars, used>>
    BY <1>4 DEF Reconcile
  <2> HIDE DEF p, q
  <2> QED BY <1>1, <2>1, <2>2, <2>3, <2>4, LiveJoins
<1>5. CASE Loaded(a)
  <2> DEFINE p == [page EXCEPT !.loads = @ - 1, !.fresh = FALSE]
             q == [p EXCEPT !.stop = FALSE]
  <2>0. page.loads > 0 /\ page.loads \in 0..MaxLoads /\ MaxLoads \in Nat
    BY <1>0, <1>5, PageAssumption DEF Loaded, PageRecord
  <2>1. p \in PageRecord /\ p.abortRef = page.abortRef
    <3>1. page.loads - 1 \in 0..MaxLoads
      BY <2>0
    <3> QED BY <1>0, <3>1 DEF PageRecord
  <2>2. q \in PageRecord /\ q.abortRef = page.abortRef
    BY <2>1 DEF PageRecord
  <2>3. \/ page' \in {p, q} /\ UNCHANGED coroutine
        \/ Join(a, p)
    BY <1>5, <2>1 DEF Loaded
  <2>4. Free(a) /\ UNCHANGED <<vars, used>>
    BY <1>5 DEF Loaded
  <2> HIDE DEF p, q
  <2> QED BY <1>1, <2>1, <2>2, <2>3, <2>4, LiveJoins
<1> QED BY <1>2, <1>3, <1>4, <1>5

LEMMA LiveUnderHub ==
  ASSUME IInv, LiveInv, HubFails
  PROVE  LiveInv'
<1> DEFINE subs == {a \in Attachments : reader[a] = "hub"}
           p == [page EXCEPT !.hub = FALSE]
<1>0. page \in PageRecord
  BY DEF LiveInv
<1>1. p \in PageRecord /\ p.abortRef = page.abortRef
  BY <1>0 DEF PageRecord
<1>2. /\ \A a \in Attachments : IF a \in subs THEN att'[a].state = "idle" ELSE att'[a] = att[a]
      /\ used' = used /\ used' \in Spent
  BY DEF HubFails, Detached, LiveInv
<1>3. CASE page' = p /\ UNCHANGED coroutine
  <2>1. \A b \in Attachments : att'[b].state # "idle" => reader[b] \in Reading
    BY <1>2 DEF LiveInv, QuietUnlessReading
  <2> HIDE DEF p, subs
  <2> QED BY <1>1, <1>2, <1>3, <2>1, LiveStays
<1>4. CASE Leave(subs, p)
  <2> HIDE DEF p, subs
  <2> QED BY <1>1, <1>2, <1>4, LiveLeaves
<1>5. ASSUME NEW last \in subs, page' = [p EXCEPT !.abortRef = last],
             reader' = [a \in Attachments |-> IF a \in subs THEN "asking" ELSE reader[a]],
             tries' = [a \in Attachments |-> IF a \in subs THEN 1 ELSE tries[a]],
             UNCHANGED sending
      PROVE  LiveInv'
  <2>1. last \in Attachments
    OBVIOUS
  <2>2. page' \in PageRecord /\ page'.abortRef = last
    BY <1>1, <1>5, <2>1 DEF PageRecord
  <2>3. reader' \in [Attachments -> ReaderKinds] /\ sending' \subseteq Attachments
    BY <1>5, KindFacts DEF LiveInv
  <2>4. TriesFit'
    <3>1. tries' \in [Attachments -> 0..Attempts]
      BY <1>5, PageAssumption DEF LiveInv, TriesFit
    <3> QED BY <1>5, <3>1 DEF LiveInv, TriesFit, InLegacyLoop
  <2>5. RefIsLive'
    BY <1>5, <2>1, <2>2, KindFacts DEF RefIsLive
  <2>6. QuietUnlessReading'
    BY <1>2, <1>5 DEF LiveInv, QuietUnlessReading
  <2> QED BY <1>2, <2>2, <2>3, <2>4, <2>5, <2>6 DEF LiveInv
<1>6. \/ page' = p /\ UNCHANGED coroutine
      \/ Leave(subs, p)
      \/ /\ \E last \in subs : page' = [p EXCEPT !.abortRef = last]
         /\ reader' = [a \in Attachments |-> IF a \in subs THEN "asking" ELSE reader[a]]
         /\ tries' = [a \in Attachments |-> IF a \in subs THEN 1 ELSE tries[a]]
         /\ UNCHANGED sending
  BY DEF HubFails
<1> HIDE DEF p, subs
<1> QED BY <1>3, <1>4, <1>5, <1>6

\* A Stop and a new conversation end the registered reader, if there is one.
LEMMA LiveUnderAbort ==
  ASSUME IInv, LiveInv, NEW p \in PageRecord, p.abortRef = page.abortRef, used' \in Spent,
         IF page.abortRef = Nobody THEN page' = p /\ UNCHANGED <<att, coroutine>>
                                   ELSE AbortReader(p)
  PROVE  LiveInv'
<1>1. CASE page.abortRef = Nobody
  <2>1. \A b \in Attachments : att'[b].state # "idle" => reader[b] \in Reading
    BY <1>1 DEF LiveInv, QuietUnlessReading
  <2> QED BY <1>1, <2>1, LiveStays
<1>2. CASE page.abortRef # Nobody
  <2>1. page.abortRef \in Attachments /\ att \in [Attachments -> AttachmentType]
    BY <1>2 DEF LiveInv, PageRecord, IInv, SlotInv, TypeOK
  <2>2. att' = [att EXCEPT ![page.abortRef] = Detached] /\ Leave({page.abortRef}, p)
    BY <1>2 DEF AbortReader
  <2>3. \A b \in Attachments : IF b \in {page.abortRef} THEN att'[b].state = "idle"
                               ELSE att'[b].state # "idle" => att[b].state # "idle"
    BY <2>1, <2>2 DEF Detached
  <2> QED BY <2>2, <2>3, LiveLeaves
<1> QED BY <1>1, <1>2

LEMMA LiveUnderPage ==
  ASSUME IInv, LiveInv, PageNext
  PROVE  LiveInv'
<1>0. page \in PageRecord /\ Len(sess) \in Nat
  BY SlotFacts DEF LiveInv
<1>1. ASSUME NEW a \in Attachments, Send(a) \/ Upload(a) \/ ReaderStep(a) \/ Reconcile(a) \/ Loaded(a)
      PROVE  LiveInv'
  BY <1>1, LiveUnderReader, LiveUnderOthers
<1>2. CASE PressStop
  <2> DEFINE p == [page EXCEPT !.stop = TRUE]
  <2>1. p \in PageRecord /\ p.abortRef = page.abortRef
    BY <1>0 DEF PageRecord
  <2>2. used' \in Spent
    BY <1>2, SpentFacts DEF PressStop
  <2>3. IF page.abortRef = Nobody THEN page' = p /\ UNCHANGED <<att, coroutine>> ELSE AbortReader(p)
    BY <1>2 DEF PressStop
  <2> HIDE DEF p
  <2> QED BY <2>1, <2>2, <2>3, LiveUnderAbort
<1>3. CASE NewConversation
  <2> DEFINE p == [page EXCEPT !.streaming = FALSE, !.stop = FALSE, !.mark = 0, !.fresh = TRUE,
                               !.since = Len(sess)]
  <2>1. p \in PageRecord /\ p.abortRef = page.abortRef
    BY <1>0 DEF PageRecord
  <2>2. used' \in Spent
    BY <1>3, SpentFacts DEF NewConversation
  <2>3. IF page.abortRef = Nobody THEN page' = p /\ UNCHANGED <<att, coroutine>> ELSE AbortReader(p)
    BY <1>3 DEF NewConversation
  <2> HIDE DEF p
  <2> QED BY <2>1, <2>2, <2>3, LiveUnderAbort
<1>4. CASE Poll
  <2>1. UNCHANGED <<vars, coroutine, used>> /\ page' \in PageRecord /\ page'.abortRef = page.abortRef
    BY <1>0, <1>4 DEF Poll, PageRecord
  <2>2. \A b \in Attachments : att'[b].state # "idle" => reader[b] \in Reading
    BY <2>1 DEF vars, LiveInv, QuietUnlessReading
  <2>3. used' \in Spent
    BY <2>1 DEF LiveInv
  <2> QED BY <2>1, <2>2, <2>3, LiveStays
<1> QED BY <1>1, <1>2, <1>3, <1>4, LiveUnderRun, LiveUnderHub DEF PageNext

-----------------------------------------------------------------------------
(* What a step leaves of the page: its marks, its events, and the guard.     *)

SameMarks ==
  page'.mark = page.mark /\ page'.asked = page.asked /\ page'.since = page.since

\* Only a page that can have a second reader gets one: nothing takes an upload back, or
\* brings the shared connection back.
GuardFalls == (page'.hub => page.hub) /\ (used'.uploads = 0 => used.uploads = 0)

LEMMA RegistrationFrame ==
  ASSUME NEW p \in PageRecord, NEW a, NEW ended,
         Leave(ended, p) \/ Attempt(a, p) \/ StreamRun(a, p) \/ Join(a, p)
  PROVE  page'.mark = p.mark /\ page'.asked = p.asked /\ page'.since = p.since /\ page'.hub = p.hub
<1>1. ASSUME NEW q \in PageRecord, NEW e, Leave(e, q)
      PROVE  /\ page'.mark = q.mark /\ page'.asked = q.asked /\ page'.since = q.since
             /\ page'.hub = q.hub
  BY <1>1 DEF Leave, PageRecord
<1>2. ASSUME NEW q \in PageRecord, Attempt(a, q)
      PROVE  /\ page'.mark = q.mark /\ page'.asked = q.asked /\ page'.since = q.since
             /\ page'.hub = q.hub
  <2>1. CASE q.stop
    BY <1>1, <1>2, <2>1 DEF Attempt
  <2>2. CASE ~q.stop
    BY <1>2, <2>2 DEF Attempt, PageRecord
  <2> QED BY <2>1, <2>2
<1>3. ASSUME NEW q \in PageRecord, StreamRun(a, q)
      PROVE  /\ page'.mark = q.mark /\ page'.asked = q.asked /\ page'.since = q.since
             /\ page'.hub = q.hub
  <2>1. CASE q.hub
    BY <1>3, <2>1 DEF StreamRun, PageRecord
  <2>2. CASE ~q.hub
    BY <1>2, <1>3, <2>2 DEF StreamRun
  <2> QED BY <2>1, <2>2
<1>4. CASE Join(a, p)
  <2> DEFINE q == [p EXCEPT !.streaming = TRUE, !.fresh = FALSE]
  <2>1. /\ q \in PageRecord /\ q.mark = p.mark /\ q.asked = p.asked /\ q.since = p.since
        /\ q.hub = p.hub
    BY DEF PageRecord
  <2>2. StreamRun(a, q)
    BY <1>4 DEF Join
  <2> HIDE DEF q
  <2> QED BY <1>3, <2>1, <2>2
<1> QED BY <1>1, <1>2, <1>3, <1>4

LEMMA ReaderStepFrame ==
  ASSUME LiveInv, NEW a \in Attachments, ReaderStep(a), ~Uploaded(a), ~Receive(a)
  PROVE  SameMarks /\ UNCHANGED events /\ page'.hub = page.hub /\ used'.uploads = used.uploads
<1>0. page \in PageRecord /\ used \in Spent
  BY DEF LiveInv
<1>1. SpendDrop => used'.uploads = used.uploads
  BY <1>0 DEF SpendDrop, Spent
<1>2. Breaks(a) => used'.uploads = used.uploads
  BY <1>1 DEF Breaks
<1>3. CASE UploadFails(a) \/ PostAccepted(a)
  BY <1>3 DEF UploadFails, PostAccepted, SameMarks
<1>4. CASE PostRefused(a) \/ NoRun(a) \/ Told(a)
  BY <1>0, <1>4, RegistrationFrame DEF PostRefused, NoRun, Told, Finish, SameMarks
<1>5. CASE PostLost(a) \/ Wakes(a)
  BY <1>0, <1>1, <1>5, RegistrationFrame DEF PostLost, Wakes, SameMarks
<1>6. CASE HubResolve(a) \/ LegacyResolve(a) \/ Open(a) \/ (StreamEnds(a) /\ UNCHANGED pageVars)
  BY <1>6 DEF HubResolve, LegacyResolve, Open, pageVars, SameMarks
<1>7. CASE ConnectionLost(a)
  BY <1>0, <1>2, <1>7, RegistrationFrame DEF ConnectionLost, SameMarks
<1>8. CASE AttemptFails(a)
  <2>1. used'.uploads = used.uploads /\ UNCHANGED events
    BY <1>1, <1>2, <1>8 DEF AttemptFails
  <2>2. CASE tries[a] < Attempts
    BY <1>0, <1>8, <2>1, <2>2 DEF AttemptFails, PageRecord, SameMarks
  <2>3. CASE ~(tries[a] < Attempts)
    BY <1>0, <1>8, <2>1, <2>3, RegistrationFrame DEF AttemptFails, Finish, SameMarks
  <2> QED BY <2>2, <2>3
<1> QED BY <1>3, <1>4, <1>5, <1>6, <1>7, <1>8 DEF ReaderStep

LEMMA OthersFrame ==
  ASSUME LiveInv, NEW a \in Attachments, Upload(a) \/ Reconcile(a) \/ Loaded(a)
  PROVE  SameMarks /\ UNCHANGED <<events, vars>> /\ GuardFalls /\ page'.hub = page.hub
<1>0. page \in PageRecord /\ used \in Spent
  BY DEF LiveInv
<1>1. CASE Upload(a)
  <2>1. page' = page /\ UNCHANGED <<events, vars>>
    BY <1>1 DEF Upload
  <2>2. used'.uploads = 0 => used.uploads = 0
    BY <1>0, <1>1 DEF Upload, Spent
  <2> QED BY <2>1, <2>2 DEF SameMarks, GuardFalls
<1>2. ASSUME NEW p \in PageRecord, p.mark = page.mark, p.asked = page.asked, p.since = page.since,
             p.hub = page.hub, page' = p \/ Join(a, p), UNCHANGED <<vars, events, used>>
      PROVE  SameMarks /\ UNCHANGED <<events, vars>> /\ GuardFalls /\ page'.hub = page.hub
  BY <1>2, RegistrationFrame DEF SameMarks, GuardFalls
<1>3. CASE Reconcile(a)
  <2> DEFINE p == [page EXCEPT !.polled = FALSE]
             q == [p EXCEPT !.loads = @ + 1]
  <2>1. p \in PageRecord /\ p.mark = page.mark /\ p.asked = page.asked /\ p.since = page.since
        /\ p.hub = page.hub
    BY <1>0 DEF PageRecord
  <2>2. q.mark = page.mark /\ q.asked = page.asked /\ q.since = page.since /\ q.hub = page.hub
    BY <2>1 DEF PageRecord
  <2>3. page' = p \/ Join(a, p) \/ page' = q
    BY <1>3 DEF Reconcile
  <2>4. UNCHANGED <<vars, events, used>>
    BY <1>3 DEF Reconcile
  <2> HIDE DEF p, q
  <2>5. CASE page' = q
    BY <2>2, <2>4, <2>5 DEF SameMarks, GuardFalls
  <2> QED BY <1>2, <2>1, <2>3, <2>4, <2>5
<1>4. CASE Loaded(a)
  <2> DEFINE p == [page EXCEPT !.loads = @ - 1, !.fresh = FALSE]
             q == [p EXCEPT !.stop = FALSE]
  <2>1. p.mark = page.mark /\ p.asked = page.asked /\ p.since = page.since /\ p.hub = page.hub
    BY <1>0 DEF PageRecord
  <2>2. page.loads - 1 \in 0..MaxLoads
    BY <1>0, <1>4, PageAssumption DEF Loaded, PageRecord
  <2>3. p \in PageRecord
    BY <1>0, <2>2 DEF PageRecord
  <2>4. q.mark = page.mark /\ q.asked = page.asked /\ q.since = page.since /\ q.hub = page.hub
    BY <2>1, <2>3 DEF PageRecord
  <2>5. page' = p \/ Join(a, p) \/ page' = q
    BY <1>4 DEF Loaded
  <2>6. UNCHANGED <<vars, events, used>>
    BY <1>4 DEF Loaded
  <2> HIDE DEF p, q
  <2>7. CASE page' = q
    BY <2>4, <2>6, <2>7 DEF SameMarks, GuardFalls
  <2> QED BY <1>2, <2>1, <2>3, <2>5, <2>6, <2>7
<1> QED BY <1>1, <1>3, <1>4

\* What a page step leaves of the guard.
LEMMA GuardUnderPage ==
  ASSUME IInv, LiveInv, PageNext
  PROVE  GuardFalls
<1>0. page \in PageRecord /\ used \in Spent
  BY DEF LiveInv
<1>1. ASSUME page'.hub = page.hub, used'.uploads = used.uploads PROVE GuardFalls
  BY <1>1 DEF GuardFalls
<1>2. CASE RunStep /\ UNCHANGED pageVars
  BY <1>1, <1>2 DEF pageVars
<1>3. ASSUME NEW a \in Attachments, Send(a) \/ Uploaded(a) PROVE GuardFalls
  <2>1. page'.hub = page.hub
    BY <1>0, <1>3 DEF Send, Uploaded, Prompt, PageRecord
  <2>2. used'.uploads = used.uploads
    BY <1>0, <1>3 DEF Send, Uploaded, Spent
  <2> QED BY <1>1, <2>1, <2>2
<1>4. ASSUME NEW a \in Attachments, Receive(a) PROVE GuardFalls
  <2>1. UNCHANGED used
    BY <1>4 DEF Receive
  <2>2. page'.hub = page.hub
    BY <1>0, <1>4 DEF Receive, PageRecord
  <2> QED BY <1>1, <2>1, <2>2
<1>5. ASSUME NEW a \in Attachments, ReaderStep(a) \/ Upload(a) \/ Reconcile(a) \/ Loaded(a)
      PROVE  GuardFalls
  BY <1>1, <1>3, <1>4, <1>5, ReaderStepFrame, OthersFrame
<1>6. CASE HubFails
  <2>1. page.hub /\ UNCHANGED used
    BY <1>6 DEF HubFails
  <2> QED BY <2>1 DEF GuardFalls
<1>7. ASSUME NEW p \in PageRecord, p.hub = page.hub,
             page' = p \/ AbortReader(p), used'.uploads = used.uploads
      PROVE  GuardFalls
  BY <1>1, <1>7, RegistrationFrame DEF AbortReader
<1>8. CASE PressStop
  <2> DEFINE p == [page EXCEPT !.stop = TRUE]
  <2>1. p \in PageRecord /\ p.hub = page.hub
    BY <1>0 DEF PageRecord
  <2>2. used'.uploads = used.uploads
    BY <1>0, <1>8 DEF PressStop, Spent
  <2>3. page' = p \/ AbortReader(p)
    BY <1>8 DEF PressStop
  <2> HIDE DEF p
  <2> QED BY <1>7, <2>1, <2>2, <2>3
<1>9. CASE NewConversation
  <2> DEFINE p == [page EXCEPT !.streaming = FALSE, !.stop = FALSE, !.mark = 0, !.fresh = TRUE,
                               !.since = Len(sess)]
  <2>1. p \in PageRecord /\ p.hub = page.hub
    BY <1>0, SlotFacts DEF PageRecord
  <2>2. used'.uploads = used.uploads
    BY <1>0, <1>9 DEF NewConversation, Spent
  <2>3. page' = p \/ AbortReader(p)
    BY <1>9 DEF NewConversation
  <2> HIDE DEF p
  <2> QED BY <1>7, <2>1, <2>2, <2>3
<1>10. CASE Poll
  BY <1>0, <1>1, <1>10 DEF Poll, PageRecord
<1> QED BY <1>2, <1>3, <1>5, <1>6, <1>8, <1>9, <1>10 DEF PageNext

-----------------------------------------------------------------------------
(* While no second reader can come in, the registered reader is the only one. *)

LEMMA AloneStays ==
  ASSUME Alone, UNCHANGED reader, page'.abortRef = page.abortRef,
         page'.streaming = page.streaming
  PROVE  Alone'
BY DEF Alone

\* The registered reader ends.
LEMMA AloneLeaves ==
  ASSUME LiveInv, Alone, NEW a \in Attachments, page.abortRef = a, NEW p \in PageRecord,
         p.abortRef = page.abortRef, Leave({a}, p)
  PROVE  Alone'
<1>1. /\ reader' = [b \in Attachments |-> IF b \in {a} THEN "none" ELSE reader[b]]
      /\ page' = [p EXCEPT !.streaming = FALSE, !.stop = FALSE, !.abortRef = Nobody]
  BY DEF Leave
<1>2. page'.abortRef = Nobody /\ page'.streaming = FALSE
  BY <1>1 DEF PageRecord
<1>3. \A b \in Attachments : reader'[b] = "none" /\ b # Nobody
  BY <1>1, PageAssumption DEF Alone
<1> QED BY <1>2, <1>3 DEF Alone

\* The registered reader, or one where there was none, moves on.
LEMMA AloneMoves ==
  ASSUME LiveInv, Alone, NEW a \in Attachments, page.abortRef \in {a, Nobody},
         NEW kind \in {"posting", "post", "hub"}, reader' = [reader EXCEPT ![a] = kind],
         page'.abortRef = a, page'.streaming = TRUE
  PROVE  Alone'
<1>1. reader'[a] = kind /\ \A b \in Attachments : b # a => reader'[b] = reader[b]
  BY DEF LiveInv
<1>2. \A b \in Attachments : b # a => reader'[b] = "none"
  BY <1>1, PageAssumption DEF Alone
<1> QED BY <1>1, <1>2, PageAssumption DEF Alone

\* streamRun while the shared connection serves.
LEMMA AloneStreams ==
  ASSUME LiveInv, Alone, NEW a \in Attachments, page.abortRef \in {a, Nobody},
         NEW p \in PageRecord, p.streaming = TRUE, StreamRun(a, p), p.hub = TRUE
  PROVE  Alone'
<1>1. reader' = [reader EXCEPT ![a] = "hub"] /\ page' = [p EXCEPT !.abortRef = a]
  BY DEF StreamRun
<1>2. page'.abortRef = a /\ page'.streaming = TRUE
  BY <1>1 DEF PageRecord
<1> QED BY <1>1, <1>2, AloneMoves

LEMMA AloneJoins ==
  ASSUME LiveInv, Alone, NEW a \in Attachments, page.abortRef = Nobody, NEW p \in PageRecord,
         p.hub = TRUE, Join(a, p)
  PROVE  Alone'
<1> DEFINE q == [p EXCEPT !.streaming = TRUE, !.fresh = FALSE]
<1>1. q \in PageRecord /\ q.streaming = TRUE /\ q.hub = TRUE
  BY DEF PageRecord
<1>2. StreamRun(a, q)
  BY DEF Join
<1> HIDE DEF q
<1> QED BY <1>1, <1>2, AloneStreams

\* Who reads is registered, and the composer is locked.
LEMMA AloneFacts ==
  ASSUME LiveInv, Alone, NEW a \in Attachments
  PROVE  /\ reader[a] # "none" => page.abortRef = a /\ page.streaming = TRUE
         /\ reader[a] \notin {"uploading", "asking", "legacy", "asleep"}
         /\ page.abortRef = Nobody => page.streaming = FALSE
<1>1. a # Nobody /\ page.streaming \in BOOLEAN
  BY PageAssumption DEF LiveInv, PageRecord
<1> QED BY <1>1 DEF Alone

LEMMA AloneUnderReader ==
  ASSUME IInv, LiveInv, Alone, NEW a \in Attachments, ReaderStep(a), page.hub = TRUE
  PROVE  Alone'
<1>0. page \in PageRecord
  BY DEF LiveInv
<1>1. ~Uploaded(a) /\ ~UploadFails(a) /\ ~LegacyResolve(a) /\ ~AttemptFails(a) /\ ~Wakes(a)
  BY AloneFacts DEF Uploaded, UploadFails, LegacyResolve, AttemptFails, Wakes
<1>2. CASE PostAccepted(a)
  <2>1. reader[a] = "posting" /\ reader' = [reader EXCEPT ![a] = "post"] /\ page' = page
    BY <1>2 DEF PostAccepted
  <2> QED BY <2>1, AloneFacts, AloneMoves
<1>3. CASE PostRefused(a) \/ NoRun(a) \/ Told(a)
  <2>1. Leave({a}, page)
    BY <1>3 DEF PostRefused, NoRun, Told, Finish
  <2>2. reader[a] # "none"
    BY <1>3, KindFacts DEF PostRefused, NoRun, Told
  <2> QED BY <1>0, <2>1, <2>2, AloneFacts, AloneLeaves
<1>4. ASSUME StreamRun(a, page), reader[a] # "none" PROVE Alone'
  BY <1>0, <1>4, AloneFacts, AloneStreams
<1>5. CASE PostLost(a)
  BY <1>4, <1>5 DEF PostLost
<1>6. CASE HubResolve(a) \/ Open(a) \/ (StreamEnds(a) /\ UNCHANGED pageVars)
  BY <1>6, AloneStays DEF HubResolve, Open, pageVars, coroutine
<1>7. CASE Receive(a)
  <2> DEFINE n == Head(att[a].pending)
  <2>1. reader[a] # "none" /\ UNCHANGED reader
    BY <1>7, KindFacts DEF Receive, coroutine
  <2>2. \/ page' = page
        \/ \E prompt \in BOOLEAN :
             page' = [page EXCEPT !.mark = n, !.streaming = page.streaming \/ prompt]
    BY <1>7 DEF Receive
  <2>3. page.streaming = TRUE
    BY <2>1, AloneFacts
  <2> HIDE DEF n
  <2>4. page'.abortRef = page.abortRef /\ page'.streaming = page.streaming
    BY <1>0, <2>2, <2>3 DEF PageRecord
  <2> QED BY <2>1, <2>4, AloneStays
<1>8. CASE ConnectionLost(a)
  <2>1. CASE reader[a] = "post"
    BY <1>4, <1>8, <2>1 DEF ConnectionLost
  <2>2. CASE reader[a] # "post"
    BY <1>8, <2>2, AloneStays DEF ConnectionLost, coroutine
  <2> QED BY <2>1, <2>2
<1> QED BY <1>1, <1>2, <1>3, <1>5, <1>6, <1>7, <1>8 DEF ReaderStep

LEMMA OnlyUnderPage ==
  ASSUME IInv, LiveInv, OnlyReader, PageNext
  PROVE  OnlyReader'
<1> SUFFICES ASSUME Guarded' PROVE Alone'
  BY DEF OnlyReader
<1>0. page \in PageRecord /\ used \in Spent
  BY DEF LiveInv
<1>1. Guarded /\ Alone /\ page.hub = TRUE
  <2>1. Guarded
    BY GuardUnderPage DEF GuardFalls, Guarded
  <2>2. page.hub = TRUE
    BY <1>0, <2>1 DEF Guarded, PageRecord
  <2> QED BY <2>1, <2>2 DEF OnlyReader
<1>2. CASE RunStep /\ UNCHANGED pageVars
  BY <1>1, <1>2, AloneStays DEF pageVars, coroutine
<1>3. ASSUME NEW a \in Attachments, Send(a) PROVE Alone'
  <2>1. ~page.streaming /\ reader[a] = "none" /\ reader' = [reader EXCEPT ![a] = "posting"]
    BY <1>3 DEF Send, Free, Prompt
  <2>2. page'.abortRef = a /\ page'.streaming = TRUE
    BY <1>0, <1>3 DEF Send, Prompt, PageRecord
  <2>3. page.abortRef = Nobody
    BY <1>1, <2>1 DEF Alone
  <2> QED BY <1>1, <2>1, <2>2, <2>3, AloneMoves
<1>4. ASSUME NEW a \in Attachments, Upload(a) PROVE Alone'
  <2>1. used'.uploads = used.uploads + 1
    BY <1>0, <1>4 DEF Upload, Spent
  <2> QED BY <1>1, <2>1 DEF Guarded
<1>5. ASSUME NEW a \in Attachments, ReaderStep(a) PROVE Alone'
  BY <1>1, <1>5, AloneUnderReader
<1>6. ASSUME NEW a \in Attachments, Reconcile(a) PROVE Alone'
  <2> DEFINE p == [page EXCEPT !.polled = FALSE]
             q == [p EXCEPT !.loads = @ + 1]
  <2>1. p \in PageRecord /\ p.hub = TRUE /\ p.abortRef = page.abortRef /\ p.streaming = page.streaming
    BY <1>0, <1>1 DEF PageRecord
  <2>2. q.abortRef = page.abortRef /\ q.streaming = page.streaming
    BY <2>1 DEF PageRecord
  <2>3. \/ page' \in {p, q} /\ UNCHANGED coroutine
        \/ page.abortRef = Nobody /\ Join(a, p)
    BY <1>6 DEF Reconcile
  <2> HIDE DEF p, q
  <2> QED BY <1>1, <2>1, <2>2, <2>3, AloneStays, AloneJoins DEF coroutine
<1>7. ASSUME NEW a \in Attachments, Loaded(a) PROVE Alone'
  <2> DEFINE p == [page EXCEPT !.loads = @ - 1, !.fresh = FALSE]
             q == [p EXCEPT !.stop = FALSE]
  <2>0. page.loads - 1 \in 0..MaxLoads
    BY <1>0, <1>7, PageAssumption DEF Loaded, PageRecord
  <2>1. p \in PageRecord /\ p.hub = TRUE /\ p.abortRef = page.abortRef /\ p.streaming = page.streaming
    BY <1>0, <1>1, <2>0 DEF PageRecord
  <2>2. q.abortRef = page.abortRef /\ q.streaming = page.streaming
    BY <2>1 DEF PageRecord
  <2>3. \/ page' \in {p, q} /\ UNCHANGED coroutine
        \/ page.abortRef = Nobody /\ Join(a, p)
    BY <1>7 DEF Loaded
  <2> HIDE DEF p, q
  <2> QED BY <1>1, <2>1, <2>2, <2>3, AloneStays, AloneJoins DEF coroutine
<1>8. CASE HubFails
  <2>1. page'.hub = FALSE
    <3> DEFINE p == [page EXCEPT !.hub = FALSE]
               subs == {a \in Attachments : reader[a] = "hub"}
    <3>1. p \in PageRecord /\ p.hub = FALSE
      BY <1>0 DEF PageRecord
    <3>2. page' = p \/ Leave(subs, p) \/ \E last \in subs : page' = [p EXCEPT !.abortRef = last]
      BY <1>8 DEF HubFails
    <3> HIDE DEF p, subs
    <3> QED BY <3>1, <3>2, RegistrationFrame DEF PageRecord
  <2> QED BY <2>1 DEF Guarded
<1>9. CASE PressStop
  <2> DEFINE p == [page EXCEPT !.stop = TRUE]
  <2>1. p \in PageRecord /\ p.abortRef = page.abortRef
    BY <1>0 DEF PageRecord
  <2>2. page.abortRef # Nobody /\ page.abortRef \in Attachments
    BY <1>0, <1>1, <1>9 DEF PressStop, Alone, PageRecord
  <2>3. Leave({page.abortRef}, p)
    BY <1>9, <2>2 DEF PressStop, AbortReader
  <2> HIDE DEF p
  <2> QED BY <1>1, <2>1, <2>2, <2>3, AloneLeaves
<1>10. CASE NewConversation
  <2> DEFINE p == [page EXCEPT !.streaming = FALSE, !.stop = FALSE, !.mark = 0, !.fresh = TRUE,
                               !.since = Len(sess)]
  <2>1. p \in PageRecord /\ p.abortRef = page.abortRef /\ p.streaming = FALSE
    BY <1>0, SlotFacts DEF PageRecord
  <2>2. IF page.abortRef = Nobody THEN page' = p /\ UNCHANGED coroutine
                                  ELSE Leave({page.abortRef}, p)
    BY <1>10 DEF NewConversation, AbortReader
  <2>3. page.abortRef \in Attachments \cup {Nobody}
    BY <1>0 DEF PageRecord
  <2> HIDE DEF p
  <2>4. CASE page.abortRef = Nobody
    <3>1. page.streaming = FALSE
      BY <1>0, <1>1, <2>4 DEF Alone, PageRecord
    <3> QED BY <1>1, <2>1, <2>2, <2>4, <3>1, AloneStays DEF coroutine
  <2>5. CASE page.abortRef # Nobody
    BY <1>1, <2>1, <2>2, <2>3, <2>5, AloneLeaves
  <2> QED BY <2>4, <2>5
<1>11. CASE Poll
  BY <1>0, <1>1, <1>11, AloneStays DEF Poll, PageRecord, coroutine
<1> QED BY <1>2, <1>3, <1>4, <1>5, <1>6, <1>7, <1>8, <1>9, <1>10, <1>11 DEF PageNext

-----------------------------------------------------------------------------
(* The events.                                                               *)

\* A step that shows nothing and moves no mark.
LEMMA EventsStay ==
  ASSUME IInv, EventInv, IInv', Len(sess) <= Len(sess'), UNCHANGED events, SameMarks,
         page \in PageRecord
  PROVE  EventInv'
<1>1. Len(sess) \in Nat /\ Runs = 1..Len(sess) /\ Len(sess') \in Nat /\ Runs' = 1..Len(sess')
  BY DEF IInv, SlotInv, TypeOK, Runs
<1>2. Runs \X Nat \subseteq Runs' \X Nat
  BY <1>1
<1>3. page.asked \in Nat /\ page.since \in Nat /\ page.mark \in Nat
  BY DEF PageRecord
<1>4. /\ page'.mark = page.mark /\ page'.asked = page.asked /\ page'.since = page.since
      /\ shown' = shown /\ repeated' = repeated /\ skipped' = skipped
  BY DEF SameMarks, events
<1> QED BY <1>1, <1>2, <1>3, <1>4 DEF EventInv, MarkCoversOwn, OwnRunShownOnce

\* An event that is received, and shown if it is above the mark.
LEMMA ReceiveEvents ==
  ASSUME IInv, LiveInv, EventInv, NEW a \in Attachments, Receive(a)
  PROVE  EventInv'
<1> DEFINE r == att[a].run
           n == att[a].last + 1
           evt == <<r, n>>
<1>1. Deliver(a)
  BY DEF Receive
<1>2. /\ r \in Runs /\ UNCHANGED sess /\ Head(att[a].pending) = n /\ n \in Nat
      /\ Runs' = Runs /\ Runs \subseteq Nat
  BY <1>1, DeliverFacts, SlotFacts DEF Runs
<1>3. page \in PageRecord /\ page.mark \in Nat /\ page.asked \in Nat
  BY DEF LiveInv, PageRecord
<1>4. CASE n <= page.mark
  <2>1. skipped' = skipped \cup ({evt} \ shown) /\ UNCHANGED <<page, shown, repeated>>
    BY <1>2, <1>4 DEF Receive
  <2> HIDE DEF n, r
  <2> QED BY <1>2, <2>1 DEF EventInv, MarkCoversOwn, OwnRunShownOnce
<1>5. CASE ~(n <= page.mark)
  <2>1. /\ \E prompt \in BOOLEAN :
             page' = [page EXCEPT !.mark = n, !.streaming = page.streaming \/ prompt]
        /\ shown' = shown \cup {evt}
        /\ repeated' = repeated \cup ({evt} \cap shown) /\ UNCHANGED skipped
    BY <1>2, <1>5 DEF Receive
  <2> HIDE DEF n, r
  <2>2. page'.mark = n /\ page'.asked = page.asked /\ page'.since = page.since
    BY <1>3, <2>1 DEF PageRecord
  <2>3. evt \in Runs \X Nat /\ evt[1] = r /\ evt[2] = n
    BY <1>2
  <2> HIDE DEF evt
  <2>4. \A e \in shown : e[1] \in Nat /\ e[2] \in Nat
    BY <1>2 DEF EventInv
  <2>5. MarkCoversOwn'
    BY <1>2, <1>3, <1>5, <2>1, <2>2, <2>3, <2>4 DEF EventInv, MarkCoversOwn
  <2>6. evt \in shown => r <= page.asked
    BY <1>2, <1>3, <1>5, <2>3, <2>4 DEF EventInv, MarkCoversOwn
  <2>7. OwnRunShownOnce'
    BY <2>1, <2>2, <2>3, <2>6 DEF EventInv, OwnRunShownOnce
  <2> QED BY <1>2, <2>1, <2>3, <2>5, <2>7 DEF EventInv
<1> QED BY <1>4, <1>5

\* A prompt and a new conversation start the marks over.
LEMMA PromptEvents ==
  ASSUME IInv, EventInv, UNCHANGED <<vars, events>>, page'.mark = 0,
         page'.asked = Len(sess), page'.since = Len(sess)
  PROVE  EventInv'
<1>1. Len(sess) \in Nat /\ Runs = 1..Len(sess) /\ sess' = sess /\ Runs' = Runs
  BY SlotFacts DEF vars, Runs
<1>2. shown' = shown /\ repeated' = repeated /\ skipped' = skipped
  BY DEF events
<1>3. \A e \in shown \cup repeated : e[1] \in Nat /\ e[1] <= Len(sess)
  BY <1>1 DEF EventInv
<1>4. MarkCoversOwn'
  BY <1>1, <1>2, <1>3 DEF MarkCoversOwn
<1> QED BY <1>1, <1>2, <1>3, <1>4 DEF EventInv, OwnRunShownOnce

LEMMA NewConversationMarks ==
  ASSUME IInv, LiveInv, NewConversation
  PROVE  /\ page'.mark = 0 /\ page'.asked = page.asked /\ page'.since = Len(sess)
         /\ shown' = {} /\ UNCHANGED <<server, repeated, skipped>>
<1> DEFINE p == [page EXCEPT !.streaming = FALSE, !.stop = FALSE, !.mark = 0, !.fresh = TRUE,
                             !.since = Len(sess)]
<1>1. p \in PageRecord /\ p.mark = 0 /\ p.asked = page.asked /\ p.since = Len(sess)
  BY SlotFacts DEF LiveInv, PageRecord
<1>2. page' = p \/ Leave({page.abortRef}, p)
  BY DEF NewConversation, AbortReader
<1>3. shown' = {} /\ UNCHANGED <<server, repeated, skipped>>
  BY DEF NewConversation
<1> HIDE DEF p
<1> QED BY <1>1, <1>2, <1>3, RegistrationFrame

\* The end of the shared connection, a Stop and a poll move no mark and show nothing, ...
LEMMA AsideFrame ==
  ASSUME IInv, LiveInv, HubFails \/ PressStop \/ Poll
  PROVE  SameMarks /\ UNCHANGED events
<1>0. page \in PageRecord
  BY DEF LiveInv
<1>1. CASE HubFails
  <2> DEFINE p == [page EXCEPT !.hub = FALSE]
             subs == {a \in Attachments : reader[a] = "hub"}
  <2>1. p \in PageRecord /\ p.mark = page.mark /\ p.asked = page.asked /\ p.since = page.since
    BY <1>0 DEF PageRecord
  <2>2. page' = p \/ Leave(subs, p) \/ \E last \in subs : page' = [p EXCEPT !.abortRef = last]
    BY <1>1 DEF HubFails
  <2>3. UNCHANGED events
    BY <1>1 DEF HubFails
  <2> HIDE DEF p, subs
  <2>4. ASSUME NEW last \in subs, page' = [p EXCEPT !.abortRef = last] PROVE SameMarks
    BY <2>1, <2>4 DEF PageRecord, SameMarks
  <2> QED BY <2>1, <2>2, <2>3, <2>4, RegistrationFrame DEF SameMarks
<1>2. CASE PressStop
  <2> DEFINE p == [page EXCEPT !.stop = TRUE]
  <2>1. p \in PageRecord /\ p.mark = page.mark /\ p.asked = page.asked /\ p.since = page.since
    BY <1>0 DEF PageRecord
  <2>2. (page' = p \/ Leave({page.abortRef}, p)) /\ UNCHANGED events
    BY <1>2 DEF PressStop, AbortReader
  <2> HIDE DEF p
  <2> QED BY <2>1, <2>2, RegistrationFrame DEF SameMarks
<1>3. CASE Poll
  BY <1>0, <1>3 DEF Poll, PageRecord, SameMarks
<1> QED BY <1>1, <1>2, <1>3

\* ... nor does any other step but these five.
LEMMA MarksFrame ==
  ASSUME IInv, LiveInv, PageNext,
         \A a \in Attachments : ~Send(a) /\ ~Uploaded(a) /\ ~Receive(a), ~NewConversation
  PROVE  SameMarks /\ UNCHANGED events
<1>1. CASE RunStep /\ UNCHANGED pageVars
  BY <1>1 DEF pageVars, SameMarks
<1>2. ASSUME NEW a \in Attachments, ReaderStep(a) \/ Upload(a) \/ Reconcile(a) \/ Loaded(a)
      PROVE  SameMarks /\ UNCHANGED events
  BY <1>2, ReaderStepFrame, OthersFrame DEF events
<1> QED BY <1>1, <1>2, AsideFrame DEF PageNext

\* Every step of the page keeps what is shown of an own run below the mark.
LEMMA EventsUnderPage ==
  ASSUME IInv, LiveInv, EventInv, PageNext, IInv', Len(sess) <= Len(sess')
  PROVE  EventInv'
<1>0. page \in PageRecord
  BY DEF LiveInv
<1>1. ASSUME NEW a \in Attachments, Send(a) \/ Uploaded(a) PROVE EventInv'
  <2>1. Prompt(a) /\ reader[a] \in {"none", "uploading"} /\ UNCHANGED events
    BY <1>1 DEF Send, Uploaded, Free, Prompt
  <2>2. used' \in Spent
    BY <1>1, SpentFacts DEF Send, Uploaded, LiveInv
  <2> QED BY <2>1, <2>2, PromptFrame, PromptEvents
<1>2. ASSUME NEW a \in Attachments, Receive(a) PROVE EventInv'
  BY <1>2, ReceiveEvents
<1>3. CASE NewConversation
  <2>1. /\ page'.mark = 0 /\ page'.asked = page.asked /\ page'.since = Len(sess)
        /\ shown' = {} /\ UNCHANGED <<sess, repeated, skipped>>
    BY <1>3, NewConversationMarks DEF server
  <2>2. Runs' = Runs /\ page.asked <= Len(sess) /\ Len(sess) \in Nat
    <3>1. page.asked \in Nat /\ page.since \in Nat /\ Len(sess) \in Nat
      BY <1>0, SlotFacts DEF PageRecord
    <3> QED BY <2>1, <3>1 DEF Runs, EventInv, MarkCoversOwn
  <2> QED BY <2>1, <2>2 DEF EventInv, MarkCoversOwn, OwnRunShownOnce
<1>4. CASE ~NewConversation /\ \A a \in Attachments : ~Send(a) /\ ~Uploaded(a) /\ ~Receive(a)
  BY <1>0, <1>4, MarksFrame, EventsStay
<1> QED BY <1>1, <1>2, <1>3, <1>4

-----------------------------------------------------------------------------
LEMMA PageInitInv == PageInit => PInv
<1> SUFFICES ASSUME PageInit PROVE PInv
  OBVIOUS
<1>1. IInv
  BY InitInv DEF PageInit
<1>2. \A a \in Attachments : a # Nobody /\ att[a].state = "idle"
  BY PageAssumption DEF PageInit, Init, Detached
<1>3. page \in PageRecord /\ page.abortRef = Nobody /\ page.streaming = FALSE /\ page.asked = 0
      /\ page.since = 0
  BY PageAssumption DEF PageInit, PageRecord
<1>4. used \in Spent
  BY PageAssumption DEF PageInit, Spent
<1>5. reader \in [Attachments -> ReaderKinds] /\ \A a \in Attachments : reader[a] = "none"
  BY DEF PageInit, ReaderKinds
<1>6. TriesFit
  BY <1>5, PageAssumption DEF PageInit, TriesFit
<1>7. LiveInv
  BY <1>2, <1>3, <1>4, <1>5, <1>6 DEF PageInit, LiveInv, RefIsLive, QuietUnlessReading
<1>8. OnlyReader
  BY <1>2, <1>3, <1>5 DEF OnlyReader, Alone
<1>9. EventInv
  BY <1>1, <1>3, SlotFacts DEF PageInit, EventInv, MarkCoversOwn, OwnRunShownOnce
<1> QED BY <1>1, <1>7, <1>8, <1>9 DEF PInv, ReaderInv

LEMMA PageStepInv == PInv /\ [PageNext]_allVars => PInv'
<1> SUFFICES ASSUME PInv, [PageNext]_allVars PROVE PInv'
  OBVIOUS
<1>0. IInv /\ LiveInv /\ OnlyReader /\ EventInv
  BY DEF PInv, ReaderInv
<1>1. CASE PageNext
  <2>1. IInv' /\ Len(sess) <= Len(sess')
    BY <1>0, <1>1, SlotUnderPage
  <2>2. EventInv'
    BY <1>0, <1>1, <2>1, EventsUnderPage
  <2>3. LiveInv' /\ OnlyReader'
    BY <1>0, <1>1, LiveUnderPage, OnlyUnderPage
  <2> QED BY <2>1, <2>2, <2>3 DEF PInv, ReaderInv
<1>2. CASE UNCHANGED allVars
  <2>1. UNCHANGED vars /\ UNCHANGED <<att, sess, reader, sending, tries, page, used>>
        /\ UNCHANGED <<shown, repeated, skipped>>
    BY <1>2 DEF allVars, vars, pageVars, coroutine, events
  <2>2. IInv'
    BY <1>0, <2>1, StutterInv
  <2>3. LiveInv'
    BY <1>0, <2>1 DEF LiveInv, TriesFit, RefIsLive, QuietUnlessReading
  <2>4. OnlyReader'
    BY <1>0, <2>1 DEF OnlyReader, Alone, Guarded
  <2>5. EventInv'
    BY <1>0, <2>1 DEF EventInv, MarkCoversOwn, OwnRunShownOnce, Runs
  <2> QED BY <2>2, <2>3, <2>4, <2>5 DEF PInv, ReaderInv
<1> QED BY <1>1, <1>2

\* The page's invariant holds in every reachable state, with any number of restarts,
\* uploads and attempts of the legacy loop.
THEOREM PageInvariance == PageSpec => []PInv
BY PageInitInv, PageStepInv, PTL DEF PageSpec

\* The page and the slot under it keep their types.
THEOREM PageTypeCorrect == PageSpec => []PageTypeOK
<1>1. PInv => PageTypeOK
  <2> SUFFICES ASSUME PInv PROVE PageTypeOK
    OBVIOUS
  <2>1. TypeOK
    BY DEF PInv, IInv, SlotInv
  <2>2. \A S \in {shown, repeated, skipped} : \A e \in S : e \in Runs \X Nat
    BY DEF PInv, EventInv
  <2> QED BY <2>1, <2>2 DEF PInv, ReaderInv, LiveInv, TriesFit, PageRecord, Spent, PageTypeOK
<1> QED BY <1>1, PageInvariance, PTL

\* The slot's turns never overlap under an open page either, whose prompt begins a
\* run and attaches to it in one step.
THEOREM PageKeepsSingleFlight == PageSpec => []SingleFlight
<1>1. PInv => SingleFlight
  BY DEF PInv, IInv, SlotInv, StageMatchesStatus, RunningIsCurrent, SingleFlight
<1> QED BY <1>1, PageInvariance, PTL

\* Whoever is registered is a live reader, whatever is uploaded, drops, resumes, polls,
\* gives up or is stopped; and until an upload or the end of the shared connection the
\* conversation has no other reader and is locked exactly while it has this one.
THEOREM OneReaderAtATime == PageSpec => []OneReader
<1>1. PInv => OneReader
  BY DEF PInv, ReaderInv, LiveInv, RefIsLive, OnlyReader, Alone, OneReader
<1> QED BY <1>1, PageInvariance, PTL

\* However often its reader drops and comes back, and whatever is restarted, no event
\* of a run that began after the last prompt is shown twice.
THEOREM OwnRunIsShownOnce == PageSpec => []OwnRunShownOnce
<1>1. PInv => OwnRunShownOnce
  BY DEF PInv, EventInv
<1> QED BY <1>1, PageInvariance, PTL

-----------------------------------------------------------------------------
(* One process: the steps of the page as the dedup can tell them apart.      *)

InBuffer(r, n) == sess[r].seq - Len(sess[r].events) < n /\ n <= sess[r].seq

TurnGoesOn ==
  /\ UNCHANGED slot /\ UNCHANGED pageVars
  /\ Len(sess') = Len(sess) /\ Runs' = Runs
  /\ \A r \in Runs : Grows(r) /\ sess'[r].seq \in Nat /\ Len(sess'[r].events) \in Nat
  /\ \A a \in Attachments : SamePlace(a)

RunBegins ==
  /\ Begin(FALSE)
  /\ page' = page /\ UNCHANGED events
  /\ \A a \in Attachments :
       \/ att'[a] = att[a] /\ reader'[a] = reader[a]
       \/ /\ att'[a].state = "resolved" /\ att'[a].run = Len(sess) + 1
          /\ reader[a] = "posting"

\* Nothing is shown and no log changes; at most a connection goes away.
Quiet ==
  /\ UNCHANGED <<sess, slot, events>> /\ SameMarks
  /\ \A a \in Attachments : /\ att'[a] = att[a] \/ att'[a].state = "idle"
                            /\ reader'[a] \in {"posting", "post"} => reader[a] = reader'[a]

LEMMA KindsFrame ==
  ASSUME LiveInv, NEW a \in Attachments, NEW p, NEW ended,
         Leave(ended, p) \/ Attempt(a, p) \/ StreamRun(a, p) \/ Join(a, p)
  PROVE  \A b \in Attachments : reader'[b] \in {"posting", "post"} => reader[b] = reader'[b]
<1>1. reader \in [Attachments -> ReaderKinds]
  BY DEF LiveInv
<1>2. ASSUME NEW q, NEW e, Leave(e, q)
      PROVE  \A b \in Attachments : reader'[b] \in {"posting", "post"} => reader[b] = reader'[b]
  BY <1>2 DEF Leave
<1>3. ASSUME NEW q, Attempt(a, q)
      PROVE  \A b \in Attachments : reader'[b] \in {"posting", "post"} => reader[b] = reader'[b]
  BY <1>1, <1>2, <1>3 DEF Attempt
<1>4. ASSUME NEW q, StreamRun(a, q)
      PROVE  \A b \in Attachments : reader'[b] \in {"posting", "post"} => reader[b] = reader'[b]
  BY <1>1, <1>3, <1>4 DEF StreamRun
<1> QED BY <1>2, <1>3, <1>4 DEF Join

\* The shapes of a coroutine's steps.
LEMMA ReaderStepShapes ==
  ASSUME IInv, LiveInv, NEW a \in Attachments, ReaderStep(a)
  PROVE  \/ RunBegins \/ Quiet
         \/ Uploaded(a) \/ HubResolve(a) \/ LegacyResolve(a) \/ Open(a) \/ Receive(a)
         \/ (StreamEnds(a) /\ UNCHANGED pageVars)
<1>0. reader \in [Attachments -> ReaderKinds] /\ att \in [Attachments -> AttachmentType]
  BY DEF LiveInv, IInv, SlotInv, TypeOK
<1>1. CASE PostAccepted(a)
  <2> DEFINE d == [Detached EXCEPT !.state = "resolved", !.run = Len(sess) + 1]
  <2>1. /\ reader[a] = "posting" /\ Begin(FALSE) /\ page' = page /\ UNCHANGED events
        /\ att' = [att EXCEPT ![a] = d] /\ reader' = [reader EXCEPT ![a] = "post"]
    BY <1>1 DEF PostAccepted
  <2>2. d.state = "resolved" /\ d.run = Len(sess) + 1
    BY DEF Detached
  <2> HIDE DEF d
  <2>3. /\ att'[a] = d
        /\ \A b \in Attachments : b # a => att'[b] = att[b] /\ reader'[b] = reader[b]
    BY <1>0, <2>1
  <2> QED BY <2>1, <2>2, <2>3 DEF RunBegins
<1>2. ASSUME ~PostAccepted(a), ~Uploaded(a), ~HubResolve(a), ~LegacyResolve(a), ~Open(a),
             ~Receive(a), ~(StreamEnds(a) /\ UNCHANGED pageVars)
      PROVE  Quiet
  <2>1. SameMarks /\ UNCHANGED events
    BY <1>2, ReaderStepFrame
  <2>2. ASSUME UNCHANGED vars \/ (UNCHANGED server /\ att'[a].state = "idle"
                                    /\ \A b \in Attachments : b # a => att'[b] = att[b]),
               \A b \in Attachments : reader'[b] \in {"posting", "post"} => reader[b] = reader'[b]
        PROVE  Quiet
    BY <2>1, <2>2 DEF Quiet, vars, server
  <2>3. CASE UploadFails(a)
    BY <1>0, <2>2, <2>3 DEF UploadFails
  <2>4. CASE PostRefused(a) \/ PostLost(a) \/ NoRun(a) \/ Wakes(a)
    <3>1. UNCHANGED vars /\ (Leave({a}, page) \/ StreamRun(a, page) \/ Attempt(a, page))
      BY <2>4 DEF PostRefused, PostLost, NoRun, Wakes, Finish
    <3> QED BY <2>2, <3>1, KindsFrame
  <2>5. CASE Told(a)
    <3>1. Detach(a) /\ Leave({a}, page)
      BY <2>5 DEF Told, Finish
    <3>2. UNCHANGED server
      BY <3>1 DEF Detach, server
    <3> QED BY <2>2, <3>1, <3>2, OneConnection, KindsFrame
  <2>6. CASE ConnectionLost(a)
    <3>1. Breaks(a) /\ (StreamRun(a, page) \/ UNCHANGED reader)
      BY <2>6 DEF ConnectionLost, coroutine
    <3> QED BY <2>2, <3>1, BreaksFacts, KindsFrame
  <2>7. CASE AttemptFails(a)
    <3>1. Breaks(a) \/ UNCHANGED vars
      BY <2>7 DEF AttemptFails
    <3>2. reader' = [reader EXCEPT ![a] = "asleep"] \/ Leave({a}, page)
      BY <2>7 DEF AttemptFails, Finish
    <3>3. \A b \in Attachments : reader'[b] \in {"posting", "post"} => reader[b] = reader'[b]
      BY <1>0, <3>2, KindsFrame
    <3> QED BY <2>2, <3>1, <3>3, BreaksFacts
  <2> QED BY <1>2, <2>3, <2>4, <2>5, <2>6, <2>7 DEF ReaderStep
<1> QED BY <1>1, <1>2

LEMMA StepShapes ==
  ASSUME MaxRestarts = 0, IInv, LiveInv, PageNext, IInv'
  PROVE  \/ TurnGoesOn \/ RunBegins \/ Quiet \/ NewConversation
         \/ \E a \in Attachments :
              \/ Send(a) \/ Uploaded(a) \/ HubResolve(a) \/ LegacyResolve(a) \/ Open(a)
              \/ Receive(a) \/ (StreamEnds(a) /\ UNCHANGED pageVars)
<1>0. reader \in [Attachments -> ReaderKinds] /\ att \in [Attachments -> AttachmentType]
  BY DEF LiveInv, IInv, SlotInv, TypeOK
<1>1. CASE RunStep /\ UNCHANGED pageVars
  <2>1. CASE TryBeginRun(FALSE)
    BY <1>1, <2>1 DEF TryBeginRun, RunBegins, pageVars, coroutine
  <2>2. ASSUME NEW r \in Runs, CliLine(r, "text") \/ CliExit(r, 0) \/ Complete(r) PROVE TurnGoesOn
    <3>1. /\ UNCHANGED slot /\ Len(sess') = Len(sess) /\ Runs' = Runs
          /\ \A q \in Runs : Grows(q)
          /\ \A a \in Attachments : SamePlace(a)
      BY <2>2, TurnFrame
    <3>2. \A q \in Runs : sess'[q] \in SessionType
      BY <3>1, ElementOfSeq DEF IInv, SlotInv, TypeOK, Runs
    <3>3. \A q \in Runs : sess'[q].seq \in Nat /\ Len(sess'[q].events) \in Nat
      BY <3>2 DEF SessionType
    <3> QED BY <1>1, <3>1, <3>3 DEF TurnGoesOn
  <2>3. ~Restart
    <3>1. restarts \in Nat
      BY DEF IInv, SlotInv, TypeOK
    <3>2. Restart => restarts < MaxRestarts
      BY DEF Restart
    <3> QED BY <3>1, <3>2
  <2> QED BY <1>1, <2>1, <2>2, <2>3 DEF RunStep
<1>2. ASSUME NEW a \in Attachments, ReaderStep(a)
      PROVE  \/ RunBegins \/ Quiet
             \/ Uploaded(a) \/ HubResolve(a) \/ LegacyResolve(a) \/ Open(a) \/ Receive(a)
             \/ (StreamEnds(a) /\ UNCHANGED pageVars)
  BY <1>2, ReaderStepShapes
<1>3. ASSUME NEW a \in Attachments, Upload(a) \/ Reconcile(a) \/ Loaded(a) PROVE Quiet
  <2>1. SameMarks /\ UNCHANGED events /\ UNCHANGED vars
    BY <1>3, OthersFrame
  <2>2. \/ reader' = [reader EXCEPT ![a] = "uploading"] \/ UNCHANGED reader
        \/ \E p : Join(a, p)
    BY <1>3 DEF Upload, Reconcile, Loaded, coroutine
  <2>3. \A b \in Attachments : reader'[b] \in {"posting", "post"} => reader[b] = reader'[b]
    BY <1>0, <2>2, KindsFrame
  <2> QED BY <2>1, <2>3 DEF Quiet, vars
<1>4. CASE HubFails
  <2>1. /\ \A b \in Attachments : reader'[b] \in {"posting", "post"} => reader[b] = reader'[b]
        /\ UNCHANGED server
    BY <1>4, KindsFrame DEF HubFails, coroutine, Leave
  <2>2. \A b \in Attachments : att'[b] = att[b] \/ att'[b].state = "idle"
    BY <1>4 DEF HubFails, Detached
  <2> QED BY <1>4, <2>1, <2>2, AsideFrame DEF Quiet, server
<1>5. CASE PressStop
  <2>1. UNCHANGED server
    BY <1>5 DEF PressStop
  <2>2. \/ UNCHANGED <<att, reader>>
        \/ att' = [att EXCEPT ![page.abortRef] = Detached] /\ \E p : Leave({page.abortRef}, p)
    BY <1>5 DEF PressStop, AbortReader, coroutine
  <2>3. \A b \in Attachments : /\ att'[b] = att[b] \/ att'[b].state = "idle"
                               /\ reader'[b] \in {"posting", "post"} => reader[b] = reader'[b]
    BY <1>0, <2>2, KindsFrame DEF Detached
  <2> QED BY <1>5, <2>1, <2>3, AsideFrame DEF Quiet, server
<1>6. CASE Poll
  BY <1>6, AsideFrame DEF Poll, Quiet, vars, coroutine
<1> QED BY <1>1, <1>2, <1>3, <1>4, <1>5, <1>6 DEF PageNext

\* The registry holds the newest session, and the seqs of a later run count on.
CountsOn ==
  /\ slot = Len(sess)
  /\ \A r, q \in Runs : r < q => sess[r].seq <= sess[q].start

LEMMA CountsUnderPage ==
  ASSUME MaxRestarts = 0, IInv, LiveInv, CountsOn, PageNext, IInv'
  PROVE  CountsOn'
<1>1. ASSUME UNCHANGED <<sess, slot>> PROVE CountsOn'
  BY <1>1 DEF CountsOn, Runs
<1>2. CASE TurnGoesOn
  BY <1>2, SlotFacts DEF CountsOn, TurnGoesOn, Grows
<1>3. CASE RunBegins
  <2> DEFINE n0 == Len(sess) + 1
             start == IF slot = 0 THEN 0 ELSE sess[slot].seq
  <2>1. /\ Len(sess) \in Nat /\ Runs = 1..Len(sess) /\ slot = Len(sess)
        /\ n0 \in Nat /\ Len(sess') = n0 /\ Runs' = 1..n0 /\ slot' = n0
        /\ \A r \in Runs : sess'[r] = sess[r] /\ r < n0
        /\ \A r \in Runs' : r \in Runs \/ r = n0
    BY <1>3, SlotFacts, BeginFrame DEF CountsOn, RunBegins
  <2>2. sess'[n0].seq = start /\ sess'[n0].start = start
    BY <1>3, SlotFacts, BeginFrame DEF RunBegins
  <2>3. \A r \in Runs : sess[r].seq <= start
    BY <2>1, SlotFacts DEF CountsOn
  <2> HIDE DEF n0, start
  <2> QED BY <2>1, <2>2, <2>3 DEF CountsOn
<1>4. ASSUME NEW a \in Attachments,
             \/ Send(a) \/ Uploaded(a) \/ HubResolve(a) \/ LegacyResolve(a) \/ Open(a)
             \/ Receive(a) \/ StreamEnds(a)
      PROVE  UNCHANGED <<sess, slot>>
  BY <1>4 DEF Send, Uploaded, Prompt, HubResolve, LegacyResolve, Open, Receive, StreamEnds,
              Resolve, Attach, Deliver, vars
<1>5. CASE Quiet \/ NewConversation
  BY <1>1, <1>5 DEF Quiet, NewConversation, server
<1> QED BY <1>1, <1>2, <1>3, <1>4, <1>5, StepShapes
-----------------------------------------------------------------------------
(* One process and one reader: the dedup drops nothing that is not shown, and *)
(* a reader that is told of the end has shown its run.  The argument is about *)
(* the place of the mark.                                                     *)

\* The runs that the conversation reads, or can still come to read.
InReach(r) == r = slot \/ \E a \in Attachments : att[a].state # "idle" /\ att[a].run = r

\* The mark is within the log of every run in reach, ...
MarkWithinLog ==
  /\ slot = 0 => page.mark = 0
  /\ \A r \in Runs : InReach(r) => page.mark <= sess[r].seq

\* ... it is 0 until the response of a prompt is opened, ...
FreshMark ==
  \A a \in Attachments :
    (reader[a] = "posting" \/ (reader[a] = "post" /\ att[a].state = "resolved")) => page.mark = 0

\* ... no stream is behind it, ...
MarkBelowStream ==
  \A a \in Attachments : att[a].state \in {"open", "ended"} => page.mark <= att[a].last

\* ... and whatever is still buffered up to it, or up to a stream's place, is shown.
MarkIsShown ==
  \A r \in Runs : InReach(r) =>
    \A n \in Nat : (InBuffer(r, n) /\ n <= page.mark) => <<r, n>> \in shown

StreamIsShown ==
  \A a \in Attachments : att[a].state \in {"open", "ended"} =>
    \A n \in Nat : (InBuffer(att[a].run, n) /\ n <= att[a].last) => <<att[a].run, n>> \in shown

NoneSkipped == skipped = {}

OneMarkInv ==
  /\ MarkWithinLog
  /\ FreshMark
  /\ MarkBelowStream
  /\ MarkIsShown
  /\ StreamIsShown
  /\ NoneSkipped

\* A page that has its one reader reads nothing else.
LEMMA OthersAreIdle ==
  ASSUME LiveInv, Alone, NEW a \in Attachments, reader[a] # "none"
  PROVE  page.abortRef = a
         /\ \A b \in Attachments : b # a => reader[b] = "none" /\ att[b].state = "idle"
BY KindFacts DEF LiveInv, Alone, QuietUnlessReading

\* Without a reader, nothing is attached.
LEMMA NobodyReads ==
  ASSUME LiveInv, Alone, page.abortRef = Nobody
  PROVE  \A b \in Attachments : reader[b] = "none" /\ att[b].state = "idle"
BY PageAssumption, KindFacts DEF LiveInv, Alone, QuietUnlessReading

\* Steps of the page that, at most, take an attachment away.
LEMMA MarksStay ==
  ASSUME OneMarkInv, UNCHANGED <<sess, slot, shown, skipped>>, page'.mark = page.mark,
         \A a \in Attachments :
           /\ att'[a] = att[a] \/ att'[a].state = "idle"
           /\ reader'[a] = "posting" => reader[a] = "posting"
           /\ reader'[a] = "post" => reader[a] = "post"
  PROVE  OneMarkInv'
<1>1. Runs' = Runs
  BY DEF Runs
<1>2. \A r \in Runs : InReach(r)' => InReach(r)
  BY DEF InReach
<1>3. \A r, n : InBuffer(r, n)' <=> InBuffer(r, n)
  BY DEF InBuffer
<1>4. NoneSkipped'
  BY DEF OneMarkInv, NoneSkipped
<1>5. MarkWithinLog'
  BY <1>1, <1>2 DEF OneMarkInv, MarkWithinLog
<1>6. FreshMark'
  BY DEF OneMarkInv, FreshMark
<1>7. MarkBelowStream'
  BY DEF OneMarkInv, MarkBelowStream
<1>8. MarkIsShown'
  BY <1>1, <1>2, <1>3 DEF OneMarkInv, MarkIsShown
<1>9. StreamIsShown'
  <2> SUFFICES ASSUME NEW a \in Attachments, att'[a].state \in {"open", "ended"}, NEW n \in Nat,
                      NEW r, r = att'[a].run, InBuffer(r, n)', n <= att'[a].last
               PROVE  <<r, n>> \in shown
    BY DEF StreamIsShown, InBuffer
  <2>1. att'[a] = att[a] /\ r = att[a].run
    OBVIOUS
  <2>2. InBuffer(r, n)
    BY DEF InBuffer
  <2> QED BY <2>1, <2>2 DEF OneMarkInv, StreamIsShown
<1> QED BY <1>4, <1>5, <1>6, <1>7, <1>8, <1>9 DEF OneMarkInv

\* Steps of a running turn: logs grow above the mark and above every stream's place.
LEMMA TurnMarks ==
  ASSUME IInv, OneMarkInv, page.mark \in Nat, TurnGoesOn
  PROVE  OneMarkInv'
<1>0. /\ UNCHANGED slot /\ UNCHANGED pageVars /\ Len(sess') = Len(sess) /\ Runs' = Runs
      /\ \A r \in Runs : Grows(r) /\ sess'[r].seq \in Nat /\ Len(sess'[r].events) \in Nat
      /\ \A a \in Attachments : SamePlace(a)
  BY DEF TurnGoesOn
<1>1. \A r \in Runs : InReach(r)' <=> InReach(r)
  BY <1>0 DEF InReach, SamePlace
<1>2. ASSUME NEW r \in Runs, NEW n \in Nat, n <= sess[r].seq, InBuffer(r, n)' PROVE InBuffer(r, n)
  BY <1>0, <1>2, SlotFacts DEF InBuffer, Grows
<1>4. MarkWithinLog'
  BY <1>0, <1>1, SlotFacts DEF OneMarkInv, MarkWithinLog, Grows, pageVars
<1>5. FreshMark' /\ MarkBelowStream' /\ NoneSkipped'
  BY <1>0 DEF OneMarkInv, FreshMark, MarkBelowStream, NoneSkipped, pageVars, coroutine, events,
                  SamePlace
<1>6. MarkIsShown'
  <2> SUFFICES ASSUME NEW r \in Runs, InReach(r)', NEW n \in Nat, InBuffer(r, n)', n <= page'.mark
               PROVE  <<r, n>> \in shown'
    BY <1>0 DEF MarkIsShown
  <2>1. n <= page.mark /\ page.mark <= sess[r].seq /\ InReach(r)
    BY <1>0, <1>1 DEF OneMarkInv, MarkWithinLog, pageVars
  <2>2. InBuffer(r, n)
    BY <1>2, <2>1, SlotFacts
  <2> QED BY <1>0, <2>1, <2>2 DEF OneMarkInv, MarkIsShown, pageVars, events
<1>7. StreamIsShown'
  <2> SUFFICES ASSUME NEW a \in Attachments, att'[a].state \in {"open", "ended"}, NEW n \in Nat,
                      NEW r, r = att'[a].run, InBuffer(r, n)', n <= att'[a].last
               PROVE  <<r, n>> \in shown'
    BY DEF StreamIsShown, InBuffer
  <2>1. /\ att[a].state \in {"open", "ended"} /\ att'[a].run = att[a].run
        /\ att'[a].last = att[a].last
    BY <1>0 DEF SamePlace
  <2>2. r \in Runs /\ r = att[a].run
    BY <2>1, SlotFacts
  <2>3. att[a].last <= sess[r].seq /\ att[a].last \in Nat
    BY <2>1, <2>2, SlotFacts DEF IInv, DeliveryIsExact
  <2>5. InBuffer(r, n)
    BY <1>2, <2>1, <2>2, <2>3, SlotFacts
  <2> QED BY <1>0, <2>1, <2>2, <2>5 DEF OneMarkInv, StreamIsShown, pageVars, events
<1> QED BY <1>4, <1>5, <1>6, <1>7 DEF OneMarkInv

\* A new run begins where the one before ended, which is not below the mark.
LEMMA BeginMarks ==
  ASSUME IInv, CountsOn, OneMarkInv, page.mark \in Nat, RunBegins
  PROVE  OneMarkInv'
<1>0. Begin(FALSE) /\ page' = page /\ shown' = shown /\ skipped' = skipped
  BY DEF RunBegins, events
<1> DEFINE n0 == Len(sess) + 1
<1>1. /\ Len(sess) \in Nat /\ Runs = 1..Len(sess) /\ slot = Len(sess)
      /\ n0 \in Nat /\ Len(sess') = n0 /\ Runs' = 1..n0 /\ slot' = n0
      /\ \A r \in Runs : sess'[r] = sess[r] /\ r < n0 /\ r \in Runs'
      /\ \A r \in Runs' : r \in Runs \/ r = n0
  BY <1>0, SlotFacts, BeginFrame DEF CountsOn
<1> DEFINE start == IF slot = 0 THEN 0 ELSE sess[slot].seq
<1>2. /\ sess'[n0].seq = start /\ sess'[n0].start = start /\ sess'[n0].events = <<>>
      /\ start \in Nat
  BY <1>0, SlotFacts, BeginFrame
<1>3. \A r \in Runs : sess[r].seq <= start
  <2> SUFFICES ASSUME NEW r \in Runs PROVE sess[r].seq <= sess[slot].seq
    BY <1>1
  <2>1. slot \in Runs /\ (r < slot => sess[r].seq <= sess[slot].start) /\ (r < slot \/ r = slot)
    BY <1>1 DEF CountsOn
  <2>2. /\ sess[slot].start \in Nat /\ sess[slot].seq \in Nat /\ sess[r].seq \in Nat
        /\ sess[slot].start <= sess[slot].seq
    BY <2>1, SlotFacts
  <2> QED BY <2>1, <2>2
<1>4. page.mark <= start
  BY <1>1, SlotFacts DEF OneMarkInv, MarkWithinLog, InReach
<1> HIDE DEF n0, start
<1>6. \A a \in Attachments :
        \/ att'[a] = att[a] /\ reader'[a] = reader[a]
        \/ att'[a].state = "resolved" /\ att'[a].run = n0 /\ page.mark = 0
  BY DEF n0, OneMarkInv, FreshMark, RunBegins
<1>7. \A r \in Runs : InReach(r)' => InReach(r)
  BY <1>1, <1>6 DEF InReach
<1>8. ASSUME NEW r \in Runs', r = n0, NEW n \in Nat PROVE ~InBuffer(r, n)'
  <2>1. Len(sess'[r].events) = 0 /\ sess'[r].seq \in Nat
    BY <1>2, <1>8, EmptySeq
  <2> QED BY <2>1 DEF InBuffer
<1>9. \A r \in Runs : \A n \in Nat : InBuffer(r, n)' <=> InBuffer(r, n)
  BY <1>1 DEF InBuffer
<1>10. MarkWithinLog'
  BY <1>0, <1>1, <1>2, <1>4, <1>7 DEF OneMarkInv, MarkWithinLog
<1>11. FreshMark'
  BY <1>0, <1>6 DEF OneMarkInv, FreshMark
<1>12. MarkBelowStream' /\ NoneSkipped'
  BY <1>0, <1>6 DEF OneMarkInv, MarkBelowStream, NoneSkipped
<1>13. MarkIsShown'
  <2> SUFFICES ASSUME NEW r \in Runs', InReach(r)', NEW n \in Nat, InBuffer(r, n)',
                      n <= page.mark
               PROVE  <<r, n>> \in shown
    BY <1>0 DEF MarkIsShown
  <2>1. r \in Runs
    BY <1>1, <1>8
  <2>2. InReach(r) /\ InBuffer(r, n)
    BY <1>7, <1>9, <2>1
  <2> QED BY <2>1, <2>2 DEF OneMarkInv, MarkIsShown
<1>14. StreamIsShown'
  <2> SUFFICES ASSUME NEW a \in Attachments, att'[a].state \in {"open", "ended"}, NEW n \in Nat,
                      NEW r, r = att'[a].run, InBuffer(r, n)', n <= att'[a].last
               PROVE  <<r, n>> \in shown
    BY <1>0 DEF StreamIsShown, InBuffer
  <2>1. att'[a] = att[a]
    BY <1>6
  <2>2. r \in Runs /\ r = att[a].run
    BY <2>1, SlotFacts
  <2>4. InBuffer(r, n)
    BY <1>9, <2>2
  <2> QED BY <2>1, <2>2, <2>4 DEF OneMarkInv, StreamIsShown
<1> QED BY <1>10, <1>11, <1>12, <1>13, <1>14 DEF OneMarkInv

\* A subscription that is resolved reads the newest run.
LEMMA ResolveMarks ==
  ASSUME IInv, LiveInv, Alone, CountsOn, OneMarkInv, NEW a \in Attachments, HubResolve(a)
  PROVE  OneMarkInv'
<1>1. /\ reader[a] = "hub" /\ slot # 0 /\ UNCHANGED <<sess, slot, pageVars>>
      /\ att' = [att EXCEPT ![a] = [Detached EXCEPT !.state = "resolved", !.run = slot]]
  BY DEF HubResolve, Resolve
<1>2. att \in [Attachments -> AttachmentType]
  BY DEF IInv, SlotInv, TypeOK
<1>3. /\ att'[a].state = "resolved" /\ att'[a].run = slot
      /\ \A b \in Attachments : b # a => att'[b] = att[b]
  BY <1>1, <1>2 DEF Detached
<1>4. UNCHANGED <<reader, page, shown, skipped>> /\ Runs' = Runs
      /\ reader[a] # "post" /\ reader[a] # "posting"
  BY <1>1 DEF pageVars, coroutine, events, Runs
<1>5. \A r \in Runs : InReach(r)' => InReach(r)
  BY <1>1, <1>3 DEF InReach
<1>6. \A r, n : InBuffer(r, n)' <=> InBuffer(r, n)
  BY <1>1 DEF InBuffer
<1>7. MarkWithinLog' /\ NoneSkipped'
  BY <1>1, <1>4, <1>5 DEF OneMarkInv, MarkWithinLog, NoneSkipped
<1>8. FreshMark' /\ MarkBelowStream'
  BY <1>3, <1>4 DEF OneMarkInv, FreshMark, MarkBelowStream
<1>9. MarkIsShown'
  BY <1>4, <1>5, <1>6 DEF OneMarkInv, MarkIsShown
<1>10. StreamIsShown'
  <2> SUFFICES ASSUME NEW b \in Attachments, att'[b].state \in {"open", "ended"}, NEW n \in Nat,
                      NEW r, r = att'[b].run, InBuffer(r, n)', n <= att'[b].last
               PROVE  <<r, n>> \in shown
    BY <1>4 DEF StreamIsShown, InBuffer
  <2>1. att'[b] = att[b]
    BY <1>3
  <2> QED BY <1>6, <2>1 DEF OneMarkInv, StreamIsShown
<1> QED BY <1>7, <1>8, <1>9, <1>10 DEF OneMarkInv

\* A stream that ends has handed over everything, and stays where it is.
LEMMA EndMarks ==
  ASSUME IInv, OneMarkInv, NEW a \in Attachments, StreamEnds(a), UNCHANGED pageVars
  PROVE  OneMarkInv'
<1>1. att \in [Attachments -> AttachmentType]
  BY DEF IInv, SlotInv, TypeOK
<1>2. /\ UNCHANGED <<sess, slot>> /\ att[a].state = "open"
      /\ att'[a].state = "ended" /\ att'[a].run = att[a].run /\ att'[a].last = att[a].last
      /\ \A b \in Attachments : b # a => att'[b] = att[b]
  BY <1>1 DEF StreamEnds, AttachmentType
<1>3. UNCHANGED <<reader, page, shown, skipped>> /\ Runs' = Runs
  BY <1>2 DEF pageVars, coroutine, events, Runs
<1>4. \A r \in Runs : InReach(r)' => InReach(r)
  BY <1>2 DEF InReach
<1>5. \A r, n : InBuffer(r, n)' <=> InBuffer(r, n)
  BY <1>2 DEF InBuffer
<1>6. MarkWithinLog' /\ NoneSkipped'
  BY <1>2, <1>3, <1>4 DEF OneMarkInv, MarkWithinLog, NoneSkipped
<1>7. FreshMark' /\ MarkBelowStream'
  BY <1>2, <1>3 DEF OneMarkInv, FreshMark, MarkBelowStream
<1>8. MarkIsShown'
  BY <1>3, <1>4, <1>5 DEF OneMarkInv, MarkIsShown
<1>9. StreamIsShown'
  <2> SUFFICES ASSUME NEW b \in Attachments, att'[b].state \in {"open", "ended"}, NEW n \in Nat,
                      NEW r, r = att'[b].run, InBuffer(r, n)', n <= att'[b].last
               PROVE  <<r, n>> \in shown
    BY <1>3 DEF StreamIsShown, InBuffer
  <2>1. att[b].state \in {"open", "ended"} /\ att'[b].run = att[b].run /\ att'[b].last = att[b].last
    BY <1>2
  <2> QED BY <1>5, <2>1 DEF OneMarkInv, StreamIsShown
<1> QED BY <1>6, <1>7, <1>8, <1>9 DEF OneMarkInv

\* Where a stream begins: at the mark, or above it where the buffer does.
LEMMA OpenPlace ==
  ASSUME IInv, LiveInv, Alone, CountsOn, OneMarkInv, NEW a \in Attachments, Open(a)
  PROVE  /\ att[a].state = "resolved" /\ att[a].run \in Runs
         /\ UNCHANGED <<sess, slot, pageVars>>
         /\ att'[a].state = "open" /\ att'[a].run = att[a].run
         /\ \A b \in Attachments : b # a => att'[b] = att[b]
         /\ page.mark <= att'[a].last
         /\ \/ att'[a].last <= page.mark
            \/ att'[a].last = sess[att[a].run].seq - Len(sess[att[a].run].events)
<1> DEFINE r == att[a].run
           s == sess[r]
           d == Opened(r, After(a))
           replay == Replay(s.events, After(a))
<1>1. /\ reader[a] \in Reading /\ att[a].state = "resolved" /\ att' = [att EXCEPT ![a] = d]
      /\ UNCHANGED <<sess, slot, pageVars>>
  BY DEF Open, Attach
<1>2. r \in Runs /\ s \in SessionType /\ IsTail(s) /\ s.seq \in Nat /\ Len(s.events) \in Nat
      /\ att \in [Attachments -> AttachmentType]
  BY <1>1, SlotFacts DEF IInv, SlotInv, TypeOK
<1>3. page.mark \in Nat /\ After(a) = page.mark
  BY <1>1 DEF LiveInv, PageRecord, After, OneMarkInv, FreshMark
<1>4. page.mark <= s.seq
  BY <1>1, <1>2 DEF OneMarkInv, MarkWithinLog, InReach
<1>5. PICK floor \in Nat :
        /\ floor <= s.seq /\ Len(replay) = s.seq - floor
        /\ page.mark <= s.seq => page.mark <= floor
        /\ floor <= page.mark \/ floor = s.seq - Len(s.events)
  BY <1>2, <1>3, ReplayIsTail
<1>6. d.state = "open" /\ d.run = r /\ d.last = s.seq - Len(replay)
  BY DEF Opened
<1>7. d.last = floor
  BY <1>2, <1>5, <1>6
<1> HIDE DEF d, replay
<1>8. att'[a] = d /\ \A b \in Attachments : b # a => att'[b] = att[b]
  BY <1>1, <1>2
<1> QED BY <1>1, <1>2, <1>4, <1>5, <1>6, <1>7, <1>8

LEMMA OpenMarks ==
  ASSUME IInv, LiveInv, Alone, CountsOn, OneMarkInv, NEW a \in Attachments, Open(a)
  PROVE  OneMarkInv'
<1>1. /\ att[a].state = "resolved" /\ att[a].run \in Runs
      /\ UNCHANGED <<sess, slot, pageVars>>
      /\ att'[a].state = "open" /\ att'[a].run = att[a].run
      /\ \A b \in Attachments : b # a => att'[b] = att[b]
      /\ page.mark <= att'[a].last
      /\ \/ att'[a].last <= page.mark
         \/ att'[a].last = sess[att[a].run].seq - Len(sess[att[a].run].events)
  BY OpenPlace
<1>2. UNCHANGED <<reader, page, shown, skipped>> /\ Runs' = Runs
  BY <1>1 DEF pageVars, coroutine, events, Runs
<1>3. \A r \in Runs : InReach(r)' => InReach(r)
  BY <1>1 DEF InReach
<1>4. \A r, n : InBuffer(r, n)' <=> InBuffer(r, n)
  BY <1>1 DEF InBuffer
<1>5. MarkWithinLog' /\ NoneSkipped'
  BY <1>1, <1>2, <1>3 DEF OneMarkInv, MarkWithinLog, NoneSkipped
<1>6. FreshMark' /\ MarkBelowStream'
  BY <1>1, <1>2 DEF OneMarkInv, FreshMark, MarkBelowStream
<1>7. MarkIsShown'
  BY <1>2, <1>3, <1>4 DEF OneMarkInv, MarkIsShown
<1>8. StreamIsShown'
  <2> SUFFICES ASSUME NEW b \in Attachments, att'[b].state \in {"open", "ended"}, NEW n \in Nat,
                      NEW r, r = att'[b].run, InBuffer(r, n)', n <= att'[b].last
               PROVE  <<r, n>> \in shown
    BY <1>2 DEF StreamIsShown, InBuffer
  <2>1. CASE b # a
    BY <1>1, <1>4, <2>1 DEF OneMarkInv, StreamIsShown
  <2>2. CASE b = a
    <3>1. r \in Runs /\ r = att[a].run /\ InReach(r) /\ InBuffer(r, n)
      BY <1>1, <1>4, <2>2 DEF InReach
    <3>2. page.mark \in Nat /\ sess[r].seq \in Nat /\ Len(sess[r].events) \in Nat
      BY <3>1, SlotFacts DEF LiveInv, PageRecord
    <3>3. sess[r].seq - Len(sess[r].events) < n
      BY <3>1 DEF InBuffer
    <3>4. n <= page.mark
      <4>1. CASE att'[a].last <= page.mark
        <5>1. att'[a].last = page.mark
          <6>1. IInv'
            <7>1. After(a) \in Nat
              BY <3>2 DEF After
            <7> QED BY <7>1, AttachmentInv DEF Open
          <6>2. att'[a].last \in Nat
            BY <6>1 DEF IInv, SlotInv, TypeOK, AttachmentType
          <6> QED BY <1>1, <3>2, <4>1, <6>2
        <5> QED BY <2>2, <5>1
      <4>2. CASE att'[a].last = sess[r].seq - Len(sess[r].events)
        BY <2>2, <3>2, <3>3, <4>2
      <4> QED BY <1>1, <3>1, <4>1, <4>2
    <3> QED BY <3>1, <3>4 DEF OneMarkInv, MarkIsShown
  <2> QED BY <2>1, <2>2
<1> QED BY <1>5, <1>6, <1>7, <1>8 DEF OneMarkInv

\* An event that is received is the next one above the mark: it is shown, and the
\* mark and the stream's place move to it together.
LEMMA ReceiveMarks ==
  ASSUME IInv, LiveInv, Alone, CountsOn, OneMarkInv, NEW a \in Attachments, Receive(a)
  PROVE  OneMarkInv'
<1> DEFINE r == att[a].run
           n == att[a].last + 1
<1>1. Deliver(a) /\ reader[a] \in Reading /\ UNCHANGED <<reader, used>>
  BY DEF Receive, coroutine
<1>2. /\ att[a].state = "open" /\ r \in Runs /\ UNCHANGED <<sess, slot>>
      /\ Head(att[a].pending) = n /\ n <= sess[r].seq
      /\ att'[a].state = "open" /\ att'[a].run = r /\ att'[a].last = n
      /\ \A b \in Attachments : b # a => att'[b] = att[b]
  BY <1>1, DeliverFacts
<1>3. page.mark <= att[a].last /\ att[a].last \in Nat /\ n \in Nat /\ page.mark \in Nat
      /\ page \in PageRecord
  BY <1>2, SlotFacts DEF OneMarkInv, MarkBelowStream, LiveInv, PageRecord
<1>4. /\ \E prompt \in BOOLEAN :
           page' = [page EXCEPT !.mark = n, !.streaming = page.streaming \/ prompt]
      /\ shown' = shown \cup {<<r, n>>} /\ UNCHANGED skipped
  <2>1. ~(n <= page.mark)
    BY <1>3
  <2> QED BY <1>2, <2>1 DEF Receive
<1>5. page'.mark = n
  BY <1>3, <1>4 DEF PageRecord
<1>6. \A m \in Nat : m <= n => m <= att[a].last \/ m = n
  BY <1>3
<1>7. Runs' = Runs /\ Runs = 1..Len(sess) /\ Len(sess) \in Nat /\ slot = Len(sess) /\ slot \in Runs
  BY <1>2, SlotFacts DEF Runs, CountsOn
<1>8. \A b \in Attachments : b # a => reader[b] = "none" /\ att[b].state = "idle"
  BY <1>1, OthersAreIdle DEF Reading
<1>9. n <= sess[slot].seq /\ (r # slot => n <= sess[slot].start)
  <2>1. CASE r = slot
    BY <1>2, <2>1
  <2>2. CASE r # slot
    <3>1. sess[r].seq <= sess[slot].start
      BY <1>2, <1>7, <2>2 DEF CountsOn
    <3>2. /\ sess[r].seq \in Nat /\ sess[slot].start \in Nat /\ sess[slot].seq \in Nat
          /\ sess[slot].start <= sess[slot].seq
      <4> HIDE DEF r
      <4>1. /\ sess[slot].start \in Nat /\ sess[slot].seq \in Nat
            /\ Len(sess[slot].events) \in Nat
            /\ sess[slot].start + Len(sess[slot].events) <= sess[slot].seq
        BY <1>7, SlotFacts
      <4>2. sess[r].seq \in Nat
        BY <1>2, SlotFacts
      <4> QED BY <4>1, <4>2
    <3> HIDE DEF n, r
    <3> QED BY <1>2, <1>3, <3>1, <3>2
  <2> QED BY <2>1, <2>2
<1> HIDE DEF n
<1>10. \A q \in Runs : InReach(q)' => q = slot \/ q = r
  BY <1>2, <1>8 DEF InReach
<1>11. \A q, m : InBuffer(q, m)' <=> InBuffer(q, m)
  BY <1>2 DEF InBuffer
<1> HIDE DEF r
<1>12. ASSUME NEW m \in Nat, InBuffer(r, m), m <= n PROVE <<r, m>> \in shown'
  <2>1. CASE m = n
    BY <1>4, <2>1
  <2>2. CASE m <= att[a].last
    <3>1. <<r, m>> \in shown
      BY <1>2, <1>12, <2>2 DEF OneMarkInv, StreamIsShown, r
    <3> QED BY <1>4, <3>1
  <2> QED BY <1>6, <1>12, <2>1, <2>2
<1>13. NoneSkipped'
  BY <1>4 DEF OneMarkInv, NoneSkipped
<1>14. MarkWithinLog'
  BY <1>2, <1>5, <1>7, <1>9, <1>10 DEF MarkWithinLog
<1>15. FreshMark'
  BY <1>1, <1>2, <1>8 DEF FreshMark, Reading
<1>16. MarkBelowStream'
  BY <1>2, <1>3, <1>5, <1>8 DEF MarkBelowStream
<1>17. MarkIsShown'
  <2> SUFFICES ASSUME NEW q \in Runs, InReach(q)', NEW m \in Nat, InBuffer(q, m)', m <= n
               PROVE  <<q, m>> \in shown'
    BY <1>5, <1>7 DEF MarkIsShown
  <2>1. InBuffer(q, m)
    BY <1>11
  <2>2. CASE q = r
    BY <1>12, <2>1, <2>2
  <2>3. CASE q # r
    <3>1. q = slot /\ n <= sess[q].start
      BY <1>9, <1>10, <2>3
    <3>2. sess[q].start < m
      BY <2>1, SlotFacts DEF InBuffer
    <3> QED BY <1>3, <3>1, <3>2, SlotFacts
  <2> QED BY <2>2, <2>3
<1>18. StreamIsShown'
  <2> SUFFICES ASSUME NEW b \in Attachments, att'[b].state \in {"open", "ended"}, NEW m \in Nat,
                      NEW q, q = att'[b].run, InBuffer(q, m)', m <= att'[b].last
               PROVE  <<q, m>> \in shown'
    BY DEF StreamIsShown, InBuffer
  <2>1. b = a /\ q = r /\ m <= n
    BY <1>2, <1>8
  <2> QED BY <1>11, <1>12, <2>1
<1> QED BY <1>13, <1>14, <1>15, <1>16, <1>17, <1>18 DEF OneMarkInv

\* With nothing attached the mark may start over.
LEMMA MarksReset ==
  ASSUME IInv, OneMarkInv, UNCHANGED <<sess, slot, skipped>>, page'.mark = 0,
         \A a \in Attachments : att'[a].state = "idle"
  PROVE  OneMarkInv'
<1>1. Runs' = Runs
  BY DEF Runs
<1>2. NoneSkipped' /\ FreshMark'
  BY DEF OneMarkInv, NoneSkipped, FreshMark
<1>3. MarkWithinLog' /\ MarkBelowStream' /\ StreamIsShown'
  BY <1>1, SlotFacts DEF MarkWithinLog, MarkBelowStream, StreamIsShown
<1>4. MarkIsShown'
  <2>1. ASSUME NEW r \in Runs, NEW n \in Nat, InBuffer(r, n)', n <= 0 PROVE FALSE
    BY <2>1, SlotFacts DEF InBuffer
  <2> QED BY <1>1, <2>1 DEF MarkIsShown
<1> QED BY <1>2, <1>3, <1>4 DEF OneMarkInv

\* Every step of a page with one reader keeps the mark where it belongs, as long as the
\* Harness process is not replaced.
LEMMA OneMarkUnderPage ==
  ASSUME MaxRestarts = 0, IInv, LiveInv, Alone, CountsOn, OneMarkInv, PageNext, IInv', Alone'
  PROVE  OneMarkInv'
<1>1. /\ page \in PageRecord /\ page.mark \in Nat /\ page.streaming \in BOOLEAN
      /\ page.abortRef \in Attachments \cup {Nobody}
      /\ page.streaming <=> page.abortRef # Nobody
      /\ reader \in [Attachments -> ReaderKinds] /\ att \in [Attachments -> AttachmentType]
  BY DEF LiveInv, Alone, PageRecord, IInv, SlotInv, TypeOK
<1>2. CASE Quiet
  BY <1>2, MarksStay DEF Quiet, SameMarks, events
<1>3. ASSUME NEW a \in Attachments, Send(a) PROVE OneMarkInv'
  <2>1. UNCHANGED <<sess, slot, att, skipped>> /\ page'.mark = 0 /\ page.abortRef = Nobody
    BY <1>1, <1>3 DEF Send, Prompt, vars, events, PageRecord
  <2>2. \A b \in Attachments : att'[b].state = "idle"
    BY <2>1, NobodyReads
  <2> QED BY <2>1, <2>2, MarksReset
<1>4. ASSUME NEW a \in Attachments PROVE ~Uploaded(a) /\ ~LegacyResolve(a)
  BY AloneFacts DEF Uploaded, LegacyResolve
<1>5. CASE NewConversation
  <2>1. UNCHANGED <<sess, slot, skipped>> /\ page'.mark = 0
    BY <1>5, NewConversationMarks DEF server
  <2>2. \A b \in Attachments : att'[b].state = "idle"
    <3>1. CASE page.abortRef = Nobody
      <4>1. UNCHANGED att
        BY <1>5, <3>1 DEF NewConversation
      <4> QED BY <3>1, <4>1, NobodyReads
    <3>2. CASE page.abortRef # Nobody
      <4>1. PICK a \in Attachments : a = page.abortRef
        BY <1>1, <3>2
      <4>2. att' = [att EXCEPT ![a] = Detached]
        BY <1>5, <3>2, <4>1 DEF NewConversation, AbortReader
      <4>3. reader[a] # "none"
        BY <4>1 DEF Alone
      <4> QED BY <1>1, <4>2, <4>3, OthersAreIdle DEF Detached
    <3> QED BY <3>1, <3>2
  <2> QED BY <2>1, <2>2, MarksReset
<1> QED BY <1>1, <1>2, <1>3, <1>4, <1>5, StepShapes, TurnMarks, BeginMarks, ResolveMarks, OpenMarks,
           ReceiveMarks, EndMarks

-----------------------------------------------------------------------------
(* One process and any number of readers: what of the runs since the last     *)
(* prompt or reset is dropped unseen lies behind a later run that is shown,   *)
(* or has left the buffer.                                                    *)

Covered(r, n) == <<r, n>> \in shown \/ Superseded(r)

\* The mark is no higher than the newest log, ...
MarkBelowNewest == page.mark <= IF slot = 0 THEN 0 ELSE sess[slot].seq

\* ... and whatever is still buffered up to it, or up to a stream's place, is shown or
\* lies behind a later run; so does what was dropped.
LaterMark ==
  \A r \in Runs : r > page.since =>
    \A n \in Nat : (InBuffer(r, n) /\ n <= page.mark) => Covered(r, n)

LaterStream ==
  \A a \in Attachments : (att[a].state \in {"open", "ended"} /\ att[a].run > page.since) =>
    \A n \in Nat : (InBuffer(att[a].run, n) /\ n <= att[a].last) => Covered(att[a].run, n)

LaterSkipped ==
  \A e \in skipped : e[1] <= page.since \/ Superseded(e[1]) \/ ~StillBuffered(e[1], e[2])

LaterInv == MarkBelowNewest /\ LaterMark /\ LaterStream /\ LaterSkipped

\* Nothing is shown, and a stream that is open or ended is where it was.
LEMMA LaterStays ==
  ASSUME LaterInv, UNCHANGED <<sess, slot, events>>, SameMarks,
         \A a \in Attachments : att'[a].state \in {"open", "ended"} =>
           /\ att[a].state \in {"open", "ended"}
           /\ att'[a].run = att[a].run /\ att'[a].last = att[a].last
  PROVE  LaterInv'
<1>1. Runs' = Runs /\ shown' = shown /\ skipped' = skipped
      /\ page'.mark = page.mark /\ page'.since = page.since
  BY DEF Runs, events, SameMarks
<1>2. \A r, n : /\ InBuffer(r, n)' <=> InBuffer(r, n)
                /\ StillBuffered(r, n)' <=> StillBuffered(r, n)
                /\ Superseded(r)' <=> Superseded(r)
                /\ Covered(r, n)' <=> Covered(r, n)
  BY <1>1 DEF InBuffer, StillBuffered, Superseded, Covered
<1>3. MarkBelowNewest' /\ LaterMark'
  BY <1>1, <1>2 DEF LaterInv, MarkBelowNewest, LaterMark
<1>4. LaterStream'
  <2> SUFFICES ASSUME NEW a \in Attachments, att'[a].state \in {"open", "ended"}, NEW n \in Nat,
                      NEW r, r = att'[a].run, r > page.since, InBuffer(r, n)', n <= att'[a].last
               PROVE  Covered(r, n)'
    BY <1>1 DEF LaterStream, InBuffer, Covered, Superseded
  <2>1. att[a].state \in {"open", "ended"} /\ r = att[a].run /\ n <= att[a].last
    OBVIOUS
  <2>2. InBuffer(r, n)
    BY <1>2
  <2>3. Covered(r, n)
    BY <2>1, <2>2 DEF LaterInv, LaterStream
  <2> QED BY <1>2, <2>3
<1>5. LaterSkipped'
  BY <1>1, <1>2 DEF LaterInv, LaterSkipped
<1> QED BY <1>3, <1>4, <1>5 DEF LaterInv

\* Logs grow above the mark and above every stream's place.
LEMMA LaterGrows ==
  ASSUME IInv, LiveInv, EventInv, CountsOn, LaterInv, TurnGoesOn
  PROVE  LaterInv'
<1>1. /\ slot' = slot /\ Runs' = Runs /\ page' = page /\ shown' = shown /\ skipped' = skipped
      /\ \A r \in Runs : Grows(r) /\ sess'[r].seq \in Nat /\ Len(sess'[r].events) \in Nat
      /\ \A a \in Attachments : SamePlace(a)
  BY DEF TurnGoesOn, pageVars, events
<1>2. page.mark \in Nat
  BY DEF LiveInv, PageRecord
<1>3. ASSUME NEW r \in Runs, NEW n \in Nat, n <= sess[r].seq, InBuffer(r, n)' PROVE InBuffer(r, n)
  <2> DEFINE lost == sess[r].seq - Len(sess[r].events)
             gone == sess'[r].seq - Len(sess'[r].events)
  <2>1. lost \in Int /\ gone \in Int /\ lost <= gone
    BY <1>1, SlotFacts DEF Grows
  <2>2. gone < n
    BY <1>3 DEF InBuffer
  <2> HIDE DEF lost, gone
  <2>3. lost < n
    BY <2>1, <2>2
  <2> QED BY <1>3, <2>3 DEF InBuffer, lost
<1>4. ASSUME NEW r \in Runs, NEW n \in Nat, StillBuffered(r, n)' PROVE StillBuffered(r, n)
  <2> DEFINE lost == sess[r].seq - Len(sess[r].events)
             gone == sess'[r].seq - Len(sess'[r].events)
  <2>1. lost \in Int /\ gone \in Int /\ lost <= gone
    BY <1>1, SlotFacts DEF Grows
  <2>2. gone < n
    BY <1>4 DEF StillBuffered
  <2> HIDE DEF lost, gone
  <2>3. lost < n
    BY <2>1, <2>2
  <2> QED BY <1>4, <2>3 DEF StillBuffered, lost
<1>5. \A r, n : (Covered(r, n)' <=> Covered(r, n)) /\ (Superseded(r)' <=> Superseded(r))
  BY <1>1 DEF Covered, Superseded
<1>6. MarkBelowNewest'
  <2>1. CASE slot = 0
    BY <1>1, <2>1 DEF LaterInv, MarkBelowNewest
  <2>2. CASE slot # 0
    BY <1>1, <1>2, <2>2, SlotFacts DEF LaterInv, MarkBelowNewest, Grows
  <2> QED BY <2>1, <2>2
<1>7. LaterMark'
  <2> SUFFICES ASSUME NEW r \in Runs, r > page.since, NEW n \in Nat, InBuffer(r, n)',
                      n <= page.mark
               PROVE  Covered(r, n)'
    BY <1>1 DEF LaterMark
  <2>1. n <= sess[r].seq
    <3>1. CASE r = slot
      <4>1. slot # 0
        BY <3>1, SlotFacts
      <4> QED BY <1>2, <3>1, <4>1, SlotFacts DEF LaterInv, MarkBelowNewest
    <3>2. CASE r # slot
      BY <1>1, <3>2, SlotFacts DEF InBuffer, Grows
    <3> QED BY <3>1, <3>2
  <2> QED BY <1>3, <1>5, <2>1 DEF LaterInv, LaterMark
<1>8. LaterStream'
  <2> SUFFICES ASSUME NEW a \in Attachments, att'[a].state \in {"open", "ended"}, NEW n \in Nat,
                      NEW r, r = att'[a].run, r > page.since, InBuffer(r, n)', n <= att'[a].last
               PROVE  Covered(r, n)'
    BY <1>1 DEF LaterStream, InBuffer, Covered, Superseded
  <2>1. att[a].state \in {"open", "ended"} /\ r = att[a].run /\ n <= att[a].last
    BY <1>1 DEF SamePlace
  <2>2. r \in Runs
    BY <2>1, SlotFacts
  <2>3. att[a].last <= sess[r].seq /\ att[a].last \in Nat
    BY <2>1, <2>2, SlotFacts DEF IInv, DeliveryIsExact
  <2>4. InBuffer(r, n)
    BY <1>3, <2>1, <2>2, <2>3, SlotFacts
  <2>5. Covered(r, n)
    BY <2>1, <2>4 DEF LaterInv, LaterStream
  <2> QED BY <1>5, <2>5
<1>9. LaterSkipped'
  <2> SUFFICES ASSUME NEW e \in skipped
               PROVE  e[1] <= page.since \/ Superseded(e[1])' \/ ~StillBuffered(e[1], e[2])'
    BY <1>1 DEF LaterSkipped
  <2>1. e[1] \in Runs /\ e[2] \in Nat
    BY DEF EventInv
  <2> QED BY <1>4, <1>5, <2>1 DEF LaterInv, LaterSkipped
<1> QED BY <1>6, <1>7, <1>8, <1>9 DEF LaterInv

\* A new run's buffer is empty.
LEMMA LaterBegins ==
  ASSUME IInv, LiveInv, EventInv, CountsOn, LaterInv, RunBegins
  PROVE  LaterInv'
<1> DEFINE n0 == Len(sess) + 1
<1>0. Begin(FALSE) /\ page' = page /\ shown' = shown /\ skipped' = skipped
  BY DEF RunBegins, events
<1>1. /\ Len(sess) \in Nat /\ Runs = 1..Len(sess)
      /\ n0 \in Nat /\ Runs' = 1..n0 /\ slot' = n0 /\ n0 # 0
      /\ \A r \in Runs : sess'[r] = sess[r]
      /\ \A r \in Runs' : r \in Runs \/ r = n0
      /\ sess'[n0].seq = (IF slot = 0 THEN 0 ELSE sess[slot].seq) /\ sess'[n0].events = <<>>
      /\ sess'[n0].seq \in Nat
  BY <1>0, SlotFacts, BeginFrame
<1>2. \A a \in Attachments : att'[a] = att[a] \/ att'[a].state = "resolved"
  BY DEF RunBegins
<1> HIDE DEF n0
<1>3. ASSUME NEW r \in Runs', r = n0, NEW n \in Nat PROVE ~InBuffer(r, n)'
  <2>1. Len(sess'[r].events) = 0 /\ sess'[r].seq \in Nat
    BY <1>1, <1>3, EmptySeq
  <2> QED BY <2>1 DEF InBuffer
<1>4. \A r \in Runs : \A n \in Nat : /\ InBuffer(r, n)' <=> InBuffer(r, n)
                                     /\ StillBuffered(r, n)' <=> StillBuffered(r, n)
  BY <1>1 DEF InBuffer, StillBuffered
<1>5. \A r, n : (Covered(r, n)' <=> Covered(r, n)) /\ (Superseded(r)' <=> Superseded(r))
  BY <1>0 DEF Covered, Superseded
<1>6. MarkBelowNewest'
  BY <1>0, <1>1 DEF LaterInv, MarkBelowNewest
<1>7. LaterMark'
  <2> SUFFICES ASSUME NEW r \in Runs', r > page.since, NEW n \in Nat, InBuffer(r, n)',
                      n <= page.mark
               PROVE  Covered(r, n)'
    BY <1>0 DEF LaterMark
  <2>1. r \in Runs /\ InBuffer(r, n)
    BY <1>1, <1>3, <1>4
  <2> QED BY <1>5, <2>1 DEF LaterInv, LaterMark
<1>8. LaterStream'
  <2> SUFFICES ASSUME NEW a \in Attachments, att'[a].state \in {"open", "ended"}, NEW n \in Nat,
                      NEW r, r = att'[a].run, r > page.since, InBuffer(r, n)', n <= att'[a].last
               PROVE  Covered(r, n)'
    BY <1>0 DEF LaterStream, InBuffer, Covered, Superseded
  <2>1. att'[a] = att[a]
    BY <1>2
  <2>2. r \in Runs /\ r = att[a].run
    BY <2>1, SlotFacts
  <2>3. InBuffer(r, n)
    BY <1>4, <2>2
  <2>4. Covered(r, n)
    BY <2>1, <2>2, <2>3 DEF LaterInv, LaterStream
  <2> QED BY <1>5, <2>4
<1>9. LaterSkipped'
  <2> SUFFICES ASSUME NEW e \in skipped
               PROVE  e[1] <= page.since \/ Superseded(e[1])' \/ ~StillBuffered(e[1], e[2])'
    BY <1>0 DEF LaterSkipped
  <2>1. e[1] \in Runs /\ e[2] \in Nat
    BY DEF EventInv
  <2> QED BY <1>4, <1>5, <2>1 DEF LaterInv, LaterSkipped
<1> QED BY <1>6, <1>7, <1>8, <1>9 DEF LaterInv

\* A stream begins at the request's mark, or where the buffer does.
LEMMA LaterOpens ==
  ASSUME IInv, LiveInv, LaterInv, NEW a \in Attachments, Open(a)
  PROVE  LaterInv'
<1> DEFINE r == att[a].run
           s == sess[r]
           d == Opened(r, After(a))
           replay == Replay(s.events, After(a))
<1>1. /\ att[a].state = "resolved" /\ att' = [att EXCEPT ![a] = d]
      /\ UNCHANGED <<sess, slot, page, shown, skipped>>
  BY DEF Open, Attach, pageVars, events
<1>2. /\ r \in Runs /\ s \in SessionType /\ IsTail(s) /\ s.seq \in Nat /\ Len(s.events) \in Nat
      /\ s.start \in Nat /\ s.start + Len(s.events) <= s.seq
      /\ att \in [Attachments -> AttachmentType]
  BY <1>1, SlotFacts DEF IInv, SlotInv, TypeOK
<1>3. page.mark \in Nat /\ After(a) \in {0, page.mark} /\ After(a) \in Nat
  BY DEF LiveInv, PageRecord, After
<1>4. PICK floor \in Nat :
        /\ floor <= s.seq /\ Len(replay) = s.seq - floor
        /\ After(a) <= s.seq => After(a) <= floor
        /\ floor <= After(a) \/ floor = s.seq - Len(s.events)
  BY <1>2, <1>3, ReplayIsTail
<1>5. d.state = "open" /\ d.run = r /\ d.last = floor
  <2>1. d.state = "open" /\ d.run = r /\ d.last = s.seq - Len(replay)
    BY DEF Opened
  <2> HIDE DEF replay, d
  <2> QED BY <1>2, <1>4, <2>1
<1> HIDE DEF d, replay
<1>6. att'[a] = d /\ \A b \in Attachments : b # a => att'[b] = att[b]
  BY <1>1, <1>2
<1>7. Runs' = Runs
  BY <1>1 DEF Runs
<1>8. \A q, n : /\ InBuffer(q, n)' <=> InBuffer(q, n)
                /\ StillBuffered(q, n)' <=> StillBuffered(q, n)
                /\ Superseded(q)' <=> Superseded(q)
                /\ Covered(q, n)' <=> Covered(q, n)
  BY <1>1 DEF InBuffer, StillBuffered, Superseded, Covered
<1>9. MarkBelowNewest' /\ LaterMark' /\ LaterSkipped'
  BY <1>1, <1>7, <1>8 DEF LaterInv, MarkBelowNewest, LaterMark, LaterSkipped
<1>10. ASSUME NEW n \in Nat, InBuffer(r, n), n <= floor, r > page.since PROVE Covered(r, n)
  <2>1. n <= After(a) /\ 0 < n
    <3> HIDE DEF r, s
    <3>1. s.seq - Len(s.events) < n
      BY <1>10 DEF InBuffer, s, r
    <3> QED BY <1>2, <1>3, <1>4, <1>10, <3>1
  <2>2. n <= page.mark
    BY <1>3, <2>1
  <2> QED BY <1>2, <1>10, <2>2 DEF LaterInv, LaterMark
<1>11. LaterStream'
  <2> SUFFICES ASSUME NEW b \in Attachments, att'[b].state \in {"open", "ended"}, NEW n \in Nat,
                      NEW q, q = att'[b].run, q > page.since, InBuffer(q, n)', n <= att'[b].last
               PROVE  Covered(q, n)'
    BY <1>1 DEF LaterStream, InBuffer, Covered, Superseded
  <2>1. InBuffer(q, n)
    BY <1>8
  <2>2. CASE b = a
    <3>1. q = r /\ n <= floor
      BY <1>5, <1>6, <2>2
    <3>2. Covered(r, n)
      BY <1>10, <2>1, <3>1
    <3> QED BY <1>8, <3>1, <3>2
  <2>3. CASE b # a
    <3>1. Covered(q, n)
      BY <1>6, <2>1, <2>3 DEF LaterInv, LaterStream
    <3> QED BY <1>8, <3>1
  <2> QED BY <2>2, <2>3
<1> QED BY <1>9, <1>11 DEF LaterInv

\* An event that is received is dropped only when the mark covers it, and one that is shown
\* covers the runs before its own.
LEMMA LaterReceives ==
  ASSUME IInv, LiveInv, EventInv, CountsOn, LaterInv, NEW a \in Attachments, Receive(a)
  PROVE  LaterInv'
<1> SUFFICES ASSUME NEW r, NEW n, r = att[a].run, n = att[a].last + 1
             PROVE  LaterInv'
  OBVIOUS
<1>1. Deliver(a)
  BY DEF Receive
<1>2. /\ att[a].state = "open" /\ r \in Runs /\ UNCHANGED <<sess, slot>>
      /\ Head(att[a].pending) = n /\ n <= sess[r].seq
      /\ att'[a].state = "open" /\ att'[a].run = r /\ att'[a].last = n
      /\ \A b \in Attachments : b # a => att'[b] = att[b]
  BY <1>1, DeliverFacts
<1>3. /\ att[a].last \in Nat /\ n \in Nat /\ page.mark \in Nat /\ page.since \in Nat
      /\ page \in PageRecord
      /\ Runs = 1..Len(sess) /\ Len(sess) \in Nat /\ Runs' = Runs
  BY <1>2, SlotFacts DEF LiveInv, PageRecord, Runs
<1>4. \A m \in Nat : m <= n => m <= att[a].last \/ m = n
  BY <1>3
<1>5. \/ /\ n <= page.mark /\ UNCHANGED <<page, shown>>
         /\ skipped' = skipped \cup ({<<r, n>>} \ shown)
      \/ /\ ~(n <= page.mark) /\ skipped' = skipped /\ shown' = shown \cup {<<r, n>>}
         /\ \E prompt \in BOOLEAN :
              page' = [page EXCEPT !.mark = n, !.streaming = page.streaming \/ prompt]
  BY <1>2 DEF Receive
<1>6. page'.since = page.since /\ page'.mark \in {page.mark, n} /\ shown \subseteq shown'
  BY <1>3, <1>5 DEF PageRecord
<1>7. \A q, m : /\ InBuffer(q, m)' <=> InBuffer(q, m)
                /\ StillBuffered(q, m)' <=> StillBuffered(q, m)
                /\ Superseded(q) => Superseded(q)'
                /\ Covered(q, m) => Covered(q, m)'
  BY <1>2, <1>6 DEF InBuffer, StillBuffered, Superseded, Covered
<1>8. ASSUME r > page.since, InBuffer(r, n) PROVE Covered(r, n)'
  <2>1. CASE n <= page.mark
    <3>1. Covered(r, n)
      BY <1>2, <1>3, <1>8, <2>1 DEF LaterInv, LaterMark
    <3> QED BY <1>7, <3>1
  <2>2. CASE ~(n <= page.mark)
    BY <1>5, <2>2 DEF Covered
  <2> QED BY <2>1, <2>2
<1>9. ASSUME NEW m \in Nat, r > page.since, InBuffer(r, m), m <= n PROVE Covered(r, m)'
  <2>1. CASE m = n
    BY <1>8, <1>9, <2>1
  <2>2. CASE m <= att[a].last
    <3>1. Covered(r, m)
      BY <1>2, <1>9, <2>2 DEF LaterInv, LaterStream
    <3> QED BY <1>7, <3>1
  <2> QED BY <1>4, <1>9, <2>1, <2>2
<1>10. MarkBelowNewest'
  <2>1. slot \in Runs /\ slot # 0 /\ (r = slot \/ r < slot)
    BY <1>2, <1>3 DEF CountsOn
  <2>2. /\ sess[r].seq \in Nat /\ sess[slot].seq \in Nat /\ sess[slot].start \in Nat
        /\ sess[slot].start <= sess[slot].seq
    <3>1. /\ sess[slot].start \in Nat /\ sess[slot].seq \in Nat /\ Len(sess[slot].events) \in Nat
          /\ sess[slot].start + Len(sess[slot].events) <= sess[slot].seq
      BY <2>1, SlotFacts
    <3>2. sess[r].seq \in Nat
      BY <1>2, SlotFacts
    <3> QED BY <3>1, <3>2
  <2>3. sess[r].seq <= sess[slot].seq
    <3>1. CASE r = slot
      BY <2>2, <3>1
    <3>2. CASE r < slot
      <4>1. sess[r].seq <= sess[slot].start
        BY <1>2, <2>1, <3>2 DEF CountsOn
      <4> QED BY <2>2, <4>1
    <3> QED BY <2>1, <3>1, <3>2
  <2>4. page.mark <= sess[slot].seq
    BY <2>1 DEF LaterInv, MarkBelowNewest
  <2>5. n <= sess[slot].seq
    BY <1>2, <1>3, <2>2, <2>3
  <2> QED BY <1>2, <1>6, <2>1, <2>4, <2>5 DEF MarkBelowNewest
<1>11. LaterMark'
  <2> SUFFICES ASSUME NEW q \in Runs, q > page.since, NEW m \in Nat, InBuffer(q, m),
                      m <= page'.mark
               PROVE  Covered(q, m)'
    BY <1>3, <1>6, <1>7 DEF LaterMark
  <2>1. CASE m <= page.mark
    BY <1>7, <2>1 DEF LaterInv, LaterMark
  <2>2. CASE ~(m <= page.mark)
    <3>1. m <= n /\ ~(n <= page.mark) /\ shown' = shown \cup {<<r, n>>}
      <4>1. page'.mark = n /\ page'.mark # page.mark
        BY <1>6, <2>2
      <4> QED BY <1>5, <2>2, <4>1
    <3>2. CASE q = r
      BY <1>9, <3>1, <3>2
    <3>3. CASE q < r
      <4>1. <<r, n>> \in shown' /\ <<r, n>>[1] = r
        BY <3>1
      <4> QED BY <3>3, <4>1 DEF Covered, Superseded
    <3>4. CASE q > r
      <4>1. sess[r].seq <= sess[q].start
        BY <1>2, <1>3, <3>4 DEF CountsOn
      <4>2. sess[q].start < m
        <5>1. /\ sess[q].start \in Nat /\ sess[q].seq \in Nat /\ Len(sess[q].events) \in Nat
              /\ sess[q].start + Len(sess[q].events) <= sess[q].seq
          BY SlotFacts
        <5> QED BY <5>1 DEF InBuffer
      <4>3. sess[r].seq \in Nat /\ sess[q].start \in Nat
        BY <1>2, SlotFacts
      <4> QED BY <1>2, <1>3, <3>1, <4>1, <4>2, <4>3
    <3> QED BY <1>2, <1>3, <3>2, <3>3, <3>4
  <2> QED BY <2>1, <2>2
<1>12. LaterStream'
  <2> SUFFICES ASSUME NEW b \in Attachments, att'[b].state \in {"open", "ended"}, NEW m \in Nat,
                      NEW q, q = att'[b].run, q > page.since, InBuffer(q, m), m <= att'[b].last
               PROVE  Covered(q, m)'
    BY <1>2, <1>6 DEF LaterStream, InBuffer, Covered, Superseded
  <2>1. CASE b = a
    BY <1>2, <1>9, <2>1
  <2>2. CASE b # a
    <3>1. Covered(q, m)
      BY <1>2, <2>2 DEF LaterInv, LaterStream
    <3> QED BY <1>7, <3>1
  <2> QED BY <2>1, <2>2
<1>13. LaterSkipped'
  <2> SUFFICES ASSUME NEW e \in skipped'
               PROVE  e[1] <= page.since \/ Superseded(e[1])' \/ ~StillBuffered(e[1], e[2])
    BY <1>6, <1>7 DEF LaterSkipped
  <2>1. CASE e \in skipped
    BY <1>7, <2>1 DEF LaterInv, LaterSkipped
  <2>2. CASE e \notin skipped
    <3>1. e = <<r, n>> /\ e \notin shown /\ n <= page.mark
      BY <1>5, <2>2
    <3>2. ASSUME r > page.since, StillBuffered(r, n) PROVE Superseded(r)'
      <4>1. InBuffer(r, n)
        BY <1>2, <3>2 DEF InBuffer, StillBuffered
      <4>2. Covered(r, n)
        BY <1>2, <1>3, <3>1, <3>2, <4>1 DEF LaterInv, LaterMark
      <4> QED BY <1>7, <3>1, <4>2 DEF Covered
    <3>3. e[1] = r /\ e[2] = n /\ r \in Nat
      BY <1>2, <1>3, <3>1
    <3> QED BY <1>3, <3>2, <3>3
  <2> QED BY <2>1, <2>2
<1> QED BY <1>10, <1>11, <1>12, <1>13 DEF LaterInv

\* After a prompt or a reset no run counts yet.
LEMMA LaterStartsOver ==
  ASSUME IInv, LiveInv, EventInv, LaterInv, UNCHANGED <<sess, slot, skipped>>,
         page'.mark = 0, page'.since = Len(sess),
         \A a \in Attachments : att'[a] = att[a] \/ att'[a].state = "idle"
  PROVE  LaterInv'
<1>1. Len(sess) \in Nat /\ Runs = 1..Len(sess) /\ Runs' = Runs
  BY SlotFacts DEF Runs
<1>2. MarkBelowNewest'
  BY SlotFacts DEF MarkBelowNewest
<1>3. \A r \in Runs : ~(r > page'.since)
  BY <1>1
<1>4. LaterMark'
  BY <1>1, <1>3 DEF LaterMark
<1>5. LaterStream'
  <2>1. \A a \in Attachments : att'[a].state \in {"open", "ended"} => att'[a].run \in Runs
    BY SlotFacts
  <2> QED BY <1>3, <2>1 DEF LaterStream
<1>6. LaterSkipped'
  BY <1>1 DEF LaterSkipped, EventInv
<1> QED BY <1>2, <1>4, <1>5, <1>6 DEF LaterInv

\* Every step of the page keeps what is dropped behind what is shown, as long as the
\* Harness process is not replaced.
LEMMA LaterUnderPage ==
  ASSUME MaxRestarts = 0, IInv, LiveInv, EventInv, CountsOn, LaterInv, PageNext, IInv'
  PROVE  LaterInv'
<1>1. att \in [Attachments -> AttachmentType] /\ page \in PageRecord
  BY DEF IInv, SlotInv, TypeOK, LiveInv
<1>2. CASE Quiet
  BY <1>2, LaterStays DEF Quiet
<1>3. ASSUME NEW a \in Attachments, HubResolve(a) \/ LegacyResolve(a)
               \/ (StreamEnds(a) /\ UNCHANGED pageVars)
      PROVE  LaterInv'
  <2>1. UNCHANGED <<sess, slot, events>> /\ SameMarks
    BY <1>3 DEF HubResolve, LegacyResolve, Resolve, StreamEnds, pageVars, SameMarks
  <2> DEFINE d == [Detached EXCEPT !.state = "resolved", !.run = slot]
             e == [att[a] EXCEPT !.state = "ended"]
  <2>2. \/ att' = [att EXCEPT ![a] = d]
        \/ att[a].state = "open" /\ att' = [att EXCEPT ![a] = e]
    BY <1>3 DEF HubResolve, LegacyResolve, Resolve, StreamEnds
  <2>4. d.state = "resolved" /\ e.run = att[a].run /\ e.last = att[a].last
    BY <1>1 DEF Detached, AttachmentType
  <2> HIDE DEF d, e
  <2>3. \A b \in Attachments : att'[b].state \in {"open", "ended"} =>
          /\ att[b].state \in {"open", "ended"}
          /\ att'[b].run = att[b].run /\ att'[b].last = att[b].last
    BY <1>1, <2>2, <2>4
  <2> QED BY <2>1, <2>3, LaterStays
<1>4. ASSUME NEW a \in Attachments, Send(a) \/ Uploaded(a) PROVE LaterInv'
  <2>1. page' = [page EXCEPT !.abortRef = a, !.mark = 0, !.streaming = TRUE, !.fresh = FALSE,
                             !.asked = Len(sess), !.since = Len(sess)]
        /\ UNCHANGED <<sess, slot, att, skipped>>
    BY <1>4 DEF Send, Uploaded, Prompt, vars, events
  <2>2. page'.mark = 0 /\ page'.since = Len(sess)
    BY <1>1, <2>1 DEF PageRecord
  <2> QED BY <2>1, <2>2, LaterStartsOver
<1>5. CASE NewConversation
  <2>1. UNCHANGED <<sess, slot, skipped>> /\ page'.mark = 0 /\ page'.since = Len(sess)
    BY <1>5, NewConversationMarks DEF server
  <2>2. UNCHANGED att \/ att' = [att EXCEPT ![page.abortRef] = Detached]
    BY <1>5 DEF NewConversation, AbortReader
  <2>3. \A b \in Attachments : att'[b] = att[b] \/ att'[b].state = "idle"
    BY <1>1, <2>2 DEF Detached
  <2> QED BY <2>1, <2>3, LaterStartsOver
<1> QED BY <1>2, <1>3, <1>4, <1>5, StepShapes, LaterGrows, LaterBegins, LaterOpens, LaterReceives

-----------------------------------------------------------------------------
(* The mark, with one reader and with several.                               *)

MarkInv == CountsOn /\ LaterInv /\ (Guarded => OneMarkInv)

LEMMA MarkInitInv == PageInit => MarkInv
<1> SUFFICES ASSUME PageInit PROVE MarkInv
  OBVIOUS
<1>1. /\ Len(sess) = 0 /\ slot = 0 /\ Runs = {} /\ page.mark = 0 /\ skipped = {}
      /\ \A a \in Attachments : att[a].state = "idle" /\ reader[a] = "none"
  BY EmptySeq DEF PageInit, Init, Detached, Runs
<1>2. CountsOn /\ LaterInv
  BY <1>1 DEF CountsOn, LaterInv, MarkBelowNewest, LaterMark, LaterStream, LaterSkipped
<1>3. OneMarkInv
  BY <1>1 DEF OneMarkInv, MarkWithinLog, FreshMark, MarkBelowStream, MarkIsShown, StreamIsShown,
              NoneSkipped
<1> QED BY <1>2, <1>3 DEF MarkInv

LEMMA MarkStepInv ==
  ASSUME MaxRestarts = 0
  PROVE  PInv /\ MarkInv /\ [PageNext]_allVars => MarkInv'
<1> SUFFICES ASSUME PInv, MarkInv, [PageNext]_allVars PROVE MarkInv'
  OBVIOUS
<1>0. /\ IInv /\ LiveInv /\ OnlyReader /\ EventInv
      /\ CountsOn /\ LaterInv /\ (Guarded => OneMarkInv)
  BY DEF PInv, ReaderInv, MarkInv
<1>1. CASE PageNext
  <2>1. IInv' /\ LiveInv' /\ OnlyReader'
    BY <1>0, <1>1, SlotUnderPage, LiveUnderPage, OnlyUnderPage
  <2>2. Guarded' => Guarded
    BY <1>0, <1>1, GuardUnderPage DEF GuardFalls, Guarded
  <2>3. ASSUME Guarded' PROVE OneMarkInv'
    <3>1. Alone /\ Alone' /\ OneMarkInv
      BY <1>0, <2>1, <2>2, <2>3 DEF OnlyReader
    <3> QED BY <1>0, <1>1, <2>1, <3>1, OneMarkUnderPage
  <2>4. CountsOn' /\ LaterInv'
    BY <1>0, <1>1, <2>1, CountsUnderPage, LaterUnderPage
  <2> QED BY <2>3, <2>4 DEF MarkInv
<1>2. CASE UNCHANGED allVars
  <2>1. UNCHANGED <<sess, slot, att, reader, page, shown, repeated, skipped, used>>
    BY <1>2 DEF allVars, vars, pageVars, coroutine, events
  <2>2. CountsOn' /\ (Guarded' <=> Guarded)
    BY <1>0, <2>1 DEF CountsOn, Runs, Guarded
  <2>3. LaterInv'
    BY <1>0, <2>1, LaterStays DEF events, SameMarks
  <2>4. Guarded => OneMarkInv'
    BY <1>0, <2>1, MarksStay
  <2> QED BY <2>2, <2>3, <2>4 DEF MarkInv
<1> QED BY <1>1, <1>2

\* While the Harness process is not replaced, the mark stays where it belongs.
THEOREM MarkInvariance ==
  ASSUME MaxRestarts = 0
  PROVE  PageSpec => []MarkInv
<1>1. PInv /\ MarkInv /\ [PageNext]_allVars => MarkInv'
  BY MarkStepInv
<1> QED BY <1>1, MarkInitInv, PageInvariance, PTL DEF PageSpec

\* The dedup drops nothing that the conversation does not show, until an upload or the end
\* of the shared connection can let a second reader in; and then, of the runs since the
\* last prompt or reset, only what lies behind a later run or has left the buffer.
THEOREM NothingNewIsSkipped ==
  ASSUME MaxRestarts = 0
  PROVE  PageSpec => []OnlyRepeatsAreSkipped
<1>1. PInv /\ MarkInv => OnlyRepeatsAreSkipped
  <2> SUFFICES ASSUME PInv, MarkInv, NEW e \in skipped
               PROVE  MayBeLost(e[1]) \/ (~Guarded /\ ~StillBuffered(e[1], e[2]))
    BY DEF OnlyRepeatsAreSkipped
  <2>1. ~Guarded
    BY DEF MarkInv, OneMarkInv, NoneSkipped
  <2> QED BY <2>1 DEF MarkInv, LaterInv, LaterSkipped, MayBeLost
<1> QED BY <1>1, PageInvariance, MarkInvariance, PTL

\* No seq is given to two events, so an old watermark never hides a new run.
THEOREM PageSeqsAreNeverReused ==
  ASSUME MaxRestarts = 0
  PROVE  PageSpec => []SeqNeverReused
<1>1. MarkInv => SeqNeverReused
  BY DEF MarkInv, CountsOn, SeqNeverReused
<1> QED BY <1>1, MarkInvariance, PTL

\* A reader that is told of the end has shown the whole run, or a later one is shown.
LEMMA ToldIsShown ==
  ASSUME PInv, MarkInv, NEW a \in Attachments, att[a].state = "ended"
  PROVE  LET r == att[a].run IN
         \A n \in (sess[r].start + 1)..sess[r].seq :
           StillBuffered(r, n) => <<r, n>> \in shown \/ MayBeLost(r)
<1> DEFINE r == att[a].run
<1>0. IInv /\ page \in PageRecord
  BY DEF PInv, ReaderInv, LiveInv
<1>1. r \in Runs /\ sess[r].seq \in Nat /\ sess[r].start \in Nat /\ r \in Nat /\ page.since \in Nat
  BY <1>0, SlotFacts DEF Runs, PageRecord
<1>2. att[a].last = sess[r].seq
  BY <1>0 DEF IInv, EndedStreamIsWhole
<1>3. ASSUME NEW n \in (sess[r].start + 1)..sess[r].seq, StillBuffered(r, n)
      PROVE  <<r, n>> \in shown \/ MayBeLost(r)
  <2>1. n \in Nat /\ n <= sess[r].seq
    <3> HIDE DEF r
    <3> QED BY <1>1
  <2>2. InBuffer(r, n)
    BY <1>3, <2>1 DEF InBuffer, StillBuffered
  <2>3. CASE Guarded
    BY <1>2, <2>1, <2>2, <2>3 DEF MarkInv, OneMarkInv, StreamIsShown
  <2>4. CASE ~Guarded /\ r > page.since
    <3>1. Covered(r, n)
      BY <1>2, <2>1, <2>2, <2>4 DEF MarkInv, LaterInv, LaterStream
    <3> QED BY <2>4, <3>1 DEF Covered, MayBeLost
  <2>5. CASE ~Guarded /\ r <= page.since
    BY <2>5 DEF MayBeLost
  <2> HIDE DEF r
  <2> QED BY <1>1, <2>3, <2>4, <2>5
<1> QED BY <1>3

\* A page that is told of a run's end shows every event of it that the buffer still
\* holds, through any number of lost connections, Stops and other readers; where a second
\* reader can come in, it does for the runs since the last prompt or reset, unless it
\* shows a later one.
THEOREM ToldOfAWholeRun ==
  ASSUME MaxRestarts = 0
  PROVE  PageSpec => WholeRunShown
<1>1. PInv /\ MarkInv =>
        [\A a \in Attachments :
           (att[a].state = "ended" /\ reader[a] # "none" /\ reader'[a] = "none") =>
             LET r == att[a].run IN
             \A n \in (sess[r].start + 1)..sess[r].seq :
               StillBuffered(r, n) => <<r, n>> \in shown \/ MayBeLost(r)]_allVars
  BY ToldIsShown
<1> QED BY <1>1, PageInvariance, MarkInvariance, PTL DEF WholeRunShown
=============================================================================
