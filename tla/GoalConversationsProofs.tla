------------------------ MODULE GoalConversationsProofs ------------------------
(***************************************************************************)
(* Proofs about GoalConversations: whatever the number of conversations,   *)
(* requests and restarts, no arming passes its cap, no message is carried  *)
(* twice, no ending is reported twice, the engine's own turns do not       *)
(* overlap in the checkout, and it sends nothing on top of a question.     *)
(* In a process that is not killed, with nobody writing to a conversation  *)
(* that is over, what ends as done was verified.                           *)
(***************************************************************************)
EXTENDS GoalConversations, FiniteSetTheorems, SequenceTheorems, TLAPS

(* The states, by kind of record.                                          *)

StoreRecords == {r \in Records : Len(r.queue) <= MaxQueue}
Turns   == [on : BOOLEAN, by : {"nobody", "loop", "follow"}, verify : BOOLEAN, stop : BOOLEAN,
            said : BOOLEAN, end : {"none", "done", "stopped", "error"}]
Replies == [kind : Kinds \cup {"none"}, armedAt : Nat, newer : BOOLEAN, fresh : BOOLEAN,
            answers : BOOLEAN, verdict : BOOLEAN]
Guards  == [armedAt : Nat, n : Nat]
AtWork  == {"plan", "hold", "end", "resolve", "resolved", "drain", "claim", "send", "phase",
            "post", "mark", "turn"}
Engines == [at : AtWork \cup {"idle", "parent", "parentClaim", "reconcile", "each"},
            lap : {"none", "reconcile", "loops"}, todo : SUBSET Convs, conv : Convs \cup {Nobody},
            held : SUBSET Convs, awaits : SUBSET Convs, status : Statuses, reason : Reasons,
            enter : {"none"} \cup Phases, taken : Seq(Messages), ending : Nat]
\* Between its steps the engine has a conversation at hand, an end state to write, a phase to
\* enter, and messages only between taking them and sending them.
Engine  == {e \in Engines : /\ e.at \in AtWork => e.conv \in Convs
                            /\ e.at = "end" => e.status \in EndStates
                            /\ e.at = "phase" => e.enter \in Phases
                            /\ e.at \notin {"claim", "send"} => e.taken = <<>>}
Requests == [op : {"none", "start", "continue", "stop", "lane", "message", "follow", "chat"},
             conv : Convs \cup {Nobody},
             at : {"done", "store", "arm", "loop", "run", "end", "look", "unblock", "queue", "unhold",
                   "resume", "claim"},
             held : BOOLEAN, awaits : BOOLEAN]
\* So does a request that is not a chat with the parent.
Request == {d \in Requests : d.at \notin {"done", "claim"} \/ d.op = "follow" => d.conv \in Convs}
Past    == [accepted : SUBSET Messages, dropped : SUBSET Messages, carried : SUBSET Messages,
            endings : Nat, posts : Seq(Convs \X Nat)]

StoresOK  == rec \in [Convs -> StoreRecords] /\ loop \in [Convs -> LoopRecords]
TurnsOK   == /\ run \in [Convs -> Turns] /\ reply \in [Convs -> Replies]
             /\ parent \in {"nobody", "chat", "summary", "loop"} /\ missed \in [Convs -> Guards]
ThreadsOK == eng \in Engine /\ call \in [Callers -> Request]
PastOK    == hist \in Past /\ used \in [calls : Nat, own : Nat, restarts : Nat]
Types     == StoresOK /\ TurnsOK /\ ThreadsOK /\ PastOK

(* A message nobody has sent yet: each request on its way to the queue has been counted, and    *)
(* so has each that brought a message.                                                          *)
Writing  == {p \in Callers : call[p].at \in {"look", "unblock", "queue"}}
Counting ==
  /\ IsFiniteSet(Writing) /\ IsFiniteSet(hist.accepted)
  /\ Cardinality(hist.accepted) + Cardinality(Writing) <= used.calls /\ used.calls <= MaxCalls

(* Where messages are: in one queue, in the engine's hands, carried or dropped.                 *)
WaitingIn(c) == ToSet(rec[c].queue)
Taken        == ToSet(eng.taken)
Kept ==
  /\ hist.carried \cup hist.dropped \cup Taken \subseteq hist.accepted
  /\ (hist.carried \cup Taken) \cap hist.dropped = {}
  /\ \A c \in Convs : /\ WaitingIn(c) \subseteq hist.accepted
                      /\ WaitingIn(c) \cap (hist.carried \cup hist.dropped \cup Taken) = {}
                      /\ \A d \in Convs \ {c} : WaitingIn(c) \cap WaitingIn(d) = {}

(* Once the engine has looked who writes, none of its own turns begins before the one it looked *)
(* for: it starts one thing at a time.                                                          *)
ParentDriven == parent \in {"summary", "loop"}
AboutToWrite == \/ eng.at \in {"drain", "claim"} /\ eng.conv \in Writers
                \/ eng.at \in {"parentClaim", "post"}
Writes ==
  /\ \A c, d \in EngineTurns : c = d
  /\ EngineTurns # {} => ~ParentDriven
  /\ AboutToWrite => EngineTurns = {} /\ ~ParentDriven

(* Between the decision to send and the count of it only the engine counts, and an arming of    *)
(* somebody else's starts the count again.                                                      *)
Capped ==
  /\ CapBoundsSends
  /\ eng.at \in {"drain", "claim", "send"} => loop[eng.conv].iterations < Cap

(* Which endings the parent was told: those of records marked delivered, and those a Continue   *)
(* or a later ending left behind.                                                               *)
Posted(c, n) == <<c, n>> \in ToSet(hist.posts)
Told ==
  /\ ReportedOnce
  /\ \A i \in DOMAIN hist.posts : hist.posts[i] \in Convs \X (1 .. hist.endings)
  /\ \A c \in Convs :
       /\ rec[c].endedAt <= hist.endings
       /\ HasEnded(rec[c]) => rec[c].endedAt > 0
       /\ Posted(c, rec[c].endedAt) => rec[c].told
  /\ eng.at \in {"post", "mark", "turn"} =>
       eng.ending \in 1 .. hist.endings /\ ~Posted(eng.conv, eng.ending)
  /\ eng.at = "turn" /\ rec[eng.conv].endedAt = eng.ending => rec[eng.conv].told

(* A question that answers a turn of the loop is the newest reply, and while the engine is on   *)
(* its way to a send no other turn of that loop is under way to ask one.                        *)
Asked ==
  /\ QuestionHoldsTheLoop
  /\ \A c \in Convs : reply[c].armedAt <= loop[c].armedAt /\ (reply[c].answers => reply[c].newer)
  /\ eng.at \in {"drain", "claim"} => ~(run[eng.conv].on /\ run[eng.conv].by = "loop")

IInv == Types /\ Counting /\ Kept /\ Writes /\ Capped /\ Told /\ Asked

-----------------------------------------------------------------------------
(* What the operators on the records return and keep.                      *)

LEMMA NewestOf ==
  ASSUME NEW q \in Seq(Messages), NEW m \in Messages
  PROVE  /\ Newest(Append(q, m)) \in Seq(Messages) /\ Len(Newest(Append(q, m))) <= MaxQueue
         /\ ToSet(Newest(Append(q, m))) \subseteq ToSet(q) \cup {m}
<1> DEFINE a == Append(q, m)
           n == Len(a)
<1>1. a \in Seq(Messages) /\ n \in Nat /\ MaxQueue \in Nat \ {0}
  BY QueueAssumption
<1>2. \A i \in 1 .. n : a[i] \in ToSet(q) \cup {m}
  BY DEF ToSet
<1> HIDE DEF a, n
<1>3. ToSet(a) \subseteq ToSet(q) \cup {m}
  BY <1>1, <1>2 DEF ToSet, n
<1>4. CASE n <= MaxQueue
  BY <1>1, <1>3, <1>4 DEF Newest, a, n
<1>5. CASE n > MaxQueue
  <2> DEFINE from == n - MaxQueue + 1
             s    == SubSeq(a, from, n)
  <2>1. from \in 1 .. n /\ from \in Int /\ n \in Int
    BY <1>1, <1>5
  <2>2. \A i \in from .. n : a[i] \in Messages
    BY <1>1, <2>1 DEF n
  <2> HIDE DEF from
  <2>3. /\ s \in Seq(Messages) /\ Len(s) = IF from <= n THEN n - from + 1 ELSE 0
        /\ \A i \in 1 .. n - from + 1 : s[i] = a[from + i - 1]
    BY <2>1, <2>2, SubSeqProperties
  <2> HIDE DEF s
  <2>4. Len(s) = MaxQueue
    BY <1>1, <2>1, <2>3 DEF from
  <2>5. \A i \in 1 .. Len(s) : s[i] \in ToSet(q) \cup {m}
    BY <1>1, <1>2, <2>1, <2>3
  <2>6. ToSet(s) \subseteq ToSet(q) \cup {m}
    BY <2>3, <2>5 DEF ToSet
  <2>7. Newest(Append(q, m)) = s
    BY <1>5 DEF Newest, s, from, a, n
  <2> QED BY <1>1, <2>3, <2>4, <2>6, <2>7
<1> QED BY <1>1, <1>4, <1>5

\* Every operator returns a record of the store, and only three touch the queue.
LEMMA RecordOperators ==
  ASSUME NEW r \in StoreRecords, NEW state \in EndStates, NEW n \in Nat, NEW b \in BOOLEAN
  PROVE  /\ StartRecord \in StoreRecords /\ StartRecord.queue = <<>>
         /\ Reopened(r) \in StoreRecords /\ Reopened(r).queue = r.queue
         /\ Ended(r, state, n) \in StoreRecords /\ Ended(r, state, n).queue = r.queue
         /\ MarkedDelivered(r) \in StoreRecords /\ MarkedDelivered(r).queue = r.queue
         /\ WithHeld(r, b) \in StoreRecords /\ WithHeld(r, b).queue = r.queue
         /\ WithPlan(r, b) \in StoreRecords /\ WithPlan(r, b).queue = r.queue
         /\ [r EXCEPT !.session = b] \in StoreRecords /\ [r EXCEPT !.session = b].queue = r.queue
         /\ Drained(r) \in StoreRecords /\ Drained(r).queue = <<>>
<1> USE DEF StoreRecords, Records
<1>0. <<>> \in Seq(Messages) /\ Len(<<>>) = 0
  OBVIOUS
<1>1. StartRecord \in StoreRecords /\ StartRecord.queue = <<>>
  <2>1. \A q \in Seq(Messages) : Len(q) <= MaxQueue =>
          [state |-> "none", held |-> FALSE, awaits |-> FALSE, queue |-> q, session |-> FALSE,
           summary |-> FALSE, told |-> FALSE, endedAt |-> 0] \in StoreRecords
    OBVIOUS
  <2>2. NoRecord \in StoreRecords
    BY <1>0, <2>1, QueueAssumption DEF NoRecord
  <2>3. NoRecord.queue = <<>>
    BY DEF NoRecord
  <2>4. \A v \in StoreRecords :
          [v EXCEPT !.state = "running"] \in StoreRecords /\ [v EXCEPT !.state = "running"].queue = v.queue
    OBVIOUS
  <2> QED BY <2>2, <2>3, <2>4 DEF StartRecord
<1>2. Reopened(r) \in StoreRecords /\ Reopened(r).queue = r.queue
  BY DEF Reopened
<1>3. Ended(r, state, n) \in StoreRecords /\ Ended(r, state, n).queue = r.queue
  BY DEF Ended, EndStates
<1>4. MarkedDelivered(r) \in StoreRecords /\ MarkedDelivered(r).queue = r.queue
  BY DEF MarkedDelivered
<1>5. WithHeld(r, b) \in StoreRecords /\ WithHeld(r, b).queue = r.queue
  BY DEF WithHeld
<1>6. WithPlan(r, b) \in StoreRecords /\ WithPlan(r, b).queue = r.queue
  BY DEF WithPlan
<1>7. [r EXCEPT !.session = b] \in StoreRecords /\ [r EXCEPT !.session = b].queue = r.queue
  OBVIOUS
<1>8. \A q \in Seq(Messages) : Len(q) <= MaxQueue =>
        [r EXCEPT !.queue = q] \in StoreRecords /\ [r EXCEPT !.queue = q].queue = q
  OBVIOUS
<1>9. Drained(r) \in StoreRecords /\ Drained(r).queue = <<>>
  <2>1. 0 <= MaxQueue
    BY QueueAssumption
  <2>2. [r EXCEPT !.queue = <<>>] \in StoreRecords /\ [r EXCEPT !.queue = <<>>].queue = <<>>
    <3> HIDE DEF StoreRecords, Records
    <3> QED BY <1>0, <1>8, <2>1
  <2> QED BY <2>2 DEF Drained
<1> QED BY <1>1, <1>2, <1>3, <1>4, <1>5, <1>6, <1>7, <1>9

LEMMA QueuedOne ==
  ASSUME NEW r \in StoreRecords, NEW m \in Messages
  PROVE  /\ Queued(r, m) \in StoreRecords
         /\ ToSet(Queued(r, m).queue) \subseteq ToSet(r.queue) \cup {m}
         /\ Queued(r, m).endedAt = r.endedAt /\ Queued(r, m).told = r.told /\ Queued(r, m).state = r.state
         /\ ~IsRunning(r) => Queued(r, m) = r
<1> DEFINE q == Newest(Append(r.queue, m))
<1>1. q \in Seq(Messages) /\ Len(q) <= MaxQueue /\ ToSet(q) \subseteq ToSet(r.queue) \cup {m}
  BY NewestOf DEF StoreRecords, Records
<1>2. Queued(r, m) = IF IsRunning(r) THEN [r EXCEPT !.queue = q] ELSE r
  BY DEF Queued
<1> HIDE DEF q
<1>3. /\ [r EXCEPT !.queue = q] \in StoreRecords /\ [r EXCEPT !.queue = q].queue = q
      /\ [r EXCEPT !.queue = q].endedAt = r.endedAt /\ [r EXCEPT !.queue = q].told = r.told
      /\ [r EXCEPT !.queue = q].state = r.state
  BY <1>1 DEF StoreRecords, Records
<1> QED BY <1>1, <1>2, <1>3

(* What a store's operation leaves of an arming: its number and its count, or a new one.        *)
SameArming(e, f) == f \in LoopRecords /\ f.armedAt = e.armedAt /\ f.iterations = e.iterations
NewArming(e, f)  == f \in LoopRecords /\ f.armedAt = e.armedAt + 1 /\ f.iterations = 0

\* Every operation of the slot returns a loop record; a send counts one, and no other touches
\* the count of an arming.
LEMMA SlotOperators ==
  ASSUME NEW e \in LoopRecords
  PROVE  /\ NewArming(e, StartGoal(e))
         /\ ResumeGoal(e) = e \/ NewArming(e, ResumeGoal(e))
         /\ \A s \in Statuses, x \in Reasons : SameArming(e, Resolve(e, s, x))
         /\ SameArming(e, StopLoop(e))
         /\ \A phase \in Phases : SameArming(e, SetPhase(e, phase))
         /\ SameArming(e, [e EXCEPT !.late = FALSE])
         /\ RecordSend(e) \in LoopRecords /\ RecordSend(e).armedAt = e.armedAt
         /\ RecordSend(e).iterations <= e.iterations + 1
<1> USE DEF LoopRecords
<1>1. NewArming(e, StartGoal(e))
  <2>1. NoLoop \in LoopRecords /\ NoLoop.iterations = 0
    BY DEF NoLoop, Statuses, Reasons, Phases
  <2>2. \A l \in LoopRecords, n \in Nat :
          LET f == [l EXCEPT !.armedAt = n, !.active = TRUE, !.status = "looping", !.late = TRUE]
          IN f \in LoopRecords /\ f.armedAt = n /\ f.iterations = l.iterations
    BY DEF Statuses
  <2>3. e.armedAt + 1 \in Nat
    OBVIOUS
  <2> QED BY <2>1, <2>2, <2>3 DEF StartGoal, NewArming
<1>2. ResumeGoal(e) = e \/ ResumeGoal(e) = StartGoal(e)
  BY DEF ResumeGoal
<1>3. \A s \in Statuses, x \in Reasons : SameArming(e, Resolve(e, s, x))
  BY DEF Resolve, SameArming
<1>4. SameArming(e, StopLoop(e))
  BY <1>3 DEF StopLoop, Statuses, Reasons
<1>5. \A phase \in Phases : SameArming(e, SetPhase(e, phase))
  BY DEF SetPhase, SameArming
<1>6. SameArming(e, [e EXCEPT !.late = FALSE])
  BY DEF SameArming
<1>7. /\ RecordSend(e) \in LoopRecords /\ RecordSend(e).armedAt = e.armedAt
      /\ RecordSend(e).iterations <= e.iterations + 1
  <2>1. \A n \in Nat, b \in BOOLEAN :
          LET f == [e EXCEPT !.iterations = n, !.sent = b, !.status = "looping", !.reason = "none"]
          IN f \in LoopRecords /\ f.armedAt = e.armedAt /\ f.iterations = n
    BY DEF Statuses, Reasons
  <2>2. e.iterations + 1 \in Nat /\ (~e.late) \in BOOLEAN /\ e.iterations <= e.iterations + 1
    OBVIOUS
  <2>3. LET f == [e EXCEPT !.iterations = e.iterations + 1, !.sent = ~e.late, !.status = "looping", !.reason = "none"]
        IN f \in LoopRecords /\ f.armedAt = e.armedAt /\ f.iterations = e.iterations + 1
    BY <2>1, <2>2, Zenon
  <2> QED BY <2>2, <2>3 DEF RecordSend
<1> HIDE DEF LoopRecords
<1> QED BY <1>1, <1>2, <1>3, <1>4, <1>5, <1>6, <1>7

-----------------------------------------------------------------------------
(* Which steps write which variable.                                       *)

Endings == {"done", "stopped", "error"}
RecWrites ==
  \/ \E c \in Convs, end \in Endings, session \in BOOLEAN : TurnEnds(c, end, session)
  \/ \E p \in Callers : StoreRunning(p) \/ StopEnds(p) \/ Unblock(p) \/ QueueIt(p) \/ Unhold(p)
  \/ PlanBlocked \/ Hold \/ EndIt \/ DrainQueue \/ MarkDelivered
LoopWrites ==
  \/ \E p \in Callers : Arm(p) \/ StopTheLoop(p) \/ Resume(p)
  \/ TickBegins \/ ResolveIt \/ SendIt \/ EnterPhase
RunWrites ==
  \/ \E c \in Convs, kind \in Kinds : Speak(c, kind)
  \/ \E c \in Convs, end \in Endings, session \in BOOLEAN : TurnEnds(c, end, session)
  \/ \E p \in Callers : StopTheRun(p) \/ FollowUpClaims(p)
  \/ ClaimSlot \/ Restart
ReplyWrites  == (\E c \in Convs, kind \in Kinds : Speak(c, kind)) \/ TickBegins \/ SendIt
ParentWrites == ParentTurnEnds \/ (\E p \in Callers : ChatClaims(p)) \/ ParentSends \/ ClaimParent \/ Restart
MissedWrites == (\E c \in Convs : TickWaits(c) \/ TickDecides(c)) \/ Restart
CallWrites   == NewRequest \/ (\E p \in Callers : RequestStep(p)) \/ Restart
HistWrites   == (\E p \in Callers : StopEnds(p) \/ QueueIt(p)) \/ EndIt \/ SendIt \/ PostSummary
UsedWrites   == NewRequest \/ ParentHasASend \/ Restart

\* Every step leaves a variable alone or is listed among its writers.
LEMMA WhoWrites ==
  ASSUME [Next]_vars
  PROVE  /\ rec' = rec \/ RecWrites
         /\ loop' = loop \/ LoopWrites
         /\ run' = run \/ RunWrites
         /\ reply' = reply \/ ReplyWrites
         /\ parent' = parent \/ ParentWrites
         /\ missed' = missed \/ MissedWrites
         /\ eng' = eng \/ EngineStep \/ Restart
         /\ call' = call \/ CallWrites
         /\ hist' = hist \/ HistWrites
         /\ used' = used \/ UsedWrites
<1> USE DEF RecWrites, LoopWrites, RunWrites, ReplyWrites, ParentWrites, MissedWrites, CallWrites,
            HistWrites, UsedWrites, Endings
<1>1. CASE TurnSteps
  BY <1>1 DEF TurnSteps, Speak, TurnEnds, ParentTurnEnds
<1>2. CASE NewRequest
  BY <1>2 DEF NewRequest, Chat, Start, Continue, Stop, LaneStop, Message, FollowUp
<1>3. ASSUME NEW p \in Callers, RequestStep(p)
      PROVE  /\ rec' = rec \/ RecWrites
             /\ loop' = loop \/ LoopWrites
             /\ run' = run \/ RunWrites
             /\ reply' = reply \/ ReplyWrites
             /\ parent' = parent \/ ParentWrites
             /\ missed' = missed
             /\ eng' = eng
             /\ CallWrites
             /\ hist' = hist \/ HistWrites
             /\ used' = used
  BY <1>3 DEF RequestStep, StoreRunning, Arm, StopTheLoop, StopTheRun, StopEnds, LookWhetherHeld,
              Unblock, QueueIt, Unhold, Resume, FollowUpClaims, ChatClaims
<1>4. CASE EngineStep
  BY <1>4 DEF EngineStep, TickBegins, ParentHasNothing, ParentHasASend, ParentSends, ReconcileBegins,
              LoopsBegin, Reconcile, TickSkips, TickWaits, TickDecides, PlanBlocked, Hold, EndIt, ResolveIt,
              Resolved, DrainQueue, ClaimSlot, SendIt, EnterPhase, DeliverBegins, ClaimParent,
              MarkDelivered, PostSummary
<1>5. CASE Restart
  BY <1>5 DEF Restart
<1>6. CASE UNCHANGED vars
  BY <1>6 DEF vars
<1>7. CASE \E p \in Callers : RequestStep(p)
  BY <1>3, <1>7
<1> HIDE DEF RecWrites, LoopWrites, RunWrites, ReplyWrites, ParentWrites, MissedWrites, CallWrites,
             HistWrites, UsedWrites
<1> QED BY <1>1, <1>2, <1>4, <1>5, <1>6, <1>7 DEF Next

-----------------------------------------------------------------------------
(* Types.                                                                  *)

\* The engine's moves from one conversation to the next, and to one it has work on.
LEMMA EngineMoves ==
  ASSUME eng \in Engine
  PROVE  /\ Resting \in Engine
         /\ \A todo \in SUBSET Convs : NextConv(todo) \in Engine
         /\ \A c \in Convs, at \in AtWork \ {"end", "phase"} : Working(c, at) \in Engine
         /\ \A c \in Convs, at \in AtWork \ {"phase"}, s \in EndStates :
              [Working(c, at) EXCEPT !.status = s] \in Engine
<1>1. <<>> \in Seq(Messages)
  OBVIOUS
<1>2. Resting \in Engine
  <2>1. \A q \in Seq(Messages) : q = <<>> =>
          [at |-> "idle", lap |-> "none", todo |-> {}, conv |-> Nobody, held |-> {}, awaits |-> {},
           status |-> "none", reason |-> "none", enter |-> "none", taken |-> q, ending |-> 0] \in Engine
    BY DEF Engine, Engines, AtWork, Statuses, Reasons
  <2> QED BY <1>1, <2>1 DEF Resting
<1>3. Resting.taken = <<>>
  BY DEF Resting
<1>4. ASSUME NEW todo \in SUBSET Convs
      PROVE  NextConv(todo) \in Engine /\ NextConv(todo).taken = <<>>
  <2> DEFINE next(e, l, h, a) == [e EXCEPT !.at = "each", !.lap = l, !.todo = todo, !.held = h, !.awaits = a]
  <2>1. ASSUME NEW e \in Engines, NEW l \in {"none", "reconcile", "loops"},
               NEW h \in SUBSET Convs, NEW a \in SUBSET Convs
        PROVE  /\ next(e, l, h, a) \in Engines
               /\ next(e, l, h, a).at = "each" /\ next(e, l, h, a).taken = e.taken
    BY DEF Engines
  <2>2. eng.lap \in {"none", "reconcile", "loops"} /\ eng.held \in SUBSET Convs /\ eng.awaits \in SUBSET Convs
    BY DEF Engine, Engines
  <2>3. Resting \in Engines
    BY <1>2 DEF Engine
  <2>4. NextConv(todo) = next(Resting, eng.lap, eng.held, eng.awaits)
    BY DEF NextConv
  <2> HIDE DEF next
  <2>5. NextConv(todo) \in Engines /\ NextConv(todo).at = "each" /\ NextConv(todo).taken = <<>>
    BY <1>3, <2>1, <2>2, <2>3, <2>4
  <2> QED BY <2>5 DEF Engine, AtWork
<1>5. ASSUME NEW c \in Convs
      PROVE  NextConv(eng.todo \ {c}) \in Engine /\ NextConv(eng.todo \ {c}).taken = <<>>
  BY <1>4 DEF Engine, Engines
<1>6. ASSUME NEW c \in Convs, NEW at \in AtWork \ {"phase"}
      PROVE  /\ at # "end" => Working(c, at) \in Engine
             /\ \A s \in EndStates : [Working(c, at) EXCEPT !.status = s] \in Engine
  <2> DEFINE n == NextConv(eng.todo \ {c})
  <2>1. n \in Engine /\ n.taken = <<>>
    BY <1>5
  <2> HIDE DEF n
  <2>2. n \in Engines
    BY <2>1 DEF Engine
  <2>3. LET f == [n EXCEPT !.at = at, !.conv = c]
        IN f \in Engines /\ f.at = at /\ f.conv = c /\ f.taken = n.taken
    BY <2>2 DEF Engines, AtWork
  <2>4. Working(c, at) \in Engines /\ Working(c, at).at = at /\ Working(c, at).conv = c
        /\ Working(c, at).taken = <<>>
    BY <2>1, <2>3 DEF Working, n
  <2>5. at # "end" => Working(c, at) \in Engine
    BY <2>4 DEF Engine
  <2> DEFINE marked(f, s) == [f EXCEPT !.status = s]
  <2>6. ASSUME NEW f \in Engines, NEW s \in EndStates
        PROVE  /\ marked(f, s) \in Engines /\ marked(f, s).at = f.at /\ marked(f, s).conv = f.conv
               /\ marked(f, s).taken = f.taken /\ marked(f, s).status = s
    BY DEF Engines, EndStates, Statuses
  <2>7. ASSUME NEW s \in EndStates
        PROVE  marked(Working(c, at), s) \in Engine
    <3> HIDE DEF marked
    <3> QED BY <2>4, <2>6 DEF Engine
  <2> QED BY <2>5, <2>7
<1> QED BY <1>2, <1>4, <1>6

\* A request between its steps has a conversation at hand.
LEMMA CallConv ==
  ASSUME Types, NEW p \in Callers
  PROVE  /\ call[p] \in Requests
         /\ call[p].at \notin {"done", "claim"} => call[p].conv \in Convs
         /\ call[p].op = "follow" => call[p].conv \in Convs
  BY DEF Types, ThreadsOK, Request

LEMMA EngConv ==
  ASSUME Types
  PROVE  /\ eng \in Engines /\ eng.todo \in SUBSET Convs
         /\ eng.at \in AtWork => eng.conv \in Convs
         /\ eng.at = "end" => eng.status \in EndStates
         /\ eng.at = "phase" => eng.enter \in Phases
         /\ eng.at \notin {"claim", "send"} => eng.taken = <<>>
  BY DEF Types, ThreadsOK, Engine, Engines

\* There is a message left for every request on its way to the queue.
LEMMA FreshMessage ==
  ASSUME Types, Counting, NEW p \in Callers, At(p, "queue")
  PROVE  (CHOOSE m \in Messages \ hist.accepted : TRUE) \in Messages \ hist.accepted
<1>1. p \in Writing
  BY DEF At, Writing
<1>2. Cardinality(Writing) \in Nat /\ Cardinality(Writing) # 0
  BY <1>1, FS_CardinalityType, FS_EmptySet DEF Counting
<1>3. Cardinality(hist.accepted) \in Nat
  BY FS_CardinalityType DEF Counting
<1>4. used.calls \in Nat /\ MaxCalls \in Nat /\ Cardinality(Messages) \in Nat /\ MaxCalls <= Cardinality(Messages)
  BY FS_CardinalityType, GoalAssumption DEF Types, PastOK
<1>5. hist.accepted \in SUBSET Messages
  BY DEF Types, PastOK, Past
<1>6. hist.accepted # Messages
  BY <1>2, <1>3, <1>4 DEF Counting
<1>7. \E m : m \in Messages \ hist.accepted
  BY <1>5, <1>6
<1> QED BY <1>7

\* What a step writes is a record of the store, and no step but QueueIt lengthens a queue.
LEMMA RecStep ==
  ASSUME Types, Counting, [Next]_vars
  PROVE  /\ rec' \in [Convs -> StoreRecords]
         /\ \/ \E p \in Callers : QueueIt(p)
            \/ \A c \in Convs : rec'[c].queue = rec[c].queue \/ rec'[c].queue = <<>>
<1> DEFINE Shrinks(c, r) == r \in StoreRecords /\ (r.queue = rec[c].queue \/ r.queue = <<>>)
           Goal == /\ rec' \in [Convs -> StoreRecords]
                   /\ \A c \in Convs : rec'[c].queue = rec[c].queue \/ rec'[c].queue = <<>>
<1>0. "done" \in EndStates
  BY DEF EndStates
<1>1. rec \in [Convs -> StoreRecords]
  BY DEF Types, StoresOK
<1>2. ASSUME NEW c \in Convs, NEW r, Shrinks(c, r), rec' = [rec EXCEPT ![c] = r]
      PROVE  Goal
  BY <1>1, <1>2
<1>3. \A c \in Convs : Shrinks(c, rec[c])
  BY <1>1
<1>4. ASSUME NEW c \in Convs, NEW state \in EndStates, NEW b \in BOOLEAN
      PROVE  /\ Shrinks(c, StartRecord) /\ Shrinks(c, Reopened(rec[c]))
             /\ Shrinks(c, Ended(rec[c], state, hist.endings + 1))
             /\ Shrinks(c, MarkedDelivered(rec[c])) /\ Shrinks(c, WithHeld(rec[c], b))
             /\ Shrinks(c, WithPlan(rec[c], b)) /\ Shrinks(c, [rec[c] EXCEPT !.session = b])
             /\ Shrinks(c, Drained(rec[c]))
  <2>1. rec[c] \in StoreRecords /\ hist.endings + 1 \in Nat
    BY <1>1 DEF Types, PastOK, Past
  <2> QED BY <2>1, RecordOperators
<1> HIDE DEF Shrinks, Goal
<1>5. ASSUME NEW c \in Convs, NEW end \in Endings, NEW session \in BOOLEAN, TurnEnds(c, end, session)
      PROVE  Goal
  <2>1. rec' = [rec EXCEPT ![c] = [rec[c] EXCEPT !.session = session]]
    BY <1>5 DEF TurnEnds
  <2>2. Shrinks(c, [rec[c] EXCEPT !.session = session])
    BY <1>4, <1>0
  <2> QED BY <1>2, <2>1, <2>2
<1>6. ASSUME NEW p \in Callers, StoreRunning(p) PROVE Goal
  <2>1. call[p].conv \in Convs
    BY <1>6, CallConv DEF StoreRunning, At
  <2>2. CASE IsRunning(rec[call[p].conv])
    <3>1. rec' = rec
      BY <1>6, <2>2 DEF StoreRunning
    <3> QED BY <1>1, <3>1 DEF Goal
  <2>3. CASE ~IsRunning(rec[call[p].conv])
    <3>1. \/ rec' = [rec EXCEPT ![call[p].conv] = StartRecord]
          \/ rec' = [rec EXCEPT ![call[p].conv] = Reopened(rec[call[p].conv])]
      BY <1>6, <2>3 DEF StoreRunning
    <3>2. Shrinks(call[p].conv, StartRecord) /\ Shrinks(call[p].conv, Reopened(rec[call[p].conv]))
      BY <1>4, <2>1, <1>0
    <3> QED BY <1>2, <2>1, <3>1, <3>2
  <2> QED BY <2>2, <2>3
<1>7. ASSUME NEW p \in Callers, StopEnds(p) PROVE Goal
  <2>1. call[p].conv \in Convs
    BY <1>7, CallConv DEF StopEnds, At
  <2>2. rec' = [rec EXCEPT ![call[p].conv] = Ended(rec[call[p].conv], "stopped", hist.endings + 1)]
    BY <1>7 DEF StopEnds, EndRecord
  <2>3. Shrinks(call[p].conv, Ended(rec[call[p].conv], "stopped", hist.endings + 1))
    BY <1>4, <2>1 DEF EndStates
  <2> QED BY <1>2, <2>1, <2>2, <2>3
<1>8. ASSUME NEW p \in Callers, Unblock(p) \/ Unhold(p) PROVE Goal
  <2>1. call[p].conv \in Convs
    BY <1>8, CallConv DEF Unblock, Unhold, At
  <2>2. \/ rec' = [rec EXCEPT ![call[p].conv] = WithPlan(rec[call[p].conv], FALSE)]
        \/ rec' = [rec EXCEPT ![call[p].conv] = WithHeld(rec[call[p].conv], FALSE)]
    BY <1>8 DEF Unblock, Unhold
  <2>3. /\ Shrinks(call[p].conv, WithPlan(rec[call[p].conv], FALSE))
        /\ Shrinks(call[p].conv, WithHeld(rec[call[p].conv], FALSE))
    BY <1>4, <2>1, <1>0
  <2> QED BY <1>2, <2>1, <2>2, <2>3
<1>9. ASSUME PlanBlocked \/ Hold PROVE Goal
  <2>1. eng.conv \in Convs
    BY <1>9, EngConv DEF PlanBlocked, Hold, AtWork
  <2>2. \/ rec' = [rec EXCEPT ![eng.conv] = rec[eng.conv]]
        \/ rec' = [rec EXCEPT ![eng.conv] = WithPlan(rec[eng.conv], TRUE)]
        \/ rec' = [rec EXCEPT ![eng.conv] = WithHeld(rec[eng.conv], TRUE)]
    BY <1>9 DEF PlanBlocked, Hold
  <2>3. Shrinks(eng.conv, WithPlan(rec[eng.conv], TRUE)) /\ Shrinks(eng.conv, WithHeld(rec[eng.conv], TRUE))
    BY <1>4, <2>1, <1>0
  <2> QED BY <1>2, <1>3, <2>1, <2>2, <2>3
<1>10. ASSUME EndIt PROVE Goal
  <2>1. eng.conv \in Convs /\ eng.status \in EndStates
    BY <1>10, EngConv DEF EndIt, AtWork
  <2>2. rec' = [rec EXCEPT ![eng.conv] = Ended(rec[eng.conv], eng.status, hist.endings + 1)]
    BY <1>10 DEF EndIt, EndRecord
  <2>3. Shrinks(eng.conv, Ended(rec[eng.conv], eng.status, hist.endings + 1))
    BY <1>4, <2>1
  <2> QED BY <1>2, <2>1, <2>2, <2>3
<1>11. ASSUME DrainQueue \/ MarkDelivered PROVE Goal
  <2>1. eng.conv \in Convs
    BY <1>11, EngConv DEF DrainQueue, MarkDelivered, AtWork
  <2>2. \/ rec' = rec
        \/ rec' = [rec EXCEPT ![eng.conv] = Drained(rec[eng.conv])]
        \/ rec' = [rec EXCEPT ![eng.conv] = MarkedDelivered(rec[eng.conv])]
    BY <1>11 DEF DrainQueue, MarkDelivered
  <2>3. CASE rec' = rec
    BY <1>1, <2>3 DEF Goal
  <2>4. Shrinks(eng.conv, Drained(rec[eng.conv])) /\ Shrinks(eng.conv, MarkedDelivered(rec[eng.conv]))
    BY <1>4, <2>1, <1>0
  <2> QED BY <1>2, <2>1, <2>2, <2>3, <2>4
<1>12. ASSUME NEW p \in Callers, QueueIt(p) PROVE rec' \in [Convs -> StoreRecords]
  <2> DEFINE m == CHOOSE m \in Messages \ hist.accepted : TRUE
  <2>1. call[p].conv \in Convs /\ m \in Messages
    BY <1>12, CallConv, FreshMessage DEF QueueIt, At
  <2>2. rec' = [rec EXCEPT ![call[p].conv] = Queued(rec[call[p].conv], m)]
    BY <1>12 DEF QueueIt
  <2> HIDE DEF m
  <2>3. Queued(rec[call[p].conv], m) \in StoreRecords
    BY <1>1, <2>1, QueuedOne
  <2> QED BY <1>1, <2>1, <2>2, <2>3
<1>13. ASSUME rec' = rec PROVE Goal
  BY <1>1, <1>13 DEF Goal
<1>14. rec' = rec \/ RecWrites
  BY WhoWrites
<1> QED BY <1>5, <1>6, <1>7, <1>8, <1>9, <1>10, <1>11, <1>12, <1>13, <1>14 DEF RecWrites, Goal

\* A loop keeps its arming and its count, is armed anew, or has one more turn counted by SendIt.
LEMMA LoopStep ==
  ASSUME Types, [Next]_vars
  PROVE  /\ loop' \in [Convs -> LoopRecords]
         /\ \A c \in Convs :
              \/ SameArming(loop[c], loop'[c])
              \/ NewArming(loop[c], loop'[c])
              \/ /\ SendIt /\ c = eng.conv /\ loop'[c].armedAt = loop[c].armedAt
                 /\ loop'[c].iterations <= loop[c].iterations + 1
<1> DEFINE Moves(c, e) == \/ SameArming(loop[c], e) \/ NewArming(loop[c], e)
                          \/ /\ SendIt /\ c = eng.conv /\ e.armedAt = loop[c].armedAt
                             /\ e.iterations <= loop[c].iterations + 1
           Goal == loop' \in [Convs -> LoopRecords] /\ \A c \in Convs : Moves(c, loop'[c])
<1>1. loop \in [Convs -> LoopRecords]
  BY DEF Types, StoresOK
<1>2. \A c \in Convs : loop[c] \in LoopRecords /\ Moves(c, loop[c])
  BY <1>1 DEF SameArming
<1>3. ASSUME NEW c \in Convs, NEW e \in LoopRecords, Moves(c, e), loop' = [loop EXCEPT ![c] = e]
      PROVE  Goal
  <2> HIDE DEF Moves
  <2>1. \A d \in Convs : loop'[d] = IF d = c THEN e ELSE loop[d]
    BY <1>1, <1>3
  <2>2. loop' \in [Convs -> LoopRecords]
    BY <1>1, <1>3
  <2>3. \A d \in Convs : Moves(d, loop'[d])
    BY <1>2, <1>3, <2>1
  <2> QED BY <2>2, <2>3
<1>4. ASSUME NEW c \in Convs
      PROVE  /\ Moves(c, StartGoal(loop[c])) /\ Moves(c, ResumeGoal(loop[c])) /\ Moves(c, StopLoop(loop[c]))
             /\ StartGoal(loop[c]) \in LoopRecords /\ ResumeGoal(loop[c]) \in LoopRecords
             /\ StopLoop(loop[c]) \in LoopRecords
  <2>1. loop[c] \in LoopRecords
    BY <1>1
  <2>2. /\ NewArming(loop[c], StartGoal(loop[c])) /\ SameArming(loop[c], StopLoop(loop[c]))
        /\ ResumeGoal(loop[c]) = loop[c] \/ NewArming(loop[c], ResumeGoal(loop[c]))
    BY <2>1, SlotOperators
  <2>3. SameArming(loop[c], loop[c])
    BY <2>1 DEF SameArming
  <2> QED BY <2>1, <2>2, <2>3 DEF SameArming, NewArming
<1>5. ASSUME NEW p \in Callers, Arm(p) \/ StopTheLoop(p) \/ Resume(p) PROVE Goal
  <2>1. call[p].conv \in Convs
    BY <1>5, CallConv DEF Arm, StopTheLoop, Resume, At
  <2>2. \/ loop' = [loop EXCEPT ![call[p].conv] = StartGoal(loop[call[p].conv])]
        \/ loop' = [loop EXCEPT ![call[p].conv] = StopLoop(loop[call[p].conv])]
        \/ loop' = [loop EXCEPT ![call[p].conv] = ResumeGoal(loop[call[p].conv])]
    BY <1>5 DEF Arm, StopTheLoop, Resume
  <2> HIDE DEF Moves, Goal
  <2> QED BY <1>3, <1>4, <2>1, <2>2
<1>6. ASSUME TickBegins PROVE Goal
  <2>1. ASSUME NEW c \in Convs PROVE SameArming(loop[c], loop'[c])
    <3>1. SameArming(loop[c], [loop[c] EXCEPT !.late = FALSE])
      BY <1>2, SlotOperators
    <3>2. loop'[c] = [loop[c] EXCEPT !.late = FALSE]
      BY <1>6 DEF TickBegins
    <3> QED BY <3>1, <3>2
  <2>2. loop' = [c \in Convs |-> [loop[c] EXCEPT !.late = FALSE]]
    BY <1>6 DEF TickBegins
  <2>3. loop' \in [Convs -> LoopRecords]
    <3>1. \A c \in Convs : [loop[c] EXCEPT !.late = FALSE] \in LoopRecords
      BY <2>1, <2>2 DEF SameArming
    <3> QED BY <2>2, <3>1
  <2> QED BY <2>1, <2>3
<1>7. ASSUME ResolveIt \/ EnterPhase PROVE Goal
  <2>1. eng.conv \in Convs
    BY <1>7, EngConv DEF ResolveIt, EnterPhase, AtWork
  <2>2. eng.status \in Statuses /\ eng.reason \in Reasons
    BY EngConv DEF Engines
  <2>3. \/ loop' = [loop EXCEPT ![eng.conv] = Resolve(loop[eng.conv], eng.status, eng.reason)]
        \/ eng.enter \in Phases /\ loop' = [loop EXCEPT ![eng.conv] = SetPhase(loop[eng.conv], eng.enter)]
    BY <1>7, EngConv DEF ResolveIt, EnterPhase
  <2>4. /\ SameArming(loop[eng.conv], Resolve(loop[eng.conv], eng.status, eng.reason))
        /\ eng.enter \in Phases => SameArming(loop[eng.conv], SetPhase(loop[eng.conv], eng.enter))
    BY <1>2, <2>1, <2>2, SlotOperators
  <2>5. \A e : SameArming(loop[eng.conv], e) => e \in LoopRecords /\ Moves(eng.conv, e)
    BY DEF SameArming
  <2> HIDE DEF Moves, Goal
  <2> QED BY <1>3, <2>1, <2>3, <2>4, <2>5
<1>8. ASSUME SendIt PROVE Goal
  <2>1. eng.conv \in Convs
    BY <1>8, EngConv DEF SendIt, AtWork
  <2>2. loop' = [loop EXCEPT ![eng.conv] = RecordSend(loop[eng.conv])]
    BY <1>8 DEF SendIt
  <2>3. RecordSend(loop[eng.conv]) \in LoopRecords /\ Moves(eng.conv, RecordSend(loop[eng.conv]))
    BY <1>2, <1>8, <2>1, SlotOperators
  <2> HIDE DEF Moves, Goal
  <2> QED BY <1>3, <2>1, <2>2, <2>3
<1>9. ASSUME loop' = loop PROVE Goal
  <2> HIDE DEF Moves
  <2> QED BY <1>1, <1>2, <1>9
<1>10. loop' = loop \/ LoopWrites
  BY WhoWrites
<1>11. Goal
  <2> HIDE DEF Goal
  <2> QED BY <1>5, <1>6, <1>7, <1>8, <1>9, <1>10 DEF LoopWrites
<1> QED BY <1>11

\* Turns, replies, the parent's slot and the guards keep their types.
LEMMA TurnsStep ==
  ASSUME Types, [Next]_vars
  PROVE  TurnsOK'
<1>1. run \in [Convs -> Turns] /\ reply \in [Convs -> Replies] /\ missed \in [Convs -> Guards]
  BY DEF Types, TurnsOK
<1>2. NoRun \in Turns /\ \A e \in {"none"} \cup Endings : [NoRun EXCEPT !.end = e] \in Turns
  BY DEF NoRun, Turns, Endings
<1>3. ASSUME NEW c \in Convs, NEW by \in {"loop", "follow"}, NEW verify \in BOOLEAN
      PROVE  Begun(c, by, verify) \in Turns
  BY <1>2 DEF Begun, Turns
<1>4. ASSUME NEW c \in Convs, NEW t \in Turns, run' = [run EXCEPT ![c] = t] PROVE run' \in [Convs -> Turns]
  BY <1>1, <1>4
<1>5. run' \in [Convs -> Turns]
  <2>1. ASSUME NEW c \in Convs, NEW kind \in Kinds, Speak(c, kind) PROVE run' \in [Convs -> Turns]
    <3>1. run' = [run EXCEPT ![c] = [run[c] EXCEPT !.said = TRUE]]
      BY <2>1 DEF Speak
    <3>2. [run[c] EXCEPT !.said = TRUE] \in Turns
      BY <1>1 DEF Turns
    <3> QED BY <1>4, <3>1, <3>2
  <2>2. ASSUME NEW c \in Convs, NEW end \in Endings, NEW session \in BOOLEAN, TurnEnds(c, end, session)
        PROVE  run' \in [Convs -> Turns]
    BY <1>2, <1>4, <2>2 DEF TurnEnds
  <2>3. ASSUME NEW p \in Callers, StopTheRun(p) PROVE run' \in [Convs -> Turns]
    <3>1. call[p].conv \in Convs
      BY <2>3, CallConv DEF StopTheRun, At
    <3>2. run' = [run EXCEPT ![call[p].conv] = [run[call[p].conv] EXCEPT !.stop = run[call[p].conv].on]]
      BY <2>3 DEF StopTheRun
    <3>3. [run[call[p].conv] EXCEPT !.stop = run[call[p].conv].on] \in Turns
      BY <1>1, <3>1 DEF Turns
    <3> QED BY <1>4, <3>1, <3>2, <3>3
  <2>4. ASSUME NEW p \in Callers, FollowUpClaims(p) PROVE run' \in [Convs -> Turns]
    <3>1. call[p].conv \in Convs
      BY <2>4, CallConv DEF FollowUpClaims
    <3>2. \/ run' = [run EXCEPT ![call[p].conv] = run[call[p].conv]]
          \/ run' = [run EXCEPT ![call[p].conv] = Begun(call[p].conv, "follow", FALSE)]
      BY <2>4 DEF FollowUpClaims
    <3>3. run[call[p].conv] \in Turns /\ Begun(call[p].conv, "follow", FALSE) \in Turns
      BY <1>1, <1>3, <3>1
    <3> QED BY <1>4, <3>1, <3>2, <3>3
  <2>5. ASSUME ClaimSlot PROVE run' \in [Convs -> Turns]
    <3>1. eng.conv \in Convs
      BY <2>5, EngConv DEF ClaimSlot, AtWork
    <3>2. run' = run \/ run' = [run EXCEPT ![eng.conv] = Begun(eng.conv, "loop", eng.enter = "verify")]
      BY <2>5 DEF ClaimSlot
    <3>3. Begun(eng.conv, "loop", eng.enter = "verify") \in Turns
      BY <1>3, <3>1
    <3> QED BY <1>1, <1>4, <3>1, <3>2, <3>3
  <2>6. ASSUME Restart PROVE run' \in [Convs -> Turns]
    BY <1>2, <2>6 DEF Restart
  <2>7. run' = run \/ RunWrites
    BY WhoWrites
  <2> QED BY <1>1, <2>1, <2>2, <2>3, <2>4, <2>5, <2>6, <2>7 DEF RunWrites
<1>6. reply' \in [Convs -> Replies]
  <2>1. ASSUME NEW c \in Convs, NEW kind \in Kinds, Speak(c, kind) PROVE reply' \in [Convs -> Replies]
    <3> DEFINE said == [kind |-> kind, armedAt |-> loop[c].armedAt, newer |-> TRUE, fresh |-> TRUE,
                        answers |-> run[c].by = "loop", verdict |-> run[c].verify]
    <3>1. reply' = [reply EXCEPT ![c] = said]
      BY <2>1 DEF Speak
    <3>2. loop[c].armedAt \in Nat /\ run[c].verify \in BOOLEAN /\ (run[c].by = "loop") \in BOOLEAN
      BY <1>1 DEF Types, StoresOK, LoopRecords, Turns
    <3>3. said \in Replies
      BY <3>2 DEF Replies
    <3> HIDE DEF said
    <3> QED BY <1>1, <3>1, <3>3
  <2>2. ASSUME TickBegins PROVE reply' \in [Convs -> Replies]
    <3>1. reply' = [c \in Convs |-> [reply[c] EXCEPT !.fresh = FALSE]]
      BY <2>2 DEF TickBegins
    <3>2. \A c \in Convs : [reply[c] EXCEPT !.fresh = FALSE] \in Replies
      BY <1>1 DEF Replies
    <3> QED BY <3>1, <3>2
  <2>3. ASSUME SendIt PROVE reply' \in [Convs -> Replies]
    <3>1. eng.conv \in Convs
      BY <2>3, EngConv DEF SendIt, AtWork
    <3> DEFINE old == [reply[eng.conv] EXCEPT !.newer = reply[eng.conv].fresh, !.answers = FALSE]
    <3>2. reply' = [reply EXCEPT ![eng.conv] = old]
      BY <2>3, <3>1, <1>1 DEF SendIt
    <3>3. old \in Replies
      BY <1>1, <3>1 DEF Replies
    <3> HIDE DEF old
    <3> QED BY <1>1, <3>1, <3>2, <3>3
  <2>4. reply' = reply \/ ReplyWrites
    BY WhoWrites
  <2> QED BY <1>1, <2>1, <2>2, <2>3, <2>4 DEF ReplyWrites
<1>7. parent' \in {"nobody", "chat", "summary", "loop"}
  <2>1. parent' = parent \/ ParentWrites
    BY WhoWrites
  <2> QED BY <2>1 DEF Types, TurnsOK, ParentWrites, ParentTurnEnds, ChatClaims, ParentSends, ClaimParent, Restart
<1>8. missed' \in [Convs -> Guards]
  <2>1. ASSUME NEW c \in Convs, TickWaits(c) \/ TickDecides(c) PROVE missed' \in [Convs -> Guards]
    <3>1. Misses(c) \in Nat /\ Misses(c) + 1 \in Nat /\ loop[c].armedAt \in Nat
      BY <1>1 DEF Misses, Guards, Types, StoresOK, LoopRecords
    <3>2. PICK n \in Nat : SetMisses(c, n)
      BY <2>1, <3>1 DEF TickWaits, TickDecides
    <3>3. [armedAt |-> loop[c].armedAt, n |-> n] \in Guards
      BY <3>1 DEF Guards
    <3> QED BY <1>1, <3>2, <3>3 DEF SetMisses
  <2>2. ASSUME Restart PROVE missed' \in [Convs -> Guards]
    BY <2>2 DEF Restart, Guards
  <2>3. missed' = missed \/ MissedWrites
    BY WhoWrites
  <2> QED BY <1>1, <2>1, <2>2, <2>3 DEF MissedWrites
<1> QED BY <1>5, <1>6, <1>7, <1>8 DEF TurnsOK

\* Where the engine is after a move.
LEMMA MoveFields ==
  /\ Resting.at = "idle" /\ Resting.taken = <<>>
  /\ \A todo : NextConv(todo).at = "each" /\ NextConv(todo).taken = <<>>
  /\ \A c, at : Working(c, at).at = at /\ Working(c, at).conv = c /\ Working(c, at).taken = <<>>
<1>1. Resting.at = "idle" /\ Resting.taken = <<>>
  BY DEF Resting
<1>2. ASSUME NEW todo PROVE NextConv(todo).at = "each" /\ NextConv(todo).taken = <<>>
  BY DEF NextConv, Resting
<1>3. ASSUME NEW c, NEW at PROVE Working(c, at).at = at /\ Working(c, at).conv = c /\ Working(c, at).taken = <<>>
  BY DEF Working, NextConv, Resting
<1> QED BY <1>1, <1>2, <1>3

\* The outcomes of a tick: a stop with its status and reason, or a send and the phase it enters.
LEMMA OutcomeKinds ==
  ASSUME Types, NEW c \in Convs
  PROVE  /\ Outcome(c).do \in {"stop", "send"} /\ Outcome(c).status \in Statuses
         /\ Outcome(c).reason \in Reasons /\ Outcome(c).enter \in {"none"} \cup Phases
         /\ Outcome(c).do = "send" => Outcome(c) = Decide(c) /\ ~(loop[c].iterations >= Cap)
<1> DEFINE OK(d) == /\ d.do \in {"stop", "send"} /\ d.status \in Statuses
                    /\ d.reason \in Reasons /\ d.enter \in {"none"} \cup Phases
<1>1. \A s \in Statuses, x \in Reasons : OK(ToStop(s, x)) /\ ToStop(s, x).do = "stop"
  BY DEF ToStop
<1>2. \A e \in {"none"} \cup Phases : OK(ToSend(e))
  BY DEF ToSend, Statuses, Reasons
<1> HIDE DEF OK
<1>3. OK(Decide(c))
  BY <1>1, <1>2 DEF Decide, Statuses, Reasons, Phases
<1>4. OK(ToStop("error", "no-reply")) /\ ToStop("error", "no-reply").do = "stop"
  BY <1>1 DEF Statuses, Reasons
<1>5. OK(ToStop("capped", "cap")) /\ ToStop("capped", "cap").do = "stop"
  BY <1>1 DEF Statuses, Reasons
<1>6. OK(Outcome(c)) /\ (Outcome(c).do = "send" => Outcome(c) = Decide(c) /\ ~(loop[c].iterations >= Cap))
  BY <1>3, <1>4, <1>5 DEF Outcome
<1> QED BY <1>6 DEF OK

LEMMA StateForEnds == \A s : StateFor(s) \in EndStates
  BY DEF StateFor, EndStates

\* The engine keeps a conversation at hand while it works on it, and messages only on the way
\* from DrainQueue to SendIt.
LEMMA EngStep ==
  ASSUME Types, [Next]_vars
  PROVE  /\ eng' \in Engine
         /\ \/ eng'.taken = eng.taken \/ eng'.taken = <<>>
            \/ DrainQueue
<1>1. /\ eng \in Engines /\ eng.todo \in SUBSET Convs
      /\ eng.at \in AtWork => eng.conv \in Convs
      /\ eng.at = "phase" => eng.enter \in Phases
      /\ eng.at \notin {"claim", "send"} => eng.taken = <<>>
  BY EngConv
<1>2. /\ Resting \in Engine
      /\ \A todo \in SUBSET Convs : NextConv(todo) \in Engine
      /\ \A c \in Convs, at \in AtWork \ {"end", "phase"} : Working(c, at) \in Engine
      /\ \A c \in Convs, at \in AtWork \ {"phase"}, s \in EndStates :
           [Working(c, at) EXCEPT !.status = s] \in Engine
  BY EngineMoves DEF Types, ThreadsOK
<1> DEFINE To(at)     == [eng EXCEPT !.at = at]
           Goal       == eng' \in Engine /\ (eng'.taken = eng.taken \/ eng'.taken = <<>>)
<1>3. ASSUME NEW at \in {"parent", "parentClaim", "reconcile"}, eng.at \notin {"claim", "send"}, eng' = To(at)
      PROVE  Goal
  BY <1>1, <1>3 DEF Engine, Engines, AtWork
<1>4. ASSUME NEW at \in {"hold", "resolved", "mark", "turn"}, eng.at \in AtWork \ {"claim", "send"}, eng' = To(at)
      PROVE  Goal
  BY <1>1, <1>4 DEF Engine, Engines, AtWork
<1>5. ASSUME NEW todo \in SUBSET Convs, eng' = Resting \/ eng' = NextConv(todo) PROVE Goal
  BY <1>2, <1>5, MoveFields
<1>6. CASE TickBegins \/ ParentHasNothing \/ ParentHasASend \/ ParentSends
  <2>1. \E at \in {"parent", "parentClaim", "reconcile"} : eng' = To(at)
    BY <1>6 DEF TickBegins, ParentHasNothing, ParentHasASend, ParentSends
  <2>2. eng.at \notin {"claim", "send"}
    BY <1>6 DEF TickBegins, ParentHasNothing, ParentHasASend, ParentSends
  <2> HIDE DEF To
  <2> QED BY <1>3, <2>1, <2>2
<1>7. CASE ReconcileBegins \/ LoopsBegin
  <2> DEFINE begun(e, lap, todo, h, a) ==
               [e EXCEPT !.at = "each", !.lap = lap, !.todo = todo, !.held = h, !.awaits = a]
  <2>1. ASSUME NEW e \in Engines, NEW lap \in {"reconcile", "loops"}, NEW todo \in SUBSET Convs,
               NEW h \in SUBSET Convs, NEW a \in SUBSET Convs
        PROVE  /\ begun(e, lap, todo, h, a) \in Engines
               /\ begun(e, lap, todo, h, a).at = "each" /\ begun(e, lap, todo, h, a).taken = e.taken
    BY DEF Engines
  <2>2. CASE ReconcileBegins
    <3>1. eng' = begun(eng, "reconcile", {c \in Convs : IsRunning(rec[c])}, {c \in Convs : rec[c].held},
                       {c \in Convs : rec[c].awaits})
      BY <2>2 DEF ReconcileBegins
    <3>2. eng.taken = <<>>
      BY <1>1, <2>2 DEF ReconcileBegins
    <3> HIDE DEF begun
    <3>3. eng' \in Engines /\ eng'.at = "each" /\ eng'.taken = <<>>
      BY <1>1, <2>1, <3>1, <3>2
    <3> QED BY <3>3 DEF Engine, AtWork
  <2>3. CASE LoopsBegin
    <3>1. eng' = [Resting EXCEPT !.at = "each", !.lap = "loops", !.todo = {c \in Convs : loop[c].active}]
      BY <2>3 DEF LoopsBegin
    <3> DEFINE laps(e, todo) == [e EXCEPT !.at = "each", !.lap = "loops", !.todo = todo]
    <3>2. \A e \in Engines, todo \in SUBSET Convs :
            laps(e, todo) \in Engines /\ laps(e, todo).at = "each" /\ laps(e, todo).taken = e.taken
      BY DEF Engines
    <3>3. eng' = laps(Resting, {c \in Convs : loop[c].active})
      BY <3>1
    <3>4. Resting \in Engines /\ Resting.taken = <<>>
      BY <1>2, MoveFields DEF Engine
    <3> HIDE DEF laps
    <3>5. eng' \in Engines /\ eng'.at = "each" /\ eng'.taken = <<>>
      BY <3>2, <3>3, <3>4
    <3> QED BY <3>5 DEF Engine, AtWork
  <2> QED BY <1>7, <2>2, <2>3
<1>8. ASSUME NEW c \in Convs, Reconcile(c) \/ TickSkips(c) \/ TickWaits(c) PROVE Goal
  <2>1. eng.todo \ {c} \in SUBSET Convs
    BY <1>1
  <2> DEFINE ends == [Working(c, "end") EXCEPT !.status = StateFor(loop[c].status)]
  <2>2. eng' = NextConv(eng.todo \ {c}) \/ eng' = Working(c, "plan") \/ eng' = ends
    BY <1>8 DEF Reconcile, TickSkips, TickWaits, Pass
  <2>3. Working(c, "plan") \in Engine /\ Working(c, "plan").taken = <<>>
    BY <1>2, MoveFields DEF AtWork
  <2>4. ends \in Engine
    BY <1>2, StateForEnds DEF AtWork
  <2>5. ends.taken = <<>>
    BY DEF Working, NextConv, Resting
  <2> HIDE DEF ends
  <2> QED BY <2>1, <1>5, <2>2, <2>3, <2>4, <2>5
<1>9. ASSUME NEW c \in Convs, TickDecides(c) PROVE Goal
  <2>1. /\ Working(c, "resolve") \in Engine /\ Working(c, "resolve").at = "resolve"
        /\ Working(c, "resolve").taken = <<>>
        /\ Working(c, "drain") \in Engine /\ Working(c, "drain").at = "drain"
        /\ Working(c, "drain").taken = <<>>
    BY <1>2, MoveFields DEF AtWork
  <2> DEFINE stops(e, s, x) == [e EXCEPT !.status = s, !.reason = x]
             sends(e, x)    == [e EXCEPT !.enter = x]
  <2>2. \A e \in Engine, s \in Statuses, x \in Reasons : e.at = "resolve" =>
          stops(e, s, x) \in Engine /\ stops(e, s, x).taken = e.taken
    BY DEF Engine, Engines, AtWork
  <2>3. \A e \in Engine, x \in {"none"} \cup Phases : e.at = "drain" =>
          sends(e, x) \in Engine /\ sends(e, x).taken = e.taken
    BY DEF Engine, Engines, AtWork
  <2>4. \/ eng' = stops(Working(c, "resolve"), Outcome(c).status, Outcome(c).reason)
        \/ eng' = NextConv(eng.todo \ {c})
        \/ eng' = sends(Working(c, "drain"), Outcome(c).enter)
    BY <1>9 DEF TickDecides
  <2>5. eng.todo \ {c} \in SUBSET Convs
    BY <1>1
  <2>6. /\ Outcome(c).status \in Statuses /\ Outcome(c).reason \in Reasons
        /\ Outcome(c).enter \in {"none"} \cup Phases
    BY OutcomeKinds
  <2> HIDE DEF stops, sends
  <2>7. /\ stops(Working(c, "resolve"), Outcome(c).status, Outcome(c).reason) \in Engine
        /\ stops(Working(c, "resolve"), Outcome(c).status, Outcome(c).reason).taken = <<>>
    BY <2>1, <2>2, <2>6
  <2>8. sends(Working(c, "drain"), Outcome(c).enter) \in Engine /\ sends(Working(c, "drain"), Outcome(c).enter).taken = <<>>
    BY <2>1, <2>3, <2>6
  <2> QED BY <1>5, <2>4, <2>5, <2>7, <2>8
<1>10. CASE PlanBlocked \/ ResolveIt \/ MarkDelivered \/ ClaimParent
  <2>1. eng' = Resting \/ \E at \in {"hold", "resolved", "mark", "turn"} : eng' = To(at)
    BY <1>10 DEF PlanBlocked, ResolveIt, MarkDelivered, ClaimParent
  <2>2. eng.at \in AtWork \ {"claim", "send"}
    BY <1>10 DEF PlanBlocked, ResolveIt, MarkDelivered, ClaimParent, AtWork
  <2> HIDE DEF To
  <2> QED BY <1>1, <1>4, <1>5, <2>1, <2>2
<1>11. CASE Hold \/ EndIt \/ EnterPhase \/ PostSummary
  BY <1>1, <1>5, <1>11 DEF Hold, EndIt, EnterPhase, PostSummary
<1>12. CASE Resolved
  <2>1. eng.conv \in Convs
    BY <1>1, <1>12 DEF Resolved, AtWork
  <2> DEFINE ends == [Working(eng.conv, "end") EXCEPT !.status = StateFor(loop[eng.conv].status)]
  <2>2. eng' = NextConv(eng.todo) \/ eng' = Working(eng.conv, "plan") \/ eng' = ends
    BY <1>12 DEF Resolved
  <2>3. Working(eng.conv, "plan") \in Engine /\ Working(eng.conv, "plan").taken = <<>>
    BY <1>2, <2>1, MoveFields DEF AtWork
  <2>4. ends \in Engine
    BY <1>2, <2>1, StateForEnds DEF AtWork
  <2>5. ends.taken = <<>>
    BY DEF Working, NextConv, Resting
  <2> HIDE DEF ends
  <2> QED BY <1>1, <1>5, <2>2, <2>3, <2>4, <2>5
<1>13. CASE DrainQueue
  <2>1. eng.conv \in Convs /\ eng.at = "drain"
    BY <1>1, <1>13 DEF DrainQueue, AtWork
  <2>2. rec[eng.conv].queue \in Seq(Messages)
    BY <2>1 DEF Types, StoresOK, StoreRecords, Records
  <2> DEFINE takes(q) == [eng EXCEPT !.at = "claim", !.taken = q]
  <2>3. \A q \in Seq(Messages) : takes(q) \in Engine
    BY <1>1, <2>1 DEF Engine, Engines, AtWork
  <2>4. To("claim") \in Engine
    BY <1>1, <2>1 DEF Engine, Engines, AtWork
  <2>5. eng' = takes(rec[eng.conv].queue) \/ eng' = To("claim")
    BY <1>13 DEF DrainQueue
  <2> HIDE DEF takes, To
  <2> QED BY <1>13, <2>2, <2>3, <2>4, <2>5
<1>14. CASE ClaimSlot
  <2>1. eng.conv \in Convs /\ eng.at = "claim"
    BY <1>1, <1>14 DEF ClaimSlot, AtWork
  <2>2. To("send") \in Engine /\ To("send").taken = eng.taken
    BY <1>1, <2>1 DEF Engine, Engines, AtWork
  <2>3. eng' = NextConv(eng.todo) \/ eng' = To("send")
    BY <1>14 DEF ClaimSlot
  <2> HIDE DEF To
  <2> QED BY <1>1, <1>5, <2>2, <2>3
<1>15. CASE SendIt
  <2>1. eng.conv \in Convs /\ eng.at = "send"
    BY <1>1, <1>15 DEF SendIt, AtWork
  <2> DEFINE phase(q) == [eng EXCEPT !.at = "phase", !.taken = q]
  <2>2. \A q \in Seq(Messages) :
          /\ phase(q) \in Engines /\ phase(q).at = "phase" /\ phase(q).taken = q
          /\ phase(q).conv = eng.conv /\ phase(q).enter = eng.enter
    BY <1>1 DEF Engines, AtWork
  <2>3. eng' = NextConv(eng.todo) \/ (eng.enter # "none" /\ eng' = phase(<<>>))
    BY <1>15 DEF SendIt
  <2>4. <<>> \in Seq(Messages) /\ eng.enter \in {"none"} \cup Phases
    BY <1>1 DEF Engines
  <2> HIDE DEF phase
  <2>5. CASE eng.enter # "none" /\ eng' = phase(<<>>)
    <3>1. eng' \in Engines /\ eng'.at = "phase" /\ eng'.taken = <<>> /\ eng'.conv \in Convs /\ eng'.enter \in Phases
      BY <2>1, <2>2, <2>4, <2>5
    <3> QED BY <3>1 DEF Engine
  <2> QED BY <1>1, <1>5, <2>3, <2>5
<1>16. CASE DeliverBegins
  <2> DEFINE posts(e, c, n) == [e EXCEPT !.at = "post", !.conv = c, !.ending = n]
  <2>1. eng' = Resting \/ \E c \in Convs : eng' = posts(Resting, c, rec[c].endedAt)
    BY <1>16 DEF DeliverBegins, Waiting
  <2>2. \A e \in Engines, c \in Convs, n \in Nat :
          /\ posts(e, c, n) \in Engines /\ posts(e, c, n).at = "post" /\ posts(e, c, n).conv = c
          /\ posts(e, c, n).taken = e.taken
    <3>1. "post" \in AtWork
      BY DEF AtWork
    <3> QED BY <3>1 DEF Engines
  <2>3. \A c \in Convs : rec[c].endedAt \in Nat
    BY DEF Types, StoresOK, StoreRecords, Records
  <2>4. Resting \in Engines /\ Resting.taken = <<>>
    BY <1>2, MoveFields DEF Engine
  <2> HIDE DEF posts
  <2>5. ASSUME NEW c \in Convs, eng' = posts(Resting, c, rec[c].endedAt) PROVE Goal
    <3>1. eng' \in Engines /\ eng'.at = "post" /\ eng'.conv = c /\ eng'.taken = <<>>
      BY <2>2, <2>3, <2>4, <2>5
    <3> QED BY <3>1 DEF Engine
  <2> QED BY <1>1, <1>5, <2>1, <2>5
<1>17. CASE Restart
  BY <1>1, <1>5, <1>17 DEF Restart
<1>18. CASE eng' = eng
  BY <1>18 DEF Types, ThreadsOK
<1>19. eng' = eng \/ EngineStep \/ Restart
  BY WhoWrites
<1> HIDE DEF To
<1> QED BY <1>6, <1>7, <1>8, <1>9, <1>10, <1>11, <1>12, <1>13, <1>14, <1>15, <1>16, <1>17, <1>18, <1>19
        DEF EngineStep

\* A request keeps its conversation from the first step to the last.
LEMMA CallStep ==
  ASSUME Types, [Next]_vars
  PROVE  call' \in [Callers -> Request]
<1>1. call \in [Callers -> Request]
  BY DEF Types, ThreadsOK
<1>2. ASSUME NEW p \in Callers, NEW d \in Request, call' = [call EXCEPT ![p] = d]
      PROVE  call' \in [Callers -> Request]
  BY <1>1, <1>2
<1>3. NoCall \in Request /\ NoCall.held = FALSE /\ NoCall.awaits = FALSE
  BY DEF NoCall, Request, Requests
<1> DEFINE Ops  == {"start", "continue", "stop", "lane", "message", "follow"}
           Ats  == {"store", "loop", "look", "claim"}
           Mids == {"arm", "run", "end", "unblock", "queue", "unhold", "resume"}
<1>4. ASSUME NEW p \in Callers, RequestStep(p) PROVE call' \in [Callers -> Request]
  <2>1. call[p] \in Requests
    BY CallConv
  <2>2. ASSUME NEW at \in Mids, call[p].conv \in Convs, Goto(p, at) PROVE call' \in [Callers -> Request]
    <3>1. call' = [call EXCEPT ![p] = [call[p] EXCEPT !.at = at]]
      BY <2>2 DEF Goto
    <3>2. [call[p] EXCEPT !.at = at] \in Request
      BY <2>1, <2>2 DEF Request, Requests
    <3> QED BY <1>2, <3>1, <3>2
  <2>3. ASSUME Return(p) PROVE call' \in [Callers -> Request]
    BY <1>2, <1>3, <2>3 DEF Return
  <2>4. CASE LookWhetherHeld(p)
    <3>1. call[p].conv \in Convs
      BY <2>4, CallConv DEF LookWhetherHeld, At
    <3> DEFINE looked(h, at) == [[call[p] EXCEPT !.held = h] EXCEPT !.at = at]
    <3>2. \A h \in BOOLEAN, at \in {"unblock", "queue"} : looked(h, at) \in Request
      BY <2>1, <3>1 DEF Request, Requests
    <3>3. PICK h \in BOOLEAN, at \in {"unblock", "queue"} : call' = [call EXCEPT ![p] = looked(h, at)]
      <4> DEFINE h  == call[p].held \/ (~loop[call[p].conv].active /\ loop[call[p].conv].status = "escalate")
                 at == IF call[p].awaits THEN "unblock" ELSE "queue"
      <4>1. h \in BOOLEAN /\ at \in {"unblock", "queue"}
        OBVIOUS
      <4>2. call' = [call EXCEPT ![p].held = h, ![p].at = at]
        BY <2>4 DEF LookWhetherHeld
      <4> HIDE DEF h, at
      <4>3. call' = [call EXCEPT ![p] = looked(h, at)]
        BY <1>1, <4>2
      <4> QED BY <4>1, <4>3
    <3> HIDE DEF looked
    <3> QED BY <1>2, <3>2, <3>3
  <2>5. CASE StoreRunning(p) \/ StopTheLoop(p) \/ StopTheRun(p) \/ Unblock(p) \/ QueueIt(p) \/ Unhold(p)
    <3>1. call[p].conv \in Convs
      BY <2>5, CallConv DEF StoreRunning, StopTheLoop, StopTheRun, Unblock, QueueIt, Unhold, At
    <3>2. Return(p) \/ \E at \in Mids : Goto(p, at)
      BY <2>5 DEF StoreRunning, StopTheLoop, StopTheRun, Unblock, QueueIt, Unhold
    <3> QED BY <2>2, <2>3, <3>1, <3>2
  <2>6. CASE Arm(p) \/ StopEnds(p) \/ Resume(p) \/ FollowUpClaims(p) \/ ChatClaims(p)
    BY <2>3, <2>6 DEF Arm, StopEnds, Resume, FollowUpClaims, ChatClaims
  <2> QED BY <1>4, <2>4, <2>5, <2>6 DEF RequestStep
<1>5. CASE NewRequest
  <2> DEFINE new(op, c, at) == [NoCall EXCEPT !.op = op, !.conv = c, !.at = at]
  <2>1. ASSUME NEW op \in Ops, NEW c \in Convs, NEW at \in Ats PROVE new(op, c, at) \in Request
    BY <1>3 DEF Request, Requests
  <2>2. new("chat", Nobody, "claim") \in Request
    BY <1>3 DEF Request, Requests
  <2>3. ASSUME NEW p \in Callers, NEW c \in Convs, Message(p, c) PROVE call' \in [Callers -> Request]
    <3> DEFINE d == [op |-> "message", conv |-> c, at |-> "look", held |-> rec[c].held, awaits |-> rec[c].awaits]
    <3>1. rec[c].held \in BOOLEAN /\ rec[c].awaits \in BOOLEAN
      BY DEF Types, StoresOK, StoreRecords, Records
    <3>2. d \in Request
      BY <3>1 DEF Request, Requests
    <3>3. call' = [call EXCEPT ![p] = d]
      BY <2>3 DEF Message
    <3> HIDE DEF d
    <3> QED BY <1>2, <3>2, <3>3
  <2>4. ASSUME NEW p \in Callers, NEW c \in Convs,
               Start(p, c) \/ Continue(p, c) \/ Stop(p, c) \/ LaneStop(p, c) \/ FollowUp(p, c)
        PROVE  call' \in [Callers -> Request]
    <3>1. PICK op \in Ops, at \in Ats : call' = [call EXCEPT ![p] = new(op, c, at)]
      BY <2>4 DEF Start, Continue, Stop, LaneStop, FollowUp, Begin
    <3> HIDE DEF new
    <3> QED BY <1>2, <2>1, <3>1
  <2>5. ASSUME NEW p \in Callers, Chat(p) PROVE call' \in [Callers -> Request]
    <3>1. call' = [call EXCEPT ![p] = new("chat", Nobody, "claim")]
      BY <2>5 DEF Chat, Begin
    <3> HIDE DEF new
    <3> QED BY <1>2, <2>2, <3>1
  <2> QED BY <1>5, <2>3, <2>4, <2>5 DEF NewRequest
<1>6. CASE Restart
  BY <1>3, <1>6 DEF Restart
<1>7. CASE call' = call
  BY <1>1, <1>7
<1>8. call' = call \/ CallWrites
  BY WhoWrites
<1> QED BY <1>4, <1>5, <1>6, <1>7, <1>8 DEF CallWrites

\* What happened is recorded in its types; only QueueIt accepts, only SendIt carries.
LEMMA PastStep ==
  ASSUME Types, Counting, [Next]_vars
  PROVE  PastOK'
<1>1. /\ hist \in Past /\ used \in [calls : Nat, own : Nat, restarts : Nat]
      /\ hist.endings \in Nat /\ hist.endings + 1 \in Nat /\ hist.posts \in Seq(Convs \X Nat)
  BY DEF Types, PastOK, Past
<1>2. hist' \in Past
  <2>1. ASSUME NEW c, NEW state, EndRecord(c, state) PROVE hist' \in Past
    <3>1. PICK n \in Nat : hist' = [hist EXCEPT !.endings = n]
      BY <1>1, <2>1 DEF EndRecord
    <3> QED BY <1>1, <3>1 DEF Past
  <2>2. ASSUME NEW p \in Callers, StopEnds(p) PROVE hist' \in Past
    BY <2>1, <2>2 DEF StopEnds
  <2>3. CASE EndIt
    BY <2>1, <2>3 DEF EndIt
  <2>4. ASSUME NEW p \in Callers, QueueIt(p) PROVE hist' \in Past
    <3> DEFINE c == call[p].conv
               m == CHOOSE m \in Messages \ hist.accepted : TRUE
               gone == (ToSet(rec[c].queue) \cup {m}) \ ToSet(rec'[c].queue)
    <3>1. c \in Convs /\ m \in Messages
      BY <2>4, CallConv, FreshMessage DEF QueueIt, At
    <3>2. rec[c].queue \in Seq(Messages)
      BY <3>1 DEF Types, StoresOK, StoreRecords, Records
    <3>3. ToSet(rec[c].queue) \in SUBSET Messages
      BY <3>2 DEF ToSet
    <3>4. hist' = hist \/ hist' = [hist EXCEPT !.accepted = @ \cup {m}, !.dropped = @ \cup gone]
      BY <2>4 DEF QueueIt
    <3>5. gone \in SUBSET Messages
      BY <3>1, <3>3
    <3> HIDE DEF m, gone, c
    <3>6. hist.accepted \cup {m} \in SUBSET Messages /\ hist.dropped \cup gone \in SUBSET Messages
      BY <1>1, <3>1, <3>5 DEF Past
    <3> DEFINE now(a, g) == [hist EXCEPT !.accepted = a, !.dropped = g]
    <3>7. \A a \in SUBSET Messages, g \in SUBSET Messages : now(a, g) \in Past
      BY <1>1 DEF Past
    <3>8. hist' = hist \/ hist' = now(hist.accepted \cup {m}, hist.dropped \cup gone)
      BY <3>4
    <3> HIDE DEF now
    <3> QED BY <1>1, <3>6, <3>7, <3>8
  <2>5. CASE SendIt
    <3>1. eng.taken \in Seq(Messages)
      BY EngConv DEF Engines
    <3>2. hist.carried \cup ToSet(eng.taken) \in SUBSET Messages
      BY <1>1, <3>1 DEF ToSet, Past
    <3>3. hist' = [hist EXCEPT !.carried = hist.carried \cup ToSet(eng.taken)]
      BY <2>5 DEF SendIt
    <3>4. \A k \in SUBSET Messages : [hist EXCEPT !.carried = k] \in Past
      BY <1>1 DEF Past
    <3> QED BY <3>2, <3>3, <3>4
  <2>6. CASE PostSummary
    <3>1. eng.conv \in Convs /\ eng.ending \in Nat
      BY <2>6, EngConv DEF PostSummary, AtWork, Engines
    <3>2. Append(hist.posts, <<eng.conv, eng.ending>>) \in Seq(Convs \X Nat)
      BY <1>1, <3>1
    <3>3. hist' = [hist EXCEPT !.posts = Append(hist.posts, <<eng.conv, eng.ending>>)]
      BY <2>6 DEF PostSummary
    <3>4. \A q \in Seq(Convs \X Nat) : [hist EXCEPT !.posts = q] \in Past
      BY <1>1 DEF Past
    <3> QED BY <3>2, <3>3, <3>4
  <2>7. CASE hist' = hist
    BY <1>1, <2>7
  <2>8. hist' = hist \/ HistWrites
    BY WhoWrites
  <2> QED BY <2>2, <2>3, <2>4, <2>5, <2>6, <2>7, <2>8 DEF HistWrites
<1>3. used' \in [calls : Nat, own : Nat, restarts : Nat]
  <2>1. used.calls + 1 \in Nat /\ used.own + 1 \in Nat /\ used.restarts + 1 \in Nat
    BY <1>1
  <2>2. \A n \in Nat : /\ [used EXCEPT !.calls = n] \in [calls : Nat, own : Nat, restarts : Nat]
                       /\ [used EXCEPT !.own = n] \in [calls : Nat, own : Nat, restarts : Nat]
                       /\ [used EXCEPT !.restarts = n] \in [calls : Nat, own : Nat, restarts : Nat]
    BY <1>1
  <2>3. \/ used' = used \/ used' = [used EXCEPT !.calls = used.calls + 1]
        \/ used' = [used EXCEPT !.own = used.own + 1] \/ used' = [used EXCEPT !.restarts = used.restarts + 1]
    <3>1. used' = used \/ UsedWrites
      BY WhoWrites
    <3> QED BY <3>1 DEF UsedWrites, NewRequest, Chat, Start, Continue, Stop, LaneStop, Message, FollowUp,
                        Begin, ParentHasASend, Restart
  <2> QED BY <1>1, <2>1, <2>2, <2>3
<1> QED BY <1>2, <1>3 DEF PastOK

LEMMA TypesStep ==
  ASSUME Types, Counting, [Next]_vars
  PROVE  Types'
<1>1. rec' \in [Convs -> StoreRecords]
  BY RecStep
<1>2. loop' \in [Convs -> LoopRecords]
  BY LoopStep
<1>3. TurnsOK'
  BY TurnsStep
<1>4. eng' \in Engine
  BY EngStep
<1>5. call' \in [Callers -> Request]
  BY CallStep
<1>6. PastOK'
  BY PastStep
<1> QED BY <1>1, <1>2, <1>3, <1>4, <1>5, <1>6 DEF Types, StoresOK, ThreadsOK

-----------------------------------------------------------------------------
(* There is always a message nobody has sent yet.                          *)

LEMMA CountingStep ==
  ASSUME Types, Counting, [Next]_vars
  PROVE  Counting'
<1> DEFINE W == {"look", "unblock", "queue"}
<1>1. /\ used.calls \in Nat /\ used.calls <= MaxCalls /\ MaxCalls \in Nat
      /\ IsFiniteSet(Writing) /\ IsFiniteSet(hist.accepted)
      /\ Cardinality(Writing) \in Nat /\ Cardinality(hist.accepted) \in Nat
      /\ Cardinality(hist.accepted) + Cardinality(Writing) <= used.calls
  BY GoalAssumption, FS_CardinalityType DEF Types, PastOK, Counting
<1>2. call \in [Callers -> Request] /\ hist \in Past /\ used \in [calls : Nat, own : Nat, restarts : Nat]
  BY DEF Types, ThreadsOK, PastOK
<1>3. ASSUME Writing' \subseteq Writing, hist'.accepted = hist.accepted, used'.calls = used.calls PROVE Counting'
  <2>1. IsFiniteSet(Writing') /\ Cardinality(Writing') <= Cardinality(Writing)
    BY <1>1, <1>3, FS_Subset
  <2>2. Cardinality(Writing') \in Nat
    BY <2>1, FS_CardinalityType
  <2> QED BY <1>1, <1>3, <2>1, <2>2 DEF Counting
<1>4. ASSUME NEW p \in Callers, RequestStep(p), ~QueueIt(p) PROVE Counting'
  <2>1. used' = used /\ (hist' = hist \/ \E n : hist' = [hist EXCEPT !.endings = n])
    BY <1>4 DEF RequestStep, StoreRunning, Arm, StopTheLoop, StopTheRun, StopEnds, EndRecord, LookWhetherHeld,
                Unblock, Unhold, Resume, FollowUpClaims, ChatClaims
  <2>2. hist'.accepted = hist.accepted
    BY <1>2, <2>1 DEF Past
  <2>3. \A q \in Callers \ {p} : call'[q] = call[q]
    BY <1>2, <1>4 DEF RequestStep, StoreRunning, Arm, StopTheLoop, StopTheRun, StopEnds, LookWhetherHeld,
                Unblock, Unhold, Resume, FollowUpClaims, ChatClaims, Goto, Return
  <2>4. call'[p].at \in W => call[p].at \in W
    <3>1. ASSUME Return(p) PROVE call'[p].at \notin W
      BY <1>2, <3>1 DEF Return, NoCall
    <3>2. ASSUME NEW at, at \notin W, Goto(p, at) PROVE call'[p].at \notin W
      <4>1. call'[p] = [call[p] EXCEPT !.at = at]
        BY <1>2, <3>2 DEF Goto
      <4> QED BY <1>2, <3>2, <4>1 DEF Request, Requests
    <3>3. CASE LookWhetherHeld(p) \/ Unblock(p)
      BY <3>3 DEF LookWhetherHeld, Unblock, At
    <3>4. CASE ~(LookWhetherHeld(p) \/ Unblock(p))
      <4>1. \/ Return(p) \/ Goto(p, "arm") \/ Goto(p, "run") \/ Goto(p, "end") \/ Goto(p, "resume")
        BY <1>4, <3>4 DEF RequestStep, StoreRunning, Arm, StopTheLoop, StopTheRun, StopEnds, Unhold, Resume,
                          FollowUpClaims, ChatClaims
      <4> QED BY <3>1, <3>2, <4>1
    <3> QED BY <3>3, <3>4
  <2>5. Writing' \subseteq Writing
    BY <2>3, <2>4 DEF Writing
  <2> QED BY <1>3, <2>1, <2>2, <2>5
<1>5. ASSUME NEW p \in Callers, QueueIt(p) PROVE Counting'
  <2>0. PICK m \in Messages \ hist.accepted : m = CHOOSE x \in Messages \ hist.accepted : TRUE
    BY <1>5, FreshMessage DEF QueueIt, At
  <2>1. p \in Writing /\ m \notin hist.accepted
    BY <1>5, <2>0 DEF QueueIt, At, Writing
  <2>2. call' \in [Callers -> Request] /\ \A q \in Callers \ {p} : call'[q] = call[q]
    BY <1>2, <1>5, CallStep DEF QueueIt, Goto, Return
  <2>3. call'[p].at \notin W
    <3>1. call' = [call EXCEPT ![p] = NoCall] \/ call' = [call EXCEPT ![p] = [call[p] EXCEPT !.at = "unhold"]]
      BY <1>5 DEF QueueIt, Goto, Return
    <3>2. NoCall.at = "done"
      BY DEF NoCall
    <3>3. [call[p] EXCEPT !.at = "unhold"].at = "unhold"
      BY <1>2 DEF Request, Requests
    <3> QED BY <1>2, <3>1, <3>2, <3>3
  <2>4. Writing' = Writing \ {p}
    BY <2>2, <2>3 DEF Writing
  <2>5. IsFiniteSet(Writing') /\ Cardinality(Writing') = Cardinality(Writing) - 1
    BY <1>1, <2>1, <2>4, FS_RemoveElement
  <2>6. hist'.accepted = hist.accepted \/ hist'.accepted = hist.accepted \cup {m}
    BY <1>2, <1>5, <2>0 DEF QueueIt, Past
  <2>7. /\ IsFiniteSet(hist.accepted \cup {m})
        /\ Cardinality(hist.accepted \cup {m}) = Cardinality(hist.accepted) + 1
    BY <1>1, <2>1, FS_AddElement
  <2>8. used' = used
    BY <1>5 DEF QueueIt
  <2>9. IsFiniteSet(hist'.accepted) /\ Cardinality(hist'.accepted) \in Nat
        /\ Cardinality(hist'.accepted) <= Cardinality(hist.accepted) + 1
    <3>1. CASE hist'.accepted = hist.accepted
      BY <1>1, <3>1
    <3>2. CASE hist'.accepted = hist.accepted \cup {m}
      BY <1>1, <2>7, <3>2
    <3> QED BY <2>6, <3>1, <3>2
  <2> QED BY <1>1, <2>5, <2>8, <2>9 DEF Counting
<1>6. ASSUME NEW p \in Callers, NEW d, call' = [call EXCEPT ![p] = d], call[p] = NoCall, used.calls < MaxCalls,
             used' = [used EXCEPT !.calls = @ + 1], hist' = hist
      PROVE  Counting'
  <2>1. used'.calls = used.calls + 1
    BY <1>2, <1>6
  <2>2. NoCall.at \notin W
    BY DEF NoCall
  <2>3. Writing' \subseteq Writing \cup {p}
    BY <1>2, <1>6 DEF Writing
  <2>4. /\ IsFiniteSet(Writing \cup {p})
        /\ \/ Cardinality(Writing \cup {p}) = Cardinality(Writing)
           \/ Cardinality(Writing \cup {p}) = Cardinality(Writing) + 1
    <3> HIDE DEF Writing
    <3> QED BY <1>1, FS_AddElement
  <2>5. IsFiniteSet(Writing') /\ Cardinality(Writing') <= Cardinality(Writing \cup {p})
    BY <2>3, <2>4, FS_Subset
  <2>6. Cardinality(Writing') \in Nat /\ Cardinality(Writing \cup {p}) \in Nat
    BY <2>4, <2>5, FS_CardinalityType
  <2> QED BY <1>1, <1>6, <2>1, <2>4, <2>5, <2>6 DEF Counting
<1>7. CASE NewRequest
  <2>1. PICK p \in Callers : Chat(p) \/ \E c \in Convs : Start(p, c) \/ Continue(p, c) \/ Stop(p, c)
                                \/ LaneStop(p, c) \/ Message(p, c) \/ FollowUp(p, c)
    BY <1>7 DEF NewRequest
  <2>2. /\ call[p] = NoCall /\ used.calls < MaxCalls /\ used' = [used EXCEPT !.calls = @ + 1] /\ hist' = hist
        /\ \E d : call' = [call EXCEPT ![p] = d]
    BY <2>1 DEF Chat, Start, Continue, Stop, LaneStop, Message, FollowUp, Begin
  <2> QED BY <1>6, <2>2
<1>8. CASE EngineStep
  <2>1. call' = call
    BY <1>8 DEF EngineStep, TickBegins, ParentHasNothing, ParentHasASend, ParentSends, ReconcileBegins,
              LoopsBegin, Reconcile, TickSkips, TickWaits, TickDecides, PlanBlocked, Hold, EndIt, ResolveIt,
              Resolved, DrainQueue, ClaimSlot, SendIt, EnterPhase, DeliverBegins, ClaimParent,
              MarkDelivered, PostSummary
  <2>2. used' = used \/ used' = [used EXCEPT !.own = @ + 1]
    BY <1>8 DEF EngineStep, TickBegins, ParentHasNothing, ParentHasASend, ParentSends, ReconcileBegins,
              LoopsBegin, Reconcile, TickSkips, TickWaits, TickDecides, PlanBlocked, Hold, EndIt, ResolveIt,
              Resolved, DrainQueue, ClaimSlot, SendIt, EnterPhase, DeliverBegins, ClaimParent,
              MarkDelivered, PostSummary
  <2>3. hist' = hist \/ EndIt \/ SendIt \/ PostSummary
    BY <1>8 DEF EngineStep, TickBegins, ParentHasNothing, ParentHasASend, ParentSends, ReconcileBegins,
              LoopsBegin, Reconcile, TickSkips, TickWaits, TickDecides, PlanBlocked, Hold, ResolveIt,
              Resolved, DrainQueue, ClaimSlot, EnterPhase, DeliverBegins, ClaimParent, MarkDelivered
  <2>4. \/ hist' = hist \/ \E n : hist' = [hist EXCEPT !.endings = n]
        \/ \E k : hist' = [hist EXCEPT !.carried = k] \/ \E q : hist' = [hist EXCEPT !.posts = q]
    BY <2>3 DEF EndIt, EndRecord, SendIt, PostSummary
  <2>5. hist'.accepted = hist.accepted /\ used'.calls = used.calls /\ Writing' \subseteq Writing
    BY <1>2, <2>1, <2>2, <2>4 DEF Past, Writing
  <2> QED BY <1>3, <2>5
<1>9. CASE TurnSteps \/ UNCHANGED vars
  <2>1. hist' = hist /\ call' = call /\ used' = used
    BY <1>9 DEF vars, TurnSteps, Speak, TurnEnds, ParentTurnEnds
  <2> QED BY <1>3, <2>1 DEF Writing
<1>10. CASE Restart
  <2>1. hist' = hist /\ call' = [p \in Callers |-> NoCall] /\ used'.calls = used.calls
    BY <1>2, <1>10 DEF Restart
  <2>2. Writing' = {}
    BY <2>1 DEF Writing, NoCall
  <2> QED BY <1>3, <2>1, <2>2
<1>11. CASE \E p \in Callers : RequestStep(p)
  BY <1>4, <1>5, <1>11
<1> QED BY <1>7, <1>8, <1>9, <1>10, <1>11 DEF Next

-----------------------------------------------------------------------------
(* A message is in one place.                                              *)

LEMMA KeptStep ==
  ASSUME Types, Counting, Kept, [Next]_vars
  PROVE  Kept'
<1>1. /\ hist \in Past /\ rec \in [Convs -> StoreRecords]
      /\ \A c \in Convs : rec[c].queue \in Seq(Messages)
  BY DEF Types, PastOK, StoresOK, StoreRecords, Records
<1>2. ToSet(<<>>) = {}
  BY DEF ToSet
<1>3. ASSUME NEW p \in Callers, QueueIt(p) PROVE Kept'
  <2>0. PICK c \in Convs : c = call[p].conv
    BY <1>3, CallConv DEF QueueIt, At
  <2>1. PICK m \in Messages \ hist.accepted : m = CHOOSE x \in Messages \ hist.accepted : TRUE
    BY <1>3, FreshMessage DEF QueueIt, At
  <2>2. eng' = eng /\ rec' = [rec EXCEPT ![c] = Queued(rec[c], m)]
    BY <1>3, <2>0, <2>1 DEF QueueIt
  <2>3. IF IsRunning(rec[c])
          THEN hist' = [hist EXCEPT !.accepted = @ \cup {m},
                                    !.dropped = @ \cup ((ToSet(rec[c].queue) \cup {m}) \ ToSet(rec'[c].queue))]
          ELSE hist' = hist
    BY <1>3, <2>0, <2>1 DEF QueueIt
  <2>4. /\ \A d \in Convs \ {c} : WaitingIn(d)' = WaitingIn(d)
        /\ WaitingIn(c)' = ToSet(Queued(rec[c], m).queue) /\ Taken' = Taken
    BY <1>1, <2>1, <2>2 DEF WaitingIn, Taken
  <2>5. rec[c] \in StoreRecords
    BY <1>1, <2>1
  <2>6. WaitingIn(c)' \subseteq WaitingIn(c) \cup {m} /\ (~IsRunning(rec[c]) => Queued(rec[c], m) = rec[c])
    BY <2>1, <2>4, <2>5, QueuedOne DEF WaitingIn
  <2>7. CASE ~IsRunning(rec[c])
    <3>1. hist' = hist /\ \A d \in Convs : WaitingIn(d)' = WaitingIn(d)
      BY <2>3, <2>4, <2>6, <2>7 DEF WaitingIn
    <3> QED BY <2>4, <3>1 DEF Kept
  <2>8. CASE IsRunning(rec[c])
    <3>1. /\ hist'.accepted = hist.accepted \cup {m} /\ hist'.carried = hist.carried
          /\ hist'.dropped = hist.dropped \cup ((WaitingIn(c) \cup {m}) \ WaitingIn(c)')
      BY <1>1, <2>3, <2>8 DEF Past, WaitingIn
    <3> DEFINE old == hist.carried \cup hist.dropped \cup Taken
               gone == (WaitingIn(c) \cup {m}) \ ToSet(rec'[c].queue)
    <3>2. ToSet(rec'[c].queue) \subseteq WaitingIn(c) \cup {m}
      BY <2>6 DEF WaitingIn
    <3>3. /\ old \subseteq hist.accepted /\ (hist.carried \cup Taken) \cap hist.dropped = {}
          /\ \A d \in Convs : WaitingIn(d) \subseteq hist.accepted /\ WaitingIn(d) \cap old = {}
          /\ \A d, e \in Convs : d # e => WaitingIn(d) \cap WaitingIn(e) = {}
      BY DEF Kept
    <3>4. \A d \in Convs : ToSet(rec'[d].queue) = IF d = c THEN ToSet(rec'[c].queue) ELSE WaitingIn(d)
      BY <2>4 DEF WaitingIn
    <3>5. hist'.dropped = hist.dropped \cup gone /\ Taken' = Taken
      BY <2>4, <3>1 DEF WaitingIn
    <3>6. m \notin hist.accepted
      BY <2>1
    <3>7. /\ hist'.carried \cup hist'.dropped \cup Taken' \subseteq hist'.accepted
          /\ (hist'.carried \cup Taken') \cap hist'.dropped = {}
      BY <3>1, <3>3, <3>5, <3>6
    <3>8. ASSUME NEW d \in Convs
          PROVE  /\ ToSet(rec'[d].queue) \subseteq hist'.accepted
                 /\ ToSet(rec'[d].queue) \cap (hist'.carried \cup hist'.dropped \cup Taken') = {}
                 /\ \A e \in Convs \ {d} : ToSet(rec'[d].queue) \cap ToSet(rec'[e].queue) = {}
      BY <3>1, <3>2, <3>3, <3>4, <3>5, <3>6
    <3> QED BY <3>7, <3>8 DEF Kept, WaitingIn
  <2> QED BY <2>7, <2>8
<1>4. CASE DrainQueue
  <2>0. PICK c \in Convs : c = eng.conv
    BY <1>4, EngConv DEF DrainQueue, AtWork
  <2>1. eng.taken = <<>> /\ hist' = hist
    BY <1>4, EngConv DEF DrainQueue
  <2>2. CASE IsRunning(rec[c])
    <3>1. /\ rec' = [rec EXCEPT ![c] = Drained(rec[c])]
          /\ eng' = [eng EXCEPT !.at = "claim", !.taken = rec[c].queue]
      BY <1>4, <2>0, <2>2 DEF DrainQueue
    <3>2. Drained(rec[c]).queue = <<>>
      BY <1>1, <2>1 DEF Drained, StoreRecords, Records
    <3>3. eng'.taken = rec[c].queue
      BY <3>1, EngConv DEF Engines
    <3>4. /\ \A d \in Convs \ {c} : WaitingIn(d)' = WaitingIn(d)
          /\ WaitingIn(c)' = {} /\ Taken' = WaitingIn(c) /\ Taken = {}
      BY <1>1, <1>2, <2>1, <3>1, <3>2, <3>3 DEF WaitingIn, Taken
    <3> QED BY <2>1, <3>4 DEF Kept
  <2>3. CASE ~IsRunning(rec[c])
    <3>1. rec' = rec /\ eng' = [eng EXCEPT !.at = "claim"]
      BY <1>4, <2>0, <2>3 DEF DrainQueue
    <3>2. eng'.taken = eng.taken
      BY <3>1, EngConv DEF Engines
    <3> QED BY <2>1, <3>1, <3>2 DEF Kept, WaitingIn, Taken
  <2> QED BY <2>2, <2>3
<1>5. ASSUME ~DrainQueue, \A p \in Callers : ~QueueIt(p) PROVE Kept'
  <2>1. \A c \in Convs : WaitingIn(c)' = WaitingIn(c) \/ WaitingIn(c)' = {}
    BY <1>2, <1>5, RecStep DEF WaitingIn
  <2>2. Taken' = Taken \/ Taken' = {}
    BY <1>2, <1>5, EngStep DEF Taken
  <2>3. CASE SendIt
    <3>1. hist' = [hist EXCEPT !.carried = hist.carried \cup Taken]
      BY <2>3 DEF SendIt, Taken
    <3>2. hist'.carried = hist.carried \cup Taken /\ hist'.accepted = hist.accepted /\ hist'.dropped = hist.dropped
      BY <1>1, <3>1 DEF Past
    <3> HIDE DEF Taken, WaitingIn
    <3> QED BY <2>1, <2>2, <3>2 DEF Kept
  <2>4. CASE ~SendIt
    <3>1. hist' = hist \/ HistWrites
      BY WhoWrites
    <3>2. \/ hist' = hist \/ (\E n : hist' = [hist EXCEPT !.endings = n])
          \/ (\E q : hist' = [hist EXCEPT !.posts = q])
      BY <1>5, <2>4, <3>1 DEF HistWrites, StopEnds, EndIt, EndRecord, PostSummary
    <3>3. hist'.carried = hist.carried /\ hist'.accepted = hist.accepted /\ hist'.dropped = hist.dropped
      BY <1>1, <3>2 DEF Past
    <3> QED BY <2>1, <2>2, <3>3 DEF Kept
  <2> QED BY <2>3, <2>4
<1> QED BY <1>3, <1>4, <1>5

-----------------------------------------------------------------------------
(* How the engine gets to the steps on which it acts on what it read.      *)

SendsTo(c)  == /\ TickDecides(c) /\ Outcome(c).do # "stop" /\ ~WriterBlocked(c) /\ ~run[c].on
Delivers(c) == /\ DeliverBegins /\ c \in Waiting /\ parent = "nobody" /\ ~WriterRunning
               /\ eng'.ending = rec[c].endedAt
SameConv    == eng'.conv = eng.conv /\ eng'.ending = eng.ending

LEMMA EngAt ==
  ASSUME Types, [Next]_vars, eng' # eng
  PROVE  /\ eng'.at = "drain" => \E c \in Convs : SendsTo(c) /\ eng'.conv = c
         /\ eng'.at = "claim" => DrainQueue /\ SameConv
         /\ eng'.at = "send"  => ClaimSlot /\ ~run[eng.conv].on /\ SameConv
         /\ eng'.at = "parentClaim" => ParentHasASend
         /\ eng'.at = "post"  => \E c \in Convs : Delivers(c) /\ eng'.conv = c
         /\ eng'.at = "mark"  => ClaimParent /\ SameConv
         /\ eng'.at = "turn"  => MarkDelivered /\ SameConv
         /\ ClaimSlot => eng'.at \in {"each", "send"}
         /\ SendIt => eng'.at \in {"each", "phase"}
         /\ ParentSends => eng'.at = "reconcile"
         /\ ClaimParent => eng'.at \in {"idle", "mark"}
<1> DEFINE Elsewhere == {"idle", "parent", "reconcile", "each", "plan", "hold", "end", "resolve", "resolved", "phase"}
           Goal == /\ eng'.at = "drain" => \E c \in Convs : SendsTo(c) /\ eng'.conv = c
                   /\ eng'.at = "claim" => DrainQueue /\ SameConv
                   /\ eng'.at = "send"  => ClaimSlot /\ ~run[eng.conv].on /\ SameConv
                   /\ eng'.at = "parentClaim" => ParentHasASend
                   /\ eng'.at = "post"  => \E c \in Convs : Delivers(c) /\ eng'.conv = c
                   /\ eng'.at = "mark"  => ClaimParent /\ SameConv
                   /\ eng'.at = "turn"  => MarkDelivered /\ SameConv
<1>1. eng \in Engines
  BY EngConv
<1>2. ASSUME NEW at, eng' = [eng EXCEPT !.at = at] PROVE eng'.at = at /\ SameConv
  BY <1>1, <1>2 DEF Engines, SameConv
<1>3. ASSUME eng'.at \in Elsewhere PROVE Goal
  BY <1>3
<1>4. ASSUME NEW c, NEW s, eng' = [Working(c, "end") EXCEPT !.status = s] PROVE eng'.at = "end"
  BY <1>4 DEF Working, NextConv, Resting
<1>5. ASSUME TickBegins \/ ParentHasNothing \/ ParentSends \/ ReconcileBegins \/ LoopsBegin PROVE Goal
  <2>1. eng'.at \in {"parent", "reconcile", "each"}
    BY <1>1, <1>5 DEF TickBegins, ParentHasNothing, ParentSends, ReconcileBegins, LoopsBegin, Resting, Engines
  <2> QED BY <1>3, <2>1
<1>6. ASSUME ParentHasASend PROVE Goal
  BY <1>2, <1>6 DEF ParentHasASend
<1>7. ASSUME NEW c \in Convs, Reconcile(c) \/ TickSkips(c) \/ TickWaits(c) PROVE Goal
  <2>1. \/ eng' = NextConv(eng.todo \ {c}) \/ eng' = Working(c, "plan")
        \/ \E s : eng' = [Working(c, "end") EXCEPT !.status = s]
    BY <1>7 DEF Reconcile, TickSkips, TickWaits, Pass
  <2>2. eng'.at \in {"each", "plan", "end"}
    BY <1>4, <2>1, MoveFields
  <2> QED BY <1>3, <2>2
<1>8. ASSUME NEW c \in Convs, TickDecides(c) PROVE Goal
  <2>1. ASSUME Outcome(c).do = "stop" PROVE Goal
    <3>1. eng' = [Working(c, "resolve") EXCEPT !.status = Outcome(c).status, !.reason = Outcome(c).reason]
      BY <1>8, <2>1 DEF TickDecides
    <3>2. \A s, x : [Working(c, "resolve") EXCEPT !.status = s, !.reason = x].at = "resolve"
      BY DEF Working, NextConv, Resting
    <3> QED BY <1>3, <3>1, <3>2
  <2>2. ASSUME Outcome(c).do # "stop" /\ WriterBlocked(c) PROVE Goal
    <3>1. eng' = NextConv(eng.todo \ {c})
      BY <1>8, <2>2 DEF TickDecides
    <3> QED BY <1>3, <3>1, MoveFields
  <2>3. ASSUME Outcome(c).do # "stop" /\ ~WriterBlocked(c) PROVE Goal
    <3>1. eng' = [Working(c, "drain") EXCEPT !.enter = Outcome(c).enter]
      BY <1>8, <2>3 DEF TickDecides
    <3>2. \A x : /\ [Working(c, "drain") EXCEPT !.enter = x].at = "drain"
                 /\ [Working(c, "drain") EXCEPT !.enter = x].conv = c
      BY DEF Working, NextConv, Resting
    <3>3. eng'.at = "drain" /\ eng'.conv = c
      BY <3>1, <3>2
    <3>4. SendsTo(c)
      BY <1>8, <2>3 DEF SendsTo, TickDecides, Ticks
    <3> QED BY <3>3, <3>4
  <2> QED BY <2>1, <2>2, <2>3
<1>9. ASSUME PlanBlocked \/ ResolveIt PROVE Goal
  <2>1. eng'.at \in {"hold", "resolved"}
    BY <1>2, <1>9 DEF PlanBlocked, ResolveIt
  <2> QED BY <1>3, <2>1
<1>10. ASSUME Hold \/ EndIt \/ EnterPhase \/ PostSummary \/ Restart PROVE Goal
  <2>1. eng'.at \in {"each", "idle"}
    BY <1>10, MoveFields DEF Hold, EndIt, EnterPhase, PostSummary, Restart
  <2> QED BY <1>3, <2>1
<1>11. ASSUME Resolved PROVE Goal
  <2>1. \/ eng' = NextConv(eng.todo) \/ eng' = Working(eng.conv, "plan")
        \/ \E s : eng' = [Working(eng.conv, "end") EXCEPT !.status = s]
    BY <1>11 DEF Resolved
  <2>2. eng'.at \in {"each", "plan", "end"}
    BY <1>4, <2>1, MoveFields
  <2> QED BY <1>3, <2>2
<1>12. ASSUME DrainQueue PROVE Goal
  <2>1. \/ eng' = [eng EXCEPT !.at = "claim", !.taken = rec[eng.conv].queue]
        \/ eng' = [eng EXCEPT !.at = "claim"]
    BY <1>12 DEF DrainQueue
  <2>2. eng'.at = "claim" /\ SameConv
    BY <1>1, <2>1 DEF Engines, SameConv
  <2> QED BY <1>12, <2>2
<1>13. ASSUME ClaimSlot PROVE Goal
  <2>1. eng'.at = "each" \/ (eng'.at = "send" /\ ~run[eng.conv].on /\ SameConv)
    BY <1>2, <1>13, MoveFields DEF ClaimSlot
  <2> QED BY <1>13, <2>1
<1>14. ASSUME SendIt PROVE Goal
  <2>1. eng' = NextConv(eng.todo) \/ eng' = [eng EXCEPT !.at = "phase", !.taken = <<>>]
    BY <1>14 DEF SendIt
  <2>2. [eng EXCEPT !.at = "phase", !.taken = <<>>].at = "phase"
    BY <1>1 DEF Engines
  <2>3. eng'.at \in {"each", "phase"}
    BY <2>1, <2>2, MoveFields
  <2> QED BY <1>14, <2>3
<1>15. ASSUME DeliverBegins PROVE Goal
  <2>1. ASSUME eng' = Resting PROVE Goal
    BY <1>3, <2>1, MoveFields
  <2>2. ASSUME eng' # Resting PROVE Goal
    <3>1. PICK c \in Waiting : eng' = [Resting EXCEPT !.at = "post", !.conv = c, !.ending = rec[c].endedAt]
      BY <1>15, <2>2 DEF DeliverBegins
    <3>2. \A d, n : LET e == [Resting EXCEPT !.at = "post", !.conv = d, !.ending = n]
                    IN e.at = "post" /\ e.conv = d /\ e.ending = n
      BY DEF Resting
    <3>3. eng'.at = "post" /\ eng'.conv = c /\ eng'.ending = rec[c].endedAt
      BY <3>1, <3>2
    <3>4. parent = "nobody" /\ ~WriterRunning /\ c \in Convs
      BY <1>15, <2>2 DEF DeliverBegins, Waiting
    <3>5. Delivers(c)
      BY <1>15, <3>3, <3>4 DEF Delivers
    <3> QED BY <3>3, <3>4, <3>5
  <2> QED BY <2>1, <2>2
<1>16. ASSUME ClaimParent PROVE Goal
  <2>1. eng'.at = "idle" \/ (eng'.at = "mark" /\ SameConv)
    BY <1>2, <1>16, MoveFields DEF ClaimParent
  <2> QED BY <1>16, <2>1
<1>17. ASSUME MarkDelivered PROVE Goal
  BY <1>2, <1>17 DEF MarkDelivered
<1>18. EngineStep \/ Restart
  BY WhoWrites
<1> HIDE DEF Goal, Elsewhere
<1>19. Goal
  BY <1>5, <1>6, <1>7, <1>8, <1>9, <1>10, <1>11, <1>12, <1>13, <1>14, <1>15, <1>16, <1>17, <1>18 DEF EngineStep, Goal
<1>20. /\ ClaimSlot => eng'.at \in {"each", "send"}
       /\ ParentSends => eng'.at = "reconcile"
       /\ ClaimParent => eng'.at \in {"idle", "mark"}
  BY <1>2, MoveFields DEF ClaimSlot, ParentSends, ClaimParent
<1>21. SendIt => eng'.at \in {"each", "phase"}
  <2>1. [eng EXCEPT !.at = "phase", !.taken = <<>>].at = "phase"
    BY <1>1 DEF Engines
  <2> QED BY <2>1, MoveFields DEF SendIt
<1> QED BY <1>19, <1>20, <1>21 DEF Goal

-----------------------------------------------------------------------------
(* The engine starts one turn at a time.                                   *)

\* A turn of a loop begins at ClaimSlot only.
OfTheLoop(c) == run[c].on /\ run[c].by = "loop"

LEMMA LoopTurnsBegin ==
  ASSUME Types, [Next]_vars, NEW x \in Convs, OfTheLoop(x)'
  PROVE  OfTheLoop(x) \/ (ClaimSlot /\ x = eng.conv)
<1>1. run \in [Convs -> Turns]
  BY DEF Types, TurnsOK
<1>2. ASSUME NEW c \in Convs, NEW t, run' = [run EXCEPT ![c] = t],
             t.on /\ t.by = "loop" => OfTheLoop(c)
      PROVE  OfTheLoop(x)
  BY <1>1, <1>2 DEF OfTheLoop
<1>3. ASSUME NEW c \in Convs, NEW kind \in Kinds, Speak(c, kind) PROVE OfTheLoop(x)
  <2>1. run' = [run EXCEPT ![c] = [run[c] EXCEPT !.said = TRUE]]
    BY <1>3 DEF Speak
  <2>2. [run[c] EXCEPT !.said = TRUE].on = run[c].on /\ [run[c] EXCEPT !.said = TRUE].by = run[c].by
    BY <1>1 DEF Turns
  <2> QED BY <1>2, <2>1, <2>2 DEF OfTheLoop
<1>4. ASSUME NEW c \in Convs, NEW end \in Endings, NEW session \in BOOLEAN, TurnEnds(c, end, session)
      PROVE  OfTheLoop(x)
  <2>1. run' = [run EXCEPT ![c] = [NoRun EXCEPT !.end = end]]
    BY <1>4 DEF TurnEnds
  <2>2. ~[NoRun EXCEPT !.end = end].on
    BY DEF NoRun
  <2> QED BY <1>2, <2>1, <2>2
<1>5. ASSUME NEW p \in Callers, StopTheRun(p) PROVE OfTheLoop(x)
  <2>1. PICK c \in Convs : c = call[p].conv
    BY <1>5, CallConv DEF StopTheRun, At
  <2>2. run' = [run EXCEPT ![c] = [run[c] EXCEPT !.stop = run[c].on]]
    BY <1>5, <2>1 DEF StopTheRun
  <2>3. [run[c] EXCEPT !.stop = run[c].on].on = run[c].on /\ [run[c] EXCEPT !.stop = run[c].on].by = run[c].by
    BY <1>1 DEF Turns
  <2> QED BY <1>2, <2>2, <2>3 DEF OfTheLoop
<1>6. ASSUME NEW p \in Callers, FollowUpClaims(p) PROVE OfTheLoop(x)
  <2>1. PICK c \in Convs : c = call[p].conv
    BY <1>6, CallConv DEF FollowUpClaims
  <2>2. run' = [run EXCEPT ![c] = run[c]] \/ run' = [run EXCEPT ![c] = Begun(c, "follow", FALSE)]
    BY <1>6, <2>1 DEF FollowUpClaims
  <2>3. Begun(c, "follow", FALSE).by # "loop"
    BY DEF Begun, NoRun
  <2> QED BY <1>2, <2>2, <2>3 DEF OfTheLoop
<1>7. ASSUME ClaimSlot, x # eng.conv PROVE OfTheLoop(x)
  <2>1. run' = run \/ run' = [run EXCEPT ![eng.conv] = Begun(eng.conv, "loop", eng.enter = "verify")]
    BY <1>7 DEF ClaimSlot
  <2> QED BY <1>1, <1>7, <2>1 DEF OfTheLoop
<1>8. CASE Restart
  BY <1>8 DEF Restart, NoRun, OfTheLoop
<1>9. CASE run' = run
  BY <1>9 DEF OfTheLoop
<1>10. run' = run \/ RunWrites
  BY WhoWrites
<1> QED BY <1>3, <1>4, <1>5, <1>6, <1>7, <1>8, <1>9, <1>10 DEF RunWrites

LEMMA EngineTurnsGrow ==
  ASSUME Types, [Next]_vars
  PROVE  /\ EngineTurns' \subseteq EngineTurns \cup {eng.conv}
         /\ ~ClaimSlot \/ eng.conv \notin Writers => EngineTurns' \subseteq EngineTurns
<1>1. Writers \subseteq Convs /\ EngineTurns = {c \in Writers : OfTheLoop(c)}
      /\ EngineTurns' = {c \in Writers : OfTheLoop(c)'}
  BY GoalAssumption DEF EngineTurns, OfTheLoop
<1>2. \A c \in Convs : OfTheLoop(c)' => OfTheLoop(c) \/ (ClaimSlot /\ c = eng.conv)
  BY LoopTurnsBegin
<1> QED BY <1>1, <1>2

LEMMA WritesStep ==
  ASSUME Types, Writes, [Next]_vars
  PROVE  Writes'
<1>1. /\ \A c, d \in EngineTurns : c = d
      /\ EngineTurns # {} => ~ParentDriven
      /\ AboutToWrite => EngineTurns = {} /\ ~ParentDriven
  BY DEF Writes
<1>2. Writers \subseteq Convs /\ EngineTurns \subseteq Writers
  BY GoalAssumption DEF EngineTurns
\* Who drives the parent's slot from now on looked before it wrote.
<1>3. ParentDriven' => \/ ParentDriven
                       \/ /\ ParentSends \/ ClaimParent
                          /\ AboutToWrite /\ run' = run
  <2>1. parent' = parent \/ ParentWrites
    BY WhoWrites
  <2>2. ParentTurnEnds \/ (\E p \in Callers : ChatClaims(p)) \/ Restart => parent' = parent \/ ~ParentDriven'
    BY DEF ParentTurnEnds, ChatClaims, Restart, ParentDriven
  <2>3. ParentSends \/ ClaimParent => AboutToWrite /\ run' = run
    BY DEF ParentSends, ClaimParent, AboutToWrite
  <2> QED BY <2>1, <2>2, <2>3 DEF ParentWrites, ParentDriven
<1>4. ASSUME run' = run PROVE EngineTurns' = EngineTurns
  BY <1>4 DEF EngineTurns
<1>5. ASSUME parent = "nobody" PROVE ~ParentDriven
  BY <1>5 DEF ParentDriven
<1>6. ASSUME ~WriterRunning PROVE EngineTurns = {}
  BY <1>6 DEF WriterRunning, EngineTurns
\* A new look, or a step on from the last one.
<1>7. ASSUME AboutToWrite', eng' # eng
      PROVE  run' = run /\ parent' = parent /\ EngineTurns = {} /\ ~ParentDriven
  <2>1. CASE eng'.at = "drain"
    <3>1. PICK c \in Convs : SendsTo(c) /\ eng'.conv = c
      BY <1>7, <2>1, EngAt
    <3>2. c \in Writers
      BY <1>7, <2>1, <3>1 DEF AboutToWrite
    <3>3. parent = "nobody" /\ \A d \in Writers : ~run[d].on
      BY <3>1, <3>2 DEF SendsTo, WriterBlocked
    <3>4. run' = run /\ parent' = parent
      BY <3>1 DEF SendsTo, TickDecides
    <3> QED BY <1>5, <1>6, <3>3, <3>4 DEF WriterRunning
  <2>2. CASE eng'.at = "claim"
    <3>1. DrainQueue /\ eng'.conv = eng.conv
      BY <1>7, <2>2, EngAt DEF SameConv
    <3>2. AboutToWrite /\ run' = run /\ parent' = parent
      BY <1>7, <2>2, <3>1 DEF DrainQueue, AboutToWrite
    <3> QED BY <1>1, <3>2
  <2>3. CASE eng'.at = "parentClaim"
    <3>1. ParentHasASend
      BY <1>7, <2>3, EngAt
    <3> QED BY <1>5, <1>6, <3>1 DEF ParentHasASend
  <2>4. CASE eng'.at = "post"
    <3>1. PICK c \in Convs : Delivers(c)
      BY <1>7, <2>4, EngAt
    <3>2. run' = run /\ parent' = parent /\ parent = "nobody" /\ ~WriterRunning
      BY <3>1 DEF Delivers, DeliverBegins
    <3> QED BY <1>5, <1>6, <3>2
  <2> QED BY <1>7, <2>1, <2>2, <2>3, <2>4 DEF AboutToWrite
<1>8. CASE ClaimSlot
  <2>1. eng.at = "claim" /\ parent' = parent
    BY <1>8 DEF ClaimSlot
  <2>2. eng'.at \in {"each", "send"}
    <3>1. eng' = NextConv(eng.todo) \/ eng' = [eng EXCEPT !.at = "send"]
      BY <1>8 DEF ClaimSlot
    <3>2. [eng EXCEPT !.at = "send"].at = "send"
      BY EngConv DEF Engines
    <3> QED BY <3>1, <3>2, MoveFields
  <2>3. ~AboutToWrite'
    BY <2>2 DEF AboutToWrite
  <2>4. CASE eng.conv \in Writers
    <3>1. EngineTurns = {} /\ ~ParentDriven
      BY <1>1, <2>1, <2>4 DEF AboutToWrite
    <3>2. EngineTurns' \subseteq {eng.conv} /\ ~ParentDriven'
      BY <2>1, <3>1, EngineTurnsGrow DEF ParentDriven
    <3> HIDE DEF EngineTurns
    <3> QED BY <2>3, <3>2 DEF Writes
  <2>5. CASE eng.conv \notin Writers
    <3>1. EngineTurns' \subseteq EngineTurns /\ ParentDriven' = ParentDriven
      BY <2>1, <2>5, EngineTurnsGrow DEF ParentDriven
    <3> HIDE DEF EngineTurns
    <3> QED BY <1>1, <2>3, <3>1 DEF Writes
  <2> QED BY <2>4, <2>5
<1>9. CASE ~ClaimSlot
  <2>1. EngineTurns' \subseteq EngineTurns
    BY <1>9, EngineTurnsGrow
  <2>2. EngineTurns' # {} => ~ParentDriven'
    BY <1>1, <1>3, <2>1
  <2>3. AboutToWrite' => EngineTurns' = {} /\ ~ParentDriven'
    <3>1. CASE eng' = eng
      <4>1. AboutToWrite' <=> AboutToWrite
        BY <3>1 DEF AboutToWrite
      <4>2. ~ParentSends /\ ~ClaimParent
        <5>1. ParentSends => eng'.at # eng.at
          BY EngConv DEF ParentSends, Engines
        <5>2. ClaimParent => eng'.at # eng.at
          BY EngConv, MoveFields DEF ClaimParent, Engines
        <5> QED BY <3>1, <5>1, <5>2
      <4> QED BY <1>1, <1>3, <2>1, <4>1, <4>2
    <3>2. CASE eng' # eng
      <4>1. ASSUME AboutToWrite' PROVE EngineTurns' = {} /\ ~ParentDriven'
        <5>1. run' = run /\ parent' = parent /\ EngineTurns = {} /\ ~ParentDriven
          BY <1>7, <3>2, <4>1
        <5> QED BY <1>4, <5>1 DEF ParentDriven
      <4> QED BY <4>1
    <3> QED BY <3>1, <3>2
  <2> QED BY <1>1, <2>1, <2>2, <2>3 DEF Writes
<1> QED BY <1>8, <1>9

-----------------------------------------------------------------------------
(* An arming is driven for its cap of turns.                               *)

LEMMA CappedStep ==
  ASSUME Types, Capped, [Next]_vars
  PROVE  Capped'
<1>1. /\ loop \in [Convs -> LoopRecords] /\ loop' \in [Convs -> LoopRecords] /\ Cap \in Nat \ {0}
      /\ \A c \in Convs : loop[c].iterations \in Nat /\ loop[c].iterations <= Cap
  BY GoalAssumption, LoopStep DEF Types, StoresOK, LoopRecords, Capped, CapBoundsSends
<1>2. ASSUME NEW c \in Convs
      PROVE  \/ loop'[c].iterations = loop[c].iterations \/ loop'[c].iterations = 0
             \/ SendIt /\ c = eng.conv /\ loop'[c].iterations <= loop[c].iterations + 1
  BY LoopStep DEF SameArming, NewArming
<1>3. ASSUME SendIt PROVE eng.conv \in Convs /\ loop[eng.conv].iterations < Cap
  BY <1>3, EngConv DEF SendIt, Capped, AtWork
<1>4. ASSUME NEW c \in Convs PROVE loop'[c].iterations <= Cap
  <2>1. loop'[c].iterations \in Nat
    BY <1>1 DEF LoopRecords
  <2> QED BY <1>1, <1>2, <1>3, <2>1
<1>5. ASSUME eng'.at \in {"drain", "claim", "send"} PROVE loop'[eng'.conv].iterations < Cap
  <2>1. CASE eng' = eng
    <3>1. eng.conv \in Convs /\ loop[eng.conv].iterations < Cap
      BY <1>5, <2>1, EngConv DEF Capped, AtWork
    <3>2. ~SendIt
      <4>1. SendIt => eng.at = "send" /\ (eng' = NextConv(eng.todo) \/ eng' = [eng EXCEPT !.at = "phase", !.taken = <<>>])
        BY DEF SendIt
      <4>2. [eng EXCEPT !.at = "phase", !.taken = <<>>].at = "phase"
        BY EngConv DEF Engines
      <4> QED BY <2>1, <4>1, <4>2, MoveFields
    <3> QED BY <1>1, <1>2, <2>1, <3>1, <3>2
  <2>2. CASE eng' # eng /\ eng'.at = "drain"
    <3>1. PICK c \in Convs : SendsTo(c) /\ eng'.conv = c
      BY <2>2, EngAt
    <3>2. ~(loop[c].iterations >= Cap)
      BY <3>1, OutcomeKinds DEF SendsTo
    <3>3. loop' = loop
      BY <3>1 DEF SendsTo, TickDecides
    <3> QED BY <1>1, <3>1, <3>2, <3>3
  <2>3. CASE eng' # eng /\ eng'.at \in {"claim", "send"}
    <3>1. (DrainQueue \/ ClaimSlot) /\ eng'.conv = eng.conv
      BY <2>3, EngAt DEF SameConv
    <3>2. loop' = loop /\ eng.at \in {"drain", "claim"}
      BY <3>1 DEF DrainQueue, ClaimSlot
    <3> QED BY <3>1, <3>2 DEF Capped
  <2> QED BY <1>5, <2>1, <2>2, <2>3
<1> QED BY <1>4, <1>5 DEF Capped, CapBoundsSends

-----------------------------------------------------------------------------
(* An ending is reported once.                                             *)

\* An ending stays as it is, apart from being told; a record that runs again has none; a new
\* one takes the next number.
SameEnding(r, s) == s.endedAt = r.endedAt /\ s.state = r.state /\ (r.told => s.told)
NoEnding(s)      == s.endedAt = 0 /\ ~HasEnded(s)

LEMMA RecordEndings ==
  ASSUME NEW r \in StoreRecords, NEW state, NEW n, NEW b \in BOOLEAN
  PROVE  /\ NoEnding(StartRecord) /\ NoEnding(Reopened(r))
         /\ IsRunning(r) => Ended(r, state, n).endedAt = n
         /\ ~IsRunning(r) => Ended(r, state, n) = r
         /\ SameEnding(r, MarkedDelivered(r)) /\ MarkedDelivered(r).told
         /\ SameEnding(r, WithHeld(r, b)) /\ SameEnding(r, WithPlan(r, b))
         /\ SameEnding(r, [r EXCEPT !.session = b]) /\ SameEnding(r, Drained(r))
<1> USE DEF StoreRecords, Records
<1>1. NoEnding(StartRecord) /\ NoEnding(Reopened(r))
  BY DEF NoEnding, StartRecord, NoRecord, Reopened, HasEnded, EndStates
<1>2. /\ IsRunning(r) => Ended(r, state, n).endedAt = n
      /\ ~IsRunning(r) => Ended(r, state, n) = r
  BY DEF Ended
<1>3. SameEnding(r, MarkedDelivered(r)) /\ MarkedDelivered(r).told
  BY DEF SameEnding, MarkedDelivered
<1>4. SameEnding(r, WithHeld(r, b)) /\ SameEnding(r, WithPlan(r, b))
  BY DEF SameEnding, WithHeld, WithPlan
<1>5. SameEnding(r, [r EXCEPT !.session = b]) /\ SameEnding(r, Drained(r))
  BY DEF SameEnding, Drained
<1> QED BY <1>1, <1>2, <1>3, <1>4, <1>5

LEMMA EndingStep ==
  ASSUME Types, Counting, [Next]_vars, NEW x \in Convs
  PROVE  \/ SameEnding(rec[x], rec'[x])
         \/ NoEnding(rec'[x])
         \/ (rec'[x].endedAt = hist.endings + 1 /\ hist'.endings = hist.endings + 1)
<1>1. rec \in [Convs -> StoreRecords] /\ hist \in Past /\ hist.endings \in Nat
  BY DEF Types, StoresOK, PastOK, Past
<1> DEFINE Goal == \/ SameEnding(rec[x], rec'[x])
                   \/ NoEnding(rec'[x])
                   \/ (rec'[x].endedAt = hist.endings + 1 /\ hist'.endings = hist.endings + 1)
<1>2. ASSUME NEW c \in Convs, NEW r, SameEnding(rec[c], r) \/ NoEnding(r), rec' = [rec EXCEPT ![c] = r]
      PROVE  Goal
  BY <1>1, <1>2 DEF SameEnding
<1>3. \A c \in Convs, b \in BOOLEAN :
        /\ NoEnding(StartRecord) /\ NoEnding(Reopened(rec[c]))
        /\ SameEnding(rec[c], MarkedDelivered(rec[c]))
        /\ SameEnding(rec[c], WithHeld(rec[c], b)) /\ SameEnding(rec[c], WithPlan(rec[c], b))
        /\ SameEnding(rec[c], [rec[c] EXCEPT !.session = b]) /\ SameEnding(rec[c], Drained(rec[c]))
  BY <1>1, RecordEndings
<1>4. ASSUME rec' = rec PROVE Goal
  BY <1>4 DEF SameEnding
<1>5. ASSUME NEW c \in Convs, NEW state, EndRecord(c, state) PROVE Goal
  <2>1. /\ rec' = [rec EXCEPT ![c] = Ended(rec[c], state, hist.endings + 1)]
        /\ hist' = [hist EXCEPT !.endings = IF IsRunning(rec[c]) THEN hist.endings + 1 ELSE hist.endings]
    BY <1>5 DEF EndRecord
  <2>2. CASE IsRunning(rec[c])
    <3>1. Ended(rec[c], state, hist.endings + 1).endedAt = hist.endings + 1
      BY <1>1, <2>2, RecordEndings
    <3>2. hist'.endings = hist.endings + 1
      BY <1>1, <2>1, <2>2 DEF Past
    <3> QED BY <1>1, <2>1, <3>1, <3>2 DEF SameEnding
  <2>3. CASE ~IsRunning(rec[c])
    <3>1. Ended(rec[c], state, hist.endings + 1) = rec[c]
      BY <1>1, <2>3, RecordEndings
    <3> QED BY <1>1, <1>4, <2>1, <3>1
  <2> QED BY <2>2, <2>3
<1> HIDE DEF Goal
<1>6. ASSUME NEW c \in Convs, NEW end \in Endings, NEW session \in BOOLEAN, TurnEnds(c, end, session)
      PROVE  Goal
  <2>1. rec' = [rec EXCEPT ![c] = [rec[c] EXCEPT !.session = session]]
    BY <1>6 DEF TurnEnds
  <2>2. SameEnding(rec[c], [rec[c] EXCEPT !.session = session])
    BY <1>3
  <2> QED BY <1>2, <2>1, <2>2
<1>7. ASSUME NEW p \in Callers, StoreRunning(p) PROVE Goal
  <2>1. PICK c \in Convs : c = call[p].conv
    BY <1>7, CallConv DEF StoreRunning, At
  <2>2. \/ rec' = rec \/ rec' = [rec EXCEPT ![c] = StartRecord] \/ rec' = [rec EXCEPT ![c] = Reopened(rec[c])]
    BY <1>7, <2>1 DEF StoreRunning
  <2> QED BY <1>2, <1>3, <1>4, <2>2
<1>8. ASSUME NEW p \in Callers, StopEnds(p) PROVE Goal
  BY <1>5, <1>8, CallConv DEF StopEnds, At
<1>9. ASSUME NEW p \in Callers, Unblock(p) \/ Unhold(p) PROVE Goal
  <2>1. PICK c \in Convs : c = call[p].conv
    BY <1>9, CallConv DEF Unblock, Unhold, At
  <2>2. rec' = [rec EXCEPT ![c] = WithPlan(rec[c], FALSE)] \/ rec' = [rec EXCEPT ![c] = WithHeld(rec[c], FALSE)]
    BY <1>9, <2>1 DEF Unblock, Unhold
  <2>3. SameEnding(rec[c], WithPlan(rec[c], FALSE)) /\ SameEnding(rec[c], WithHeld(rec[c], FALSE))
    BY <1>3
  <2> QED BY <1>2, <2>2, <2>3
<1>10. ASSUME NEW p \in Callers, QueueIt(p) PROVE Goal
  <2>1. PICK c \in Convs : c = call[p].conv
    BY <1>10, CallConv DEF QueueIt, At
  <2>2. PICK m \in Messages : rec' = [rec EXCEPT ![c] = Queued(rec[c], m)]
    BY <1>10, <2>1, FreshMessage DEF QueueIt
  <2>3. SameEnding(rec[c], Queued(rec[c], m))
    BY <1>1, QueuedOne DEF SameEnding
  <2> QED BY <1>2, <2>2, <2>3
<1>11. ASSUME PlanBlocked \/ Hold \/ DrainQueue \/ MarkDelivered PROVE Goal
  <2>1. PICK c \in Convs : c = eng.conv
    BY <1>11, EngConv DEF PlanBlocked, Hold, DrainQueue, MarkDelivered, AtWork
  <2>2. \/ rec' = rec \/ rec' = [rec EXCEPT ![c] = rec[c]]
        \/ rec' = [rec EXCEPT ![c] = WithPlan(rec[c], TRUE)] \/ rec' = [rec EXCEPT ![c] = WithHeld(rec[c], TRUE)]
        \/ rec' = [rec EXCEPT ![c] = Drained(rec[c])] \/ rec' = [rec EXCEPT ![c] = MarkedDelivered(rec[c])]
    BY <1>11, <2>1 DEF PlanBlocked, Hold, DrainQueue, MarkDelivered
  <2>3. /\ SameEnding(rec[c], WithPlan(rec[c], TRUE)) /\ SameEnding(rec[c], WithHeld(rec[c], TRUE))
        /\ SameEnding(rec[c], Drained(rec[c])) /\ SameEnding(rec[c], MarkedDelivered(rec[c]))
        /\ SameEnding(rec[c], rec[c])
    BY <1>3 DEF SameEnding
  <2> QED BY <1>2, <1>4, <2>2, <2>3
<1>12. ASSUME EndIt PROVE Goal
  BY <1>5, <1>12, EngConv DEF EndIt, AtWork
<1>13. Goal
  <2>1. rec' = rec \/ RecWrites
    BY WhoWrites
  <2> QED BY <1>4, <1>6, <1>7, <1>8, <1>9, <1>10, <1>11, <1>12, <2>1 DEF RecWrites
<1> QED BY <1>13 DEF Goal

LEMMA PastEndings ==
  ASSUME Types, [Next]_vars
  PROVE  /\ hist'.endings \in {hist.endings, hist.endings + 1}
         /\ PostSummary \/ hist'.posts = hist.posts
<1>1. hist \in Past
  BY DEF Types, PastOK
<1>2. hist' = hist \/ HistWrites
  BY WhoWrites
<1>3. \/ hist' = hist \/ (\E n \in {hist.endings, hist.endings + 1} : hist' = [hist EXCEPT !.endings = n])
      \/ (\E a, d : hist' = [hist EXCEPT !.accepted = a, !.dropped = d])
      \/ (\E k : hist' = [hist EXCEPT !.carried = k]) \/ (\E q : hist' = [hist EXCEPT !.posts = q] /\ PostSummary)
  <2>1. ASSUME NEW c, NEW state, EndRecord(c, state)
        PROVE  \E n \in {hist.endings, hist.endings + 1} : hist' = [hist EXCEPT !.endings = n]
    BY <2>1 DEF EndRecord
  <2>2. ASSUME NEW p \in Callers, QueueIt(p)
        PROVE  hist' = hist \/ \E a, d : hist' = [hist EXCEPT !.accepted = a, !.dropped = d]
    BY <2>2 DEF QueueIt
  <2>3. SendIt => \E k : hist' = [hist EXCEPT !.carried = k]
    BY DEF SendIt
  <2>4. PostSummary => \E q : hist' = [hist EXCEPT !.posts = q]
    BY DEF PostSummary
  <2>5. EndIt \/ (\E p \in Callers : StopEnds(p)) => \E c, state : EndRecord(c, state)
    BY DEF EndIt, StopEnds
  <2> QED BY <1>2, <2>1, <2>2, <2>3, <2>4, <2>5 DEF HistWrites
<1> QED BY <1>1, <1>3 DEF Past

LEMMA ToldStep ==
  ASSUME Types, Counting, Told, [Next]_vars
  PROVE  Told'
<1>1. /\ hist.posts \in Seq(Convs \X Nat) /\ hist.endings \in Nat /\ rec \in [Convs -> StoreRecords]
      /\ \A c \in Convs : rec[c].endedAt \in Nat
  BY DEF Types, PastOK, Past, StoresOK, StoreRecords, Records
<1>2. /\ IsInjective(hist.posts)
      /\ \A i \in DOMAIN hist.posts : hist.posts[i] \in Convs \X (1 .. hist.endings)
      /\ \A c \in Convs : /\ rec[c].endedAt <= hist.endings
                          /\ HasEnded(rec[c]) => rec[c].endedAt > 0
                          /\ Posted(c, rec[c].endedAt) => rec[c].told
      /\ eng.at \in {"post", "mark", "turn"} =>
           eng.ending \in 1 .. hist.endings /\ ~Posted(eng.conv, eng.ending)
      /\ eng.at = "turn" /\ rec[eng.conv].endedAt = eng.ending => rec[eng.conv].told
  BY DEF Told, ReportedOnce
<1>3. \A c, n : Posted(c, n) => n \in 1 .. hist.endings
  BY <1>2 DEF Posted, ToSet
<1>4. CASE PostSummary
  <2>1. /\ eng.at = "turn" /\ rec' = rec /\ eng' = Resting
        /\ hist' = [hist EXCEPT !.posts = Append(hist.posts, <<eng.conv, eng.ending>>)]
    BY <1>4 DEF PostSummary
  <2>2. PICK c \in Convs : c = eng.conv
    BY <2>1, EngConv DEF AtWork
  <2>3. PICK n \in 1 .. hist.endings : n = eng.ending
    BY <1>2, <2>1
  <2>4. hist'.posts = Append(hist.posts, <<c, n>>) /\ hist'.endings = hist.endings
    BY <2>1, <2>2, <2>3 DEF Types, PastOK, Past
  <2>5. ~Posted(c, n)
    BY <1>2, <2>1, <2>2, <2>3
  <2> DEFINE q == Append(hist.posts, <<c, n>>)
             k == Len(hist.posts)
  <2>6. k \in Nat /\ DOMAIN q = 1 .. k + 1 /\ q[k + 1] = <<c, n>> /\ \A i \in 1 .. k : q[i] = hist.posts[i]
    BY <1>1
  <2>7. DOMAIN hist.posts = 1 .. k /\ \A i \in 1 .. k : hist.posts[i] # <<c, n>>
    BY <1>1, <2>5 DEF Posted, ToSet
  <2> HIDE DEF q, k
  <2>8. IsInjective(q)
    BY <1>2, <2>6, <2>7 DEF IsInjective
  <2>9. ASSUME NEW i \in DOMAIN q PROVE q[i] \in Convs \X (1 .. hist.endings)
    <3>1. <<c, n>> \in Convs \X (1 .. hist.endings)
      OBVIOUS
    <3>2. CASE i = k + 1
      BY <2>6, <3>1, <3>2
    <3>3. CASE i \in 1 .. k
      BY <1>2, <2>6, <2>7, <3>3
    <3>4. i = k + 1 \/ i \in 1 .. k
      BY <2>6
    <3> QED BY <3>2, <3>3, <3>4
  <2>10. \A d, m : Posted(d, m)' => Posted(d, m) \/ (d = c /\ m = n)
    <3>1. \A d, m : <<d, m>> \in ToSet(q) => <<d, m>> \in ToSet(hist.posts) \/ <<d, m>> = <<c, n>>
      BY <2>6, <2>7 DEF ToSet
    <3> QED BY <2>4, <3>1 DEF Posted, q
  <2>11. rec[c].endedAt = n => rec[c].told
    BY <1>2, <2>1, <2>2, <2>3
  <2>12. eng'.at = "idle"
    BY <2>1, MoveFields
  <2>13. \A d \in Convs : <<d, rec'[d].endedAt>> \in ToSet(hist'.posts) => rec'[d].told
    BY <1>2, <2>1, <2>10, <2>11 DEF Posted
  <2> QED BY <1>2, <2>1, <2>4, <2>8, <2>9, <2>12, <2>13 DEF Told, ReportedOnce, Posted, q
<1>5. CASE ~PostSummary
  <2>1. hist'.posts = hist.posts /\ hist'.endings \in Nat /\ hist.endings <= hist'.endings
    BY <1>1, <1>5, PastEndings
  <2>2. \A c, n : Posted(c, n)' <=> Posted(c, n)
    BY <2>1 DEF Posted
  <2>3. ASSUME NEW c \in Convs
        PROVE  /\ rec'[c].endedAt <= hist'.endings
               /\ HasEnded(rec'[c]) => rec'[c].endedAt > 0
               /\ <<c, rec'[c].endedAt>> \in ToSet(hist.posts) => rec'[c].told
    <3>1. CASE SameEnding(rec[c], rec'[c])
      BY <1>1, <1>2, <2>1, <3>1 DEF SameEnding, HasEnded, Posted
    <3>2. CASE NoEnding(rec'[c])
      BY <1>3, <2>1, <3>2 DEF NoEnding, Posted
    <3>3. CASE rec'[c].endedAt = hist.endings + 1 /\ hist'.endings = hist.endings + 1
      BY <1>1, <1>3, <2>1, <3>3 DEF Posted
    <3> QED BY <3>1, <3>2, <3>3, EndingStep
  <2>4. eng'.at \in {"post", "mark", "turn"} =>
          eng'.ending \in 1 .. hist'.endings /\ <<eng'.conv, eng'.ending>> \notin ToSet(hist.posts)
    <3>1. CASE eng' = eng
      BY <1>1, <1>2, <2>1, <3>1 DEF Posted
    <3>2. CASE eng' # eng /\ eng'.at = "post"
      <4>1. PICK c \in Convs : Delivers(c) /\ eng'.conv = c
        BY <3>2, EngAt
      <4>2. HasEnded(rec[c]) /\ ~rec[c].told /\ eng'.ending = rec[c].endedAt
        BY <4>1 DEF Delivers, Waiting, Undelivered
      <4>3. rec[c].endedAt \in 1 .. hist.endings /\ ~Posted(c, rec[c].endedAt)
        BY <1>1, <1>2, <4>2
      <4> QED BY <1>1, <2>1, <4>1, <4>2, <4>3 DEF Posted
    <3>3. CASE eng' # eng /\ eng'.at \in {"mark", "turn"}
      <4>1. (ClaimParent \/ MarkDelivered) /\ eng'.conv = eng.conv /\ eng'.ending = eng.ending
        BY <3>3, EngAt DEF SameConv
      <4>2. eng.at \in {"post", "mark"}
        BY <4>1 DEF ClaimParent, MarkDelivered
      <4> QED BY <1>1, <1>2, <2>1, <4>1, <4>2 DEF Posted
    <3> QED BY <3>1, <3>2, <3>3
  <2>5. eng'.at = "turn" /\ rec'[eng'.conv].endedAt = eng'.ending => rec'[eng'.conv].told
    <3>1. CASE eng' = eng
      <4>1. SUFFICES ASSUME eng.at = "turn", rec'[eng.conv].endedAt = eng.ending
                     PROVE  rec'[eng.conv].told
        BY <3>1
      <4>2. eng.conv \in Convs /\ eng.ending \in 1 .. hist.endings
        BY <1>2, <4>1, EngConv DEF AtWork
      <4>3. SameEnding(rec[eng.conv], rec'[eng.conv])
        <5>1. PICK c \in Convs : c = eng.conv
          BY <4>2
        <5>2. \/ SameEnding(rec[c], rec'[c])
              \/ NoEnding(rec'[c])
              \/ (rec'[c].endedAt = hist.endings + 1 /\ hist'.endings = hist.endings + 1)
          BY EndingStep
        <5>3. rec'[c].endedAt \in 1 .. hist.endings
          BY <4>1, <4>2, <5>1
        <5> QED BY <1>1, <5>1, <5>2, <5>3 DEF NoEnding
      <4> QED BY <1>2, <4>1, <4>3 DEF SameEnding
    <3>2. CASE eng' # eng
      <4>1. SUFFICES ASSUME eng'.at = "turn" PROVE rec'[eng'.conv].told
        OBVIOUS
      <4>2. MarkDelivered /\ eng'.conv = eng.conv
        BY <3>2, <4>1, EngAt DEF SameConv
      <4>3. PICK c \in Convs : c = eng.conv
        BY <4>2, EngConv DEF MarkDelivered, AtWork
      <4>4. rec' = [rec EXCEPT ![c] = MarkedDelivered(rec[c])]
        BY <4>2, <4>3 DEF MarkDelivered
      <4>5. MarkedDelivered(rec[c]).told
        BY <1>1, RecordEndings
      <4> QED BY <1>1, <4>2, <4>3, <4>4, <4>5
    <3> QED BY <3>1, <3>2
  <2>6. \A i \in DOMAIN hist.posts : hist.posts[i] \in Convs \X (1 .. hist'.endings)
    BY <1>1, <1>2, <2>1
  <2> QED BY <1>2, <2>1, <2>3, <2>4, <2>5, <2>6 DEF Told, ReportedOnce, Posted
<1> QED BY <1>4, <1>5

-----------------------------------------------------------------------------
(* Nothing is sent on top of a question.                                   *)

SameReply(x, y) == /\ y.kind = x.kind /\ y.armedAt = x.armedAt
                   /\ y.newer = x.newer /\ y.answers = x.answers

\* A reply is written by the turn it answers, and a send makes it an old one.
LEMMA ReplyStep ==
  ASSUME Types, [Next]_vars, NEW c \in Convs
  PROVE  \/ SameReply(reply[c], reply'[c])
         \/ /\ \E kind \in Kinds : Speak(c, kind)
            /\ reply'[c].armedAt = loop[c].armedAt /\ reply'[c].newer
            /\ reply'[c].answers => OfTheLoop(c)
         \/ /\ SendIt /\ c = eng.conv
            /\ reply'[c].armedAt = reply[c].armedAt /\ ~reply'[c].answers
<1> DEFINE Goal == \/ SameReply(reply[c], reply'[c])
                   \/ /\ \E kind \in Kinds : Speak(c, kind)
                      /\ reply'[c].armedAt = loop[c].armedAt /\ reply'[c].newer
                      /\ reply'[c].answers => OfTheLoop(c)
                   \/ /\ SendIt /\ c = eng.conv
                      /\ reply'[c].armedAt = reply[c].armedAt /\ ~reply'[c].answers
<1>1. reply \in [Convs -> Replies]
  BY DEF Types, TurnsOK
<1>2. ASSUME reply'[c] = reply[c] PROVE Goal
  BY <1>2 DEF SameReply
<1>3. ASSUME NEW d \in Convs, NEW kind \in Kinds, Speak(d, kind) PROVE Goal
  <2>1. CASE d = c
    <3> DEFINE said == [kind |-> kind, armedAt |-> loop[c].armedAt, newer |-> TRUE, fresh |-> TRUE,
                        answers |-> run[c].by = "loop", verdict |-> run[c].verify]
    <3>1. reply'[c] = said /\ run[c].on
      BY <1>1, <1>3, <2>1 DEF Speak
    <3>2. said.armedAt = loop[c].armedAt /\ said.newer /\ (said.answers => run[c].by = "loop")
      OBVIOUS
    <3> QED BY <1>3, <2>1, <3>1, <3>2 DEF OfTheLoop
  <2>2. CASE d # c
    <3>1. reply'[c] = reply[c]
      BY <1>1, <1>3, <2>2 DEF Speak
    <3> QED BY <1>2, <3>1
  <2> QED BY <2>1, <2>2
<1>4. ASSUME TickBegins PROVE Goal
  <2>1. reply'[c] = [reply[c] EXCEPT !.fresh = FALSE]
    BY <1>4 DEF TickBegins
  <2>2. reply[c] \in Replies
    BY <1>1
  <2>3. SameReply(reply[c], [reply[c] EXCEPT !.fresh = FALSE])
    BY <2>2 DEF SameReply, Replies
  <2> QED BY <2>1, <2>3
<1>5. ASSUME SendIt PROVE Goal
  <2>1. PICK d \in Convs : d = eng.conv
    BY <1>5, EngConv DEF SendIt, AtWork
  <2>2. reply' = [reply EXCEPT ![d] = [reply[d] EXCEPT !.newer = reply[d].fresh, !.answers = FALSE]]
    BY <1>1, <1>5, <2>1 DEF SendIt, Replies
  <2>3. CASE d = c
    <3> DEFINE old == [reply[c] EXCEPT !.newer = reply[c].fresh, !.answers = FALSE]
    <3>1. reply'[c] = old
      BY <1>1, <2>2, <2>3
    <3>2. old.armedAt = reply[c].armedAt /\ ~old.answers
      BY <1>1 DEF Replies
    <3> QED BY <1>5, <2>1, <2>3, <3>1, <3>2
  <2>4. CASE d # c
    <3>1. reply'[c] = reply[c]
      BY <1>1, <2>2, <2>4
    <3> QED BY <1>2, <3>1
  <2> QED BY <2>3, <2>4
<1>6. reply' = reply \/ ReplyWrites
  BY WhoWrites
<1> HIDE DEF Goal
<1>7. Goal
  BY <1>2, <1>3, <1>4, <1>5, <1>6 DEF ReplyWrites
<1> QED BY <1>7 DEF Goal

\* A question that answers a turn of this arming makes the tick stop.
LEMMA AskedStops ==
  ASSUME Types, NEW c \in Convs, reply[c].kind = "asks", reply[c].newer,
         reply[c].armedAt = loop[c].armedAt
  PROVE  Outcome(c).do = "stop"
<1>1. loop[c].armedAt \in Nat
  BY DEF Types, StoresOK, LoopRecords
<1>2. ~Missing(c) /\ ~PreArm(c)
  BY <1>1 DEF Missing, PreArm
<1>3. Judged(c) = "asks"
  BY <1>2 DEF Judged
<1>4. \A s, x : ToStop(s, x).do = "stop"
  BY DEF ToStop
<1>5. Decide(c).do = "stop"
  BY <1>3, <1>4 DEF Decide
<1> QED BY <1>4, <1>5 DEF Outcome

LEMMA AskedStep ==
  ASSUME Types, Asked, [Next]_vars
  PROVE  Asked'
<1>1. /\ \A c \in Convs : /\ reply[c].armedAt \in Nat /\ loop[c].armedAt \in Nat
                          /\ reply[c].armedAt <= loop[c].armedAt
                          /\ reply[c].answers => reply[c].newer
      /\ eng.at \in {"drain", "claim"} => ~OfTheLoop(eng.conv)
  BY DEF Asked, Types, StoresOK, TurnsOK, LoopRecords, Replies, OfTheLoop
<1>2. \A c \in Convs : loop'[c].armedAt = loop[c].armedAt \/ loop'[c].armedAt = loop[c].armedAt + 1
  BY LoopStep DEF SameArming, NewArming
<1>3. \A c \in Convs : (\E kind \in Kinds : Speak(c, kind)) => loop' = loop /\ eng' = eng
  BY DEF Speak
<1>4. ASSUME NEW c \in Convs
      PROVE  reply'[c].armedAt <= loop'[c].armedAt /\ (reply'[c].answers => reply'[c].newer)
  <2>1. CASE SameReply(reply[c], reply'[c])
    BY <1>1, <1>2, <2>1 DEF SameReply
  <2>2. CASE (\E kind \in Kinds : Speak(c, kind)) /\ reply'[c].armedAt = loop[c].armedAt /\ reply'[c].newer
    BY <1>1, <1>3, <2>2
  <2>3. CASE SendIt /\ reply'[c].armedAt = reply[c].armedAt /\ ~reply'[c].answers
    BY <1>1, <1>2, <2>3
  <2> QED BY <2>1, <2>2, <2>3, ReplyStep
<1>5. eng'.at \in {"drain", "claim", "send"} => eng'.conv \in Convs
  <2>1. eng' \in Engine
    BY EngStep
  <2> QED BY <2>1 DEF Engine, AtWork
<1>6. ASSUME eng'.at \in {"drain", "claim", "send"}, reply'[eng'.conv].kind = "asks",
             reply'[eng'.conv].answers, reply'[eng'.conv].armedAt = loop'[eng'.conv].armedAt
      PROVE  FALSE
  <2>1. PICK c \in Convs : c = eng'.conv
    BY <1>5, <1>6
  <2>2. CASE eng' = eng
    <3>1. ~SendIt
      BY <1>6, <2>2, EngConv, MoveFields DEF SendIt, Engines
    <3>2. ~(reply[c].kind = "asks" /\ reply[c].answers /\ reply[c].armedAt = loop[c].armedAt)
      BY <1>6, <2>1, <2>2 DEF Asked, QuestionHoldsTheLoop
    <3>3. CASE SameReply(reply[c], reply'[c])
      <4>1. reply[c].kind = "asks" /\ reply[c].answers /\ reply[c].armedAt = loop'[c].armedAt
        BY <1>6, <2>1, <3>3 DEF SameReply
      <4>2. reply[c].armedAt <= loop[c].armedAt /\ loop[c].armedAt \in Nat
        BY <1>1
      <4> QED BY <1>2, <3>2, <4>1, <4>2
    <3>4. CASE \E kind \in Kinds : Speak(c, kind) /\ (reply'[c].answers => OfTheLoop(c))
      BY <1>1, <1>6, <2>1, <2>2, <3>4 DEF Speak
    <3> QED BY <3>1, <3>3, <3>4, ReplyStep
  <2>3. CASE eng' # eng /\ eng'.at = "drain"
    <3>1. SendsTo(c)
      BY <2>1, <2>3, EngAt
    <3>2. reply' = reply /\ loop' = loop /\ Outcome(c).do # "stop"
      BY <3>1 DEF SendsTo, TickDecides
    <3> QED BY <1>1, <1>6, <2>1, <3>2, AskedStops
  <2>4. CASE eng' # eng /\ eng'.at \in {"claim", "send"}
    <3>1. (DrainQueue \/ ClaimSlot) /\ c = eng.conv
      BY <2>1, <2>4, EngAt DEF SameConv
    <3>2. reply' = reply /\ loop' = loop /\ eng.at \in {"drain", "claim"}
      BY <3>1 DEF DrainQueue, ClaimSlot
    <3> QED BY <1>6, <2>1, <3>1, <3>2 DEF Asked, QuestionHoldsTheLoop
  <2> QED BY <1>6, <2>2, <2>3, <2>4
<1>7. ASSUME eng'.at \in {"drain", "claim"} PROVE ~(run'[eng'.conv].on /\ run'[eng'.conv].by = "loop")
  <2>1. PICK c \in Convs : c = eng'.conv
    BY <1>5, <1>7
  <2>2. CASE eng' = eng
    <3>1. ~ClaimSlot
      BY <1>7, <2>2, EngConv, MoveFields DEF ClaimSlot, Engines
    <3>2. ~OfTheLoop(c)
      BY <1>1, <1>7, <2>1, <2>2
    <3>3. ~OfTheLoop(c)'
      BY <3>1, <3>2, LoopTurnsBegin
    <3> QED BY <2>1, <3>3 DEF OfTheLoop
  <2>3. CASE eng' # eng
    <3>1. \/ SendsTo(c)
          \/ DrainQueue /\ c = eng.conv
      BY <1>7, <2>1, <2>3, EngAt DEF SameConv
    <3>2. run' = run /\ ~OfTheLoop(c)
      BY <1>1, <3>1 DEF SendsTo, TickDecides, DrainQueue, OfTheLoop
    <3> QED BY <2>1, <3>2 DEF OfTheLoop
  <2> QED BY <2>2, <2>3
<1>8. QuestionHoldsTheLoop'
  BY <1>6 DEF QuestionHoldsTheLoop
<1> QED BY <1>4, <1>7, <1>8 DEF Asked

-----------------------------------------------------------------------------
(* The theorems.                                                           *)

LEMMA InitTypes == Init => Types
<1> SUFFICES ASSUME Init PROVE Types
  OBVIOUS
<1>1. /\ rec = [c \in Convs |-> NoRecord] /\ loop = [c \in Convs |-> NoLoop]
      /\ run = [c \in Convs |-> NoRun] /\ reply = [c \in Convs |-> NoReply]
      /\ parent = "nobody" /\ missed = [c \in Convs |-> [armedAt |-> 0, n |-> 0]]
      /\ eng = Resting /\ call = [p \in Callers |-> NoCall]
      /\ hist = [accepted |-> {}, dropped |-> {}, carried |-> {}, endings |-> 0, posts |-> <<>>]
      /\ used = [calls |-> 0, own |-> 0, restarts |-> 0]
  BY DEF Init
<1>2. NoRecord \in StoreRecords
  <2>1. \A q \in Seq(Messages) : Len(q) <= MaxQueue =>
          [state |-> "none", held |-> FALSE, awaits |-> FALSE, queue |-> q, session |-> FALSE,
           summary |-> FALSE, told |-> FALSE, endedAt |-> 0] \in StoreRecords
    BY DEF StoreRecords, Records
  <2>2. \E q \in Seq(Messages) : q = <<>> /\ Len(q) <= MaxQueue
    <3>1. <<>> \in Seq(Messages) /\ Len(<<>>) = 0 /\ 0 <= MaxQueue
      BY QueueAssumption
    <3>2. WITNESS <<>> \in Seq(Messages)
    <3> QED BY <3>1
  <2>3. PICK q \in Seq(Messages) : q = <<>> /\ Len(q) <= MaxQueue
    BY <2>2
  <2> QED BY <2>1, <2>3 DEF NoRecord
<1>3. NoLoop \in LoopRecords
  BY DEF NoLoop, LoopRecords, Statuses, Reasons, Phases
<1>4. NoRun \in Turns /\ NoReply \in Replies /\ [armedAt |-> 0, n |-> 0] \in Guards
  BY DEF NoRun, Turns, NoReply, Replies, Guards
<1>5. NoCall \in Request
  BY DEF NoCall, Request, Requests
<1>6. Resting \in Engine
  <2>1. \A q \in Seq(Messages) : q = <<>> =>
          [at |-> "idle", lap |-> "none", todo |-> {}, conv |-> Nobody, held |-> {}, awaits |-> {},
           status |-> "none", reason |-> "none", enter |-> "none", taken |-> q, ending |-> 0] \in Engine
    BY DEF Engine, Engines, AtWork, Statuses, Reasons
  <2>2. <<>> \in Seq(Messages)
    OBVIOUS
  <2> QED BY <2>1, <2>2 DEF Resting
<1>7. hist \in Past
  <2>1. \A q \in Seq(Convs \X Nat) : q = <<>> =>
          [accepted |-> {}, dropped |-> {}, carried |-> {}, endings |-> 0, posts |-> q] \in Past
    BY DEF Past
  <2>2. <<>> \in Seq(Convs \X Nat)
    OBVIOUS
  <2> QED BY <1>1, <2>1, <2>2
<1>8. used \in [calls : Nat, own : Nat, restarts : Nat]
  BY <1>1
<1>9. StoresOK
  BY <1>1, <1>2, <1>3 DEF StoresOK
<1>10. TurnsOK
  BY <1>1, <1>4 DEF TurnsOK
<1>11. ThreadsOK
  BY <1>1, <1>5, <1>6 DEF ThreadsOK
<1> QED BY <1>7, <1>8, <1>9, <1>10, <1>11 DEF Types, PastOK

LEMMA InitHistory == Init => Counting /\ Kept /\ Told
<1> SUFFICES ASSUME Init PROVE Counting /\ Kept /\ Told
  OBVIOUS
<1>1. /\ \A c \in Convs : rec[c] = NoRecord
      /\ \A p \in Callers : call[p] = NoCall
      /\ eng.at = "idle" /\ eng.taken = <<>>
      /\ hist.accepted = {} /\ hist.dropped = {} /\ hist.carried = {} /\ hist.posts = <<>>
      /\ hist.endings = 0 /\ used.calls = 0
  BY DEF Init, Resting
<1>2. ToSet(<<>>) = {}
  BY DEF ToSet
<1>3. Counting
  <2>1. Writing = {}
    BY <1>1 DEF Writing, NoCall
  <2>2. MaxCalls \in Nat
    BY GoalAssumption
  <2> QED BY <1>1, <2>1, <2>2, FS_EmptySet DEF Counting
<1>4. NoRecord.queue = <<>> /\ NoRecord.endedAt = 0 /\ NoRecord.state = "none"
  BY DEF NoRecord
<1>5. Kept
  <2>1. Taken = {} /\ \A c \in Convs : WaitingIn(c) = {}
    BY <1>1, <1>2, <1>4 DEF Taken, WaitingIn
  <2> QED BY <1>1, <2>1 DEF Kept
<1>6. Told
  <2>1. IsInjective(hist.posts) /\ DOMAIN hist.posts = {} /\ \A c, n : ~Posted(c, n)
    BY <1>1, <1>2 DEF IsInjective, Posted
  <2>2. \A c \in Convs : rec[c].endedAt <= hist.endings /\ ~HasEnded(rec[c])
    BY <1>1, <1>4 DEF HasEnded, EndStates
  <2> QED BY <1>1, <2>1, <2>2 DEF Told, ReportedOnce
<1> QED BY <1>3, <1>5, <1>6

LEMMA InitTurns == Init => Writes /\ Capped /\ Asked
<1> SUFFICES ASSUME Init PROVE Writes /\ Capped /\ Asked
  OBVIOUS
<1>1. /\ \A c \in Convs : loop[c] = NoLoop /\ run[c] = NoRun /\ reply[c] = NoReply
      /\ eng.at = "idle"
  BY DEF Init, Resting
<1>2. Writes
  <2>1. EngineTurns = {}
    BY <1>1, GoalAssumption DEF EngineTurns, NoRun
  <2> QED BY <1>1, <2>1 DEF Writes, AboutToWrite
<1>3. Capped
  BY <1>1, GoalAssumption DEF Capped, CapBoundsSends, NoLoop
<1>4. Asked
  BY <1>1 DEF Asked, QuestionHoldsTheLoop, NoLoop, NoReply
<1> QED BY <1>2, <1>3, <1>4

\* The inductive invariant: what the stores, the threads and the history agree on in every
\* reachable state, however the request threads, the engine and kills interleave.
THEOREM Invariance == Spec => []IInv
<1>1. Init => IInv
  BY InitTypes, InitHistory, InitTurns DEF IInv
<1>2. IInv /\ [Next]_vars => IInv'
  <2> SUFFICES ASSUME IInv, [Next]_vars PROVE IInv'
    OBVIOUS
  <2>1. Types /\ Counting /\ Kept /\ Writes /\ Capped /\ Told /\ Asked
    BY DEF IInv
  <2>2. Types' /\ Counting' /\ Kept' /\ Writes' /\ Capped' /\ Told' /\ Asked'
    BY <2>1, TypesStep, CountingStep, KeptStep, WritesStep, CappedStep, ToldStep, AskedStep
  <2> QED BY <2>2 DEF IInv
<1> QED BY <1>1, <1>2, PTL DEF Spec

\* Every record, slot and thread holds values of its kind, and no queue passes its limit
\* (RepoSubagentStore, LoopConfigStore, AutopilotService).
THEOREM TypeCorrect == Spec => []TypeOK
<1>1. IInv => TypeOK
  BY DEF IInv, Types, StoresOK, TurnsOK, ThreadsOK, StoreRecords, Turns, Engine, Engines, TypeOK
<1> QED BY <1>1, Invariance, PTL

\* No arming of a loop is driven past its cap, whoever stops or re-arms it between the
\* engine's decision and its count (AutopilotService.TickRepo, RecordSend).
THEOREM CapIsNeverPassed == Spec => []CapBoundsSends
<1>1. IInv => CapBoundsSends
  BY DEF IInv, Capped
<1> QED BY <1>1, Invariance, PTL

\* A queued message waits, is in the engine's hands or was carried, and is in one of these
\* places only: no two turns carry it (RepoSubagentStore.Drain, DecoratePrompt).
THEOREM MessagesTravelOnce == Spec => []CarriedOnce
<1>1. IInv => CarriedOnce
  BY DEF IInv, Kept, WaitingIn, Taken, CarriedOnce
<1> QED BY <1>1, Invariance, PTL

\* No ending reaches the parent twice, through kills, Continues and later endings of the same
\* conversation (RepoSubagentService.DeliverSummaries).
THEOREM EndingsAreReportedOnce == Spec => []ReportedOnce
<1>1. IInv => ReportedOnce
  BY DEF IInv, Told
<1> QED BY <1>1, Invariance, PTL

\* The turns the engine starts on its own never overlap in the checkout: of the sends of
\* writers' loops, the parent's own loop and the summaries at most one is under way
\* (AutopilotService.TickRepo, WriterBlocked, DeliverSummaries).
THEOREM EngineWritesAlone == Spec => []EngineKeepsOneWriter
<1>1. ASSUME IInv PROVE EngineKeepsOneWriter
  <2>1. /\ \A c, d \in EngineTurns : c = d
        /\ EngineTurns # {} => parent \notin {"summary", "loop"}
    BY <1>1 DEF IInv, Writes, ParentDriven
  <2>2. CASE EngineTurns = {}
    BY <2>2, FS_EmptySet DEF EngineKeepsOneWriter
  <2>3. CASE EngineTurns # {}
    <3>1. PICK c : EngineTurns = {c}
      BY <2>1, <2>3
    <3>2. Cardinality(EngineTurns) = 1
      BY <3>1, FS_Singleton
    <3> QED BY <2>1, <2>3, <3>2 DEF EngineKeepsOneWriter
  <2> QED BY <2>2, <2>3
<1> QED BY <1>1, Invariance, PTL

\* While a question of this arming is unanswered the engine is never on its way to a send
\* (GoalLoop.Decide, AutopilotService.TickRepo).
THEOREM QuestionsHold == Spec => []QuestionHoldsTheLoop
<1>1. IInv => QuestionHoldsTheLoop
  BY DEF IInv, Asked
<1> QED BY <1>1, Invariance, PTL

-----------------------------------------------------------------------------
(* A conversation that is done was verified, as long as one process lives  *)
(* and nobody writes to a conversation that is over.                       *)

(* A reply the engine does not judge: the previous conversation's, or older than the last send. *)
Stale(c)   == PreArm(c) \/ (loop[c].sent /\ ~reply[c].newer)

(* A GOAL_VERIFIED the engine would judge answers the verification prompt, and so does what the *)
(* turn under way will write.                                                                   *)
Vouched(c) == reply[c].kind = "verified" => Stale(c) \/ reply[c].verdict
Checked(c) == (run[c].on => run[c].verify) /\ Vouched(c)
Sure(c)    == reply[c].kind = "verified" /\ reply[c].verdict /\ ~run[c].on

Hand(c, at) == eng.conv = c /\ eng.at \in at
OnItsWay    == {"drain", "claim", "send"}
Switching   == {"send", "phase"}

Marked(c)    == /\ loop[c].sent => ~loop[c].late
                /\ reply[c].fresh => reply[c].newer
                /\ loop[c].phase = "verify" => Armed(loop[c])
Finished(c)  == loop[c].status = "done" => Sure(c) /\ ~loop[c].active
Sending(c)   == Hand(c, OnItsWay) =>
                  /\ loop[c].status # "done"
                  /\ eng.enter = "none" => loop[c].phase = "work"
                  /\ eng.enter = "verify" /\ reply[c].kind = "verified" => Stale(c)
                  /\ eng.at # "send" => ~run[c].on
                  /\ eng.at = "send" => run[c].on /\ (eng.enter = "verify" => run[c].verify)
Entering(c)  == Hand(c, {"phase"}) =>
                  /\ loop[c].status # "done" /\ eng.enter # "none"
                  /\ eng.enter = "verify" => Checked(c)
\* Between the send that leaves the phase and the step that writes the new phase the slot still
\* says "verify".
Verifying(c) == loop[c].phase = "verify" /\ ~(Hand(c, Switching) /\ eng.enter = "work") => Checked(c)
Ending(c)    == Hand(c, {"resolve", "end"}) /\ eng.status = "done" => Sure(c)

Proven(c)    == Marked(c) /\ Finished(c) /\ Sending(c) /\ Entering(c) /\ Verifying(c) /\ Ending(c)
NoFollowUp   == \A p \in Callers : call[p].op # "follow"

-----------------------------------------------------------------------------
SameSlot(e, f)   == /\ f.armedAt = e.armedAt /\ f.active = e.active /\ f.status = e.status
                    /\ f.phase = e.phase /\ f.sent = e.sent /\ (f.late => e.late)
SameTurn(x, y)   == y.on = x.on /\ y.verify = x.verify
SameAnswer(x, y) == /\ y.kind = x.kind /\ y.armedAt = x.armedAt /\ y.newer = x.newer
                    /\ y.verdict = x.verdict /\ (y.fresh => x.fresh)
\* The engine works on something else, and did not just pass by a phase it had to write.
Elsewhere(c) == ~Hand(c, OnItsWay \cup {"phase", "resolve", "end"})
Leaves(c)    == Elsewhere(c)' /\ ~Hand(c, Switching)

\* What is known of a conversation stays known when its slot, its turn and its reply stay.
LEMMA Unmoved ==
  ASSUME NEW c \in Convs, Proven(c), SameSlot(loop[c], loop'[c]), SameTurn(run[c], run'[c]),
         SameAnswer(reply[c], reply'[c]), eng' = eng \/ Leaves(c)
  PROVE  Proven(c)'
<1>1. PreArm(c)' = PreArm(c) /\ Stale(c)' = Stale(c)
  BY DEF SameSlot, SameAnswer, PreArm, Stale
<1>2. Vouched(c)' = Vouched(c) /\ Checked(c)' = Checked(c) /\ Sure(c)' = Sure(c)
  BY <1>1 DEF SameTurn, SameAnswer, Vouched, Checked, Sure
<1>3. Marked(c)' /\ Finished(c)'
  BY <1>2 DEF Proven, Marked, Finished, SameSlot, SameAnswer, Armed
<1>4. CASE eng' = eng
  BY <1>1, <1>2, <1>3, <1>4
  DEF Proven, Sending, Entering, Verifying, Ending, Hand, SameSlot, SameTurn, SameAnswer
<1>5. CASE Leaves(c)
  <2>1. Sending(c)' /\ Entering(c)' /\ Ending(c)'
    BY <1>5 DEF Leaves, Elsewhere, Hand, Sending, Entering, Ending
  <2>2. Verifying(c)'
    BY <1>2, <1>5 DEF Leaves, Proven, Verifying, SameSlot
  <2> QED BY <1>3, <2>1, <2>2 DEF Proven
<1> QED BY <1>4, <1>5

\* A turn of the conversation speaks.
LEMMA SpeakProves ==
  ASSUME Types, NEW c \in Convs, NEW kind \in Kinds, Speak(c, kind), Proven(c)
  PROVE  Proven(c)'
<1>1. /\ run[c].on /\ ~Hand(c, {"send"}) /\ eng' = eng /\ loop' = loop
      /\ run \in [Convs -> Turns] /\ reply \in [Convs -> Replies]
  BY DEF Speak, Hand, Types, TurnsOK
<1>2. run'[c].on /\ run'[c].verify = run[c].verify
  BY <1>1 DEF Speak, Turns
<1>3. reply'[c] = [kind |-> kind, armedAt |-> loop[c].armedAt, newer |-> TRUE, fresh |-> TRUE,
                   answers |-> run[c].by = "loop", verdict |-> run[c].verify]
  BY <1>1 DEF Speak
<1>4. reply'[c].newer /\ (run[c].verify => reply'[c].verdict)
  BY <1>3
<1>5. run[c].verify => Checked(c)'
  BY <1>2, <1>4 DEF Checked, Vouched
<1>6. Marked(c)'
  BY <1>1, <1>4 DEF Proven, Marked
<1>7. Finished(c)' /\ Ending(c)'
  BY <1>1 DEF Proven, Finished, Ending, Sure, Hand
<1>8. Sending(c)'
  BY <1>1 DEF Proven, Sending, Hand, OnItsWay
<1>9. Entering(c)' /\ Verifying(c)'
  BY <1>1, <1>5 DEF Proven, Entering, Verifying, Checked, Hand
<1> QED BY <1>6, <1>7, <1>8, <1>9 DEF Proven

\* It ends.
LEMMA TurnEndProves ==
  ASSUME Types, NEW c \in Convs, NEW end \in Endings, NEW session \in BOOLEAN,
         TurnEnds(c, end, session), Proven(c)
  PROVE  Proven(c)'
<1>1. ~Hand(c, {"send"}) /\ eng' = eng /\ loop' = loop /\ reply' = reply /\ run \in [Convs -> Turns]
  BY DEF TurnEnds, Hand, Types, TurnsOK
<1>2. ~run'[c].on
  BY <1>1 DEF TurnEnds, NoRun
<1>3. Stale(c)' = Stale(c) /\ (Checked(c) => Checked(c)') /\ (Sure(c) => Sure(c)')
  BY <1>1, <1>2 DEF Stale, PreArm, Checked, Vouched, Sure
<1> QED BY <1>1, <1>2, <1>3
        DEF Proven, Marked, Finished, Sending, Entering, Verifying, Ending, Hand, OnItsWay, Switching

\* A new arming begins in the work phase, and every reply is the previous conversation's.
LEMMA ArmProves ==
  ASSUME Types, Asked, NEW c \in Convs, Proven(c), loop'[c] = StartGoal(loop[c]),
         UNCHANGED <<run, reply, eng>>
  PROVE  Proven(c)'
<1>1. /\ loop[c].armedAt \in Nat /\ reply[c].armedAt \in Nat /\ reply[c].armedAt <= loop[c].armedAt
  BY DEF Asked, Types, StoresOK, TurnsOK, LoopRecords, Replies
<1>2. /\ loop'[c].armedAt = loop[c].armedAt + 1 /\ loop'[c].status = "looping" /\ loop'[c].phase = "work"
      /\ ~loop'[c].sent
  BY DEF StartGoal, NoLoop
<1>3. reply[c].kind = "verified" => Stale(c)'
  BY <1>1, <1>2 DEF Stale, PreArm
<1>4. (Checked(c) => Checked(c)') /\ (Sure(c) => Sure(c)')
  BY <1>3 DEF Checked, Vouched, Sure
<1> QED BY <1>2, <1>3, <1>4 DEF Proven, Marked, Finished, Sending, Entering, Verifying, Ending, Hand, OnItsWay

\* A stop leaves the arming, its marks and its phase.
LEMMA StopProves ==
  ASSUME Types, NEW c \in Convs, Proven(c), loop'[c] = StopLoop(loop[c]), UNCHANGED <<run, reply, eng>>
  PROVE  Proven(c)'
<1>1. loop[c] \in LoopRecords
  BY DEF Types, StoresOK
<1>2. CASE ~Armed(loop[c])
  <2>1. loop'[c] = loop[c]
    BY <1>2 DEF StopLoop, Resolve
  <2> QED BY <2>1, Unmoved DEF SameSlot, SameTurn, SameAnswer
<1>3. CASE Armed(loop[c])
  <2>1. /\ loop'[c].armedAt = loop[c].armedAt /\ loop'[c].status = "stopped" /\ loop'[c].phase = loop[c].phase
        /\ loop'[c].sent = loop[c].sent /\ loop'[c].late = loop[c].late
    BY <1>1, <1>3 DEF StopLoop, Resolve, LoopRecords
  <2>2. Stale(c)' = Stale(c)
    BY <2>1 DEF Stale, PreArm
  <2>3. Checked(c)' = Checked(c) /\ Sure(c)' = Sure(c)
    BY <2>2 DEF Checked, Vouched, Sure
  <2> QED BY <2>1, <2>2, <2>3 DEF Proven, Marked, Finished, Sending, Entering, Verifying, Ending, Hand, Armed
<1> QED BY <1>2, <1>3

-----------------------------------------------------------------------------
(* The engine's steps.                                                     *)

LEMMA WorkFields ==
  /\ \A c, s : LET e == [Working(c, "end") EXCEPT !.status = s]
               IN e.at = "end" /\ e.conv = c /\ e.status = s
  /\ \A c, s, x : LET e == [Working(c, "resolve") EXCEPT !.status = s, !.reason = x]
                  IN e.at = "resolve" /\ e.conv = c /\ e.status = s
  /\ \A c, x : LET e == [Working(c, "drain") EXCEPT !.enter = x]
               IN e.at = "drain" /\ e.conv = c /\ e.enter = x
  BY DEF Working, NextConv, Resting

\* The engine leaves what it had at hand for another step of the walk.
LEMMA LeavesProves ==
  ASSUME NEW c \in Convs, Proven(c), UNCHANGED <<loop, run, reply>>,
         eng.at \notin Switching,
         eng'.at \notin OnItsWay \cup {"phase", "resolve", "end"} \/ eng'.conv # c
  PROVE  Proven(c)'
<1>1. SameSlot(loop[c], loop'[c]) /\ SameTurn(run[c], run'[c]) /\ SameAnswer(reply[c], reply'[c])
  BY DEF SameSlot, SameTurn, SameAnswer
<1>2. Leaves(c)
  BY DEF Leaves, Elsewhere, Hand
<1> QED BY <1>1, <1>2, Unmoved

\* It is about to write the end a loop came to.
LEMMA EndingProves ==
  ASSUME NEW c \in Convs, NEW d \in Convs, Proven(c), UNCHANGED <<loop, run, reply>>, eng.at \notin Switching,
         eng' = [Working(d, "end") EXCEPT !.status = StateFor(loop[d].status)]
  PROVE  Proven(c)'
<1>1. eng'.at = "end" /\ eng'.conv = d /\ eng'.status = StateFor(loop[d].status)
  BY WorkFields
<1>2. CASE d # c
  BY <1>1, <1>2, LeavesProves
<1>3. CASE d = c
  <2>1. eng'.status = "done" => loop[c].status = "done"
    BY <1>1, <1>3 DEF StateFor
  <2>2. Ending(c)'
    BY <2>1 DEF Proven, Finished, Ending, Sure
  <2>3. Marked(c)' /\ Finished(c)'
    BY DEF Proven, Marked, Finished, Sure
  <2>4. Sending(c)' /\ Entering(c)'
    BY <1>1 DEF Sending, Entering, Hand, OnItsWay
  <2>5. Verifying(c)'
    <3>1. Checked(c)' = Checked(c)
      BY DEF Checked, Vouched, Stale, PreArm
    <3> QED BY <3>1 DEF Proven, Verifying, Hand, Switching
  <2> QED BY <2>2, <2>3, <2>4, <2>5 DEF Proven
<1> QED BY <1>2, <1>3

LEMMA ReconcileProves ==
  ASSUME NEW c \in Convs, NEW d \in Convs, Proven(c), Reconcile(d) \/ TickSkips(d) \/ TickWaits(d)
  PROVE  Proven(c)'
<1>1. UNCHANGED <<loop, run, reply>> /\ eng.at = "each"
  BY DEF Reconcile, TickSkips, TickWaits, Ticks
<1>2. \/ eng' = NextConv(eng.todo \ {d}) \/ eng' = Working(d, "plan")
      \/ eng' = [Working(d, "end") EXCEPT !.status = StateFor(loop[d].status)]
  BY DEF Reconcile, TickSkips, TickWaits, Pass
<1>3. CASE eng' = NextConv(eng.todo \ {d}) \/ eng' = Working(d, "plan")
  <2>1. eng'.at \in {"each", "plan"}
    BY <1>3, MoveFields
  <2> QED BY <1>1, <2>1, LeavesProves DEF OnItsWay, Switching
<1>4. CASE eng' = [Working(d, "end") EXCEPT !.status = StateFor(loop[d].status)]
  BY <1>1, <1>4, EndingProves DEF Switching
<1> QED BY <1>2, <1>3, <1>4

LEMMA ResolvedProves ==
  ASSUME Types, NEW c \in Convs, Proven(c), Resolved
  PROVE  Proven(c)'
<1>1. UNCHANGED <<loop, run, reply>> /\ eng.at = "resolved" /\ eng.conv \in Convs
  BY EngConv DEF Resolved, AtWork
<1>2. PICK d \in Convs : d = eng.conv
  BY <1>1
<1>3. \/ eng' = NextConv(eng.todo) \/ eng' = Working(d, "plan")
      \/ eng' = [Working(d, "end") EXCEPT !.status = StateFor(loop[d].status)]
  BY <1>2 DEF Resolved
<1>4. CASE eng' = NextConv(eng.todo) \/ eng' = Working(d, "plan")
  <2>1. eng'.at \in {"each", "plan"}
    BY <1>4, MoveFields
  <2> QED BY <1>1, <2>1, LeavesProves DEF OnItsWay, Switching
<1>5. CASE eng' = [Working(d, "end") EXCEPT !.status = StateFor(loop[d].status)]
  BY <1>1, <1>5, EndingProves DEF Switching
<1> QED BY <1>3, <1>4, <1>5

\* What the tick decides: done only on a reply that vouches, and a verification prompt only on
\* top of a reply that does not count.
LEMMA DecisionIsProven ==
  ASSUME Types, NEW c \in Convs, Proven(c), Ticks(c)
  PROVE  /\ Outcome(c).do = "stop" /\ Outcome(c).status = "done" => Sure(c)
         /\ Outcome(c).do # "stop" =>
              /\ Outcome(c).enter = "none" => loop[c].phase = "work"
              /\ Outcome(c).enter = "verify" /\ reply[c].kind = "verified" => Stale(c)
<1>1. /\ ~run[c].on /\ loop[c].active /\ eng.at = "each" /\ loop[c].phase \in {"work", "verify"}
  BY DEF Ticks, Types, StoresOK, LoopRecords, Phases
<1>2. \A s, x : ToStop(s, x).do = "stop" /\ ToStop(s, x).status = s
  BY DEF ToStop
<1>3. \A x : ToSend(x).do = "send" /\ ToSend(x).status = "none" /\ ToSend(x).enter = x
  BY DEF ToSend
<1>4. reply[c].kind = "verified" /\ Judged(c) # "verified" => Stale(c)
  BY DEF Judged, Missing, Stale
<1>5. Judged(c) = "verified" => reply[c].kind = "verified" /\ ~Stale(c)
  BY DEF Judged, Missing, Stale
<1>6. loop[c].phase = "verify" => Vouched(c)
  BY <1>1 DEF Proven, Verifying, Checked, Hand, Switching
<1> DEFINE d == Decide(c)
<1>7. d.status = "done" => Judged(c) = "verified" /\ loop[c].phase = "verify"
  BY <1>2, <1>3 DEF Decide
<1>8. d.do # "stop" => /\ d.enter = "none" => loop[c].phase = "work"
                       /\ d.enter = "verify" => Judged(c) # "verified"
  <2>1. CASE loop[c].phase = "verify"
    BY <1>2, <1>3, <2>1 DEF Decide
  <2>2. CASE loop[c].phase = "work"
    BY <1>2, <1>3, <2>2 DEF Decide
  <2> QED BY <1>1, <2>1, <2>2
<1> HIDE DEF d
<1>9. \/ Outcome(c) = d
      \/ Outcome(c).do = "stop" /\ Outcome(c).status \in {"error", "capped"}
  BY <1>2 DEF Outcome, d
<1>10. d.status = "done" => Sure(c)
  BY <1>1, <1>5, <1>6, <1>7 DEF Vouched, Sure
<1>11. d.do # "stop" => /\ d.enter = "none" => loop[c].phase = "work"
                        /\ d.enter = "verify" /\ reply[c].kind = "verified" => Stale(c)
  BY <1>4, <1>8
<1> QED BY <1>9, <1>10, <1>11

LEMMA DecideProves ==
  ASSUME Types, NEW c \in Convs, NEW d \in Convs, Proven(c), TickDecides(d)
  PROVE  Proven(c)'
<1>1. UNCHANGED <<loop, run, reply>> /\ eng.at = "each" /\ Ticks(d)
  BY DEF TickDecides, Ticks
<1>2. \/ eng' = NextConv(eng.todo \ {d})
      \/ /\ Outcome(d).do = "stop"
         /\ eng' = [Working(d, "resolve") EXCEPT !.status = Outcome(d).status, !.reason = Outcome(d).reason]
      \/ /\ Outcome(d).do # "stop"
         /\ eng' = [Working(d, "drain") EXCEPT !.enter = Outcome(d).enter]
  BY DEF TickDecides
<1>3. /\ Stale(c)' = Stale(c) /\ Checked(c)' = Checked(c) /\ Sure(c)' = Sure(c)
  BY <1>1 DEF Stale, PreArm, Checked, Vouched, Sure
<1>4. Marked(c)' /\ Finished(c)'
  BY <1>1, <1>3 DEF Proven, Marked, Finished
<1>5. CASE eng' = NextConv(eng.todo \ {d})
  <2>1. eng'.at = "each"
    BY <1>5, MoveFields
  <2> QED BY <1>1, <2>1, LeavesProves DEF OnItsWay, Switching
<1>6. CASE d # c /\ eng' # NextConv(eng.todo \ {d})
  <2>1. CASE eng' = [Working(d, "resolve") EXCEPT !.status = Outcome(d).status, !.reason = Outcome(d).reason]
    <3>1. eng'.conv = d
      BY <2>1, WorkFields
    <3> QED BY <1>1, <1>6, <3>1, LeavesProves DEF Switching
  <2>2. CASE eng' = [Working(d, "drain") EXCEPT !.enter = Outcome(d).enter]
    <3>1. eng'.conv = d
      BY <2>2, WorkFields
    <3> QED BY <1>1, <1>6, <3>1, LeavesProves DEF Switching
  <2> QED BY <1>2, <1>6, <2>1, <2>2
<1>7. CASE /\ d = c /\ Outcome(d).do = "stop"
           /\ eng' = [Working(d, "resolve") EXCEPT !.status = Outcome(d).status, !.reason = Outcome(d).reason]
  <2>1. eng'.at = "resolve" /\ eng'.conv = c /\ eng'.status = Outcome(c).status
    BY <1>7, WorkFields
  <2>2. Ending(c)'
    BY <1>1, <1>3, <1>7, <2>1, DecisionIsProven DEF Ending
  <2>3. Sending(c)' /\ Entering(c)'
    BY <2>1 DEF Sending, Entering, Hand, OnItsWay
  <2>4. Verifying(c)'
    BY <1>1, <1>3 DEF Proven, Verifying, Hand, Switching
  <2> QED BY <1>4, <2>2, <2>3, <2>4 DEF Proven
<1>8. CASE /\ d = c /\ Outcome(d).do # "stop"
           /\ eng' = [Working(d, "drain") EXCEPT !.enter = Outcome(d).enter]
  <2>1. eng'.at = "drain" /\ eng'.conv = c /\ eng'.enter = Outcome(c).enter
    BY <1>8, WorkFields
  <2>2. loop[c].active /\ ~run[c].on
    BY <1>1, <1>8 DEF Ticks
  <2>3. loop[c].status # "done"
    BY <2>2 DEF Proven, Finished
  <2>4. /\ Outcome(c).enter = "none" => loop[c].phase = "work"
        /\ Outcome(c).enter = "verify" /\ reply[c].kind = "verified" => Stale(c)
    BY <1>1, <1>8, DecisionIsProven
  <2>5. Sending(c)'
    BY <1>1, <1>3, <2>1, <2>2, <2>3, <2>4 DEF Sending
  <2>6. Entering(c)' /\ Ending(c)'
    BY <2>1 DEF Entering, Ending, Hand
  <2>7. Verifying(c)'
    BY <1>1, <1>3 DEF Proven, Verifying, Hand, Switching
  <2> QED BY <1>4, <2>5, <2>6, <2>7 DEF Proven
<1> QED BY <1>2, <1>5, <1>6, <1>7, <1>8

\* A step of the engine on another conversation.
LEMMA OthersProve ==
  ASSUME NEW c \in Convs, Proven(c), loop'[c] = loop[c], run'[c] = run[c], reply'[c] = reply[c],
         eng.conv # c, eng'.conv # c \/ eng'.at \notin OnItsWay \cup {"phase", "resolve", "end"}
  PROVE  Proven(c)'
<1>1. SameSlot(loop[c], loop'[c]) /\ SameTurn(run[c], run'[c]) /\ SameAnswer(reply[c], reply'[c])
  BY DEF SameSlot, SameTurn, SameAnswer
<1>2. Leaves(c)
  BY DEF Leaves, Elsewhere, Hand
<1> QED BY <1>1, <1>2, Unmoved

LEMMA ResolveProves ==
  ASSUME Types, NEW c \in Convs, Proven(c), ResolveIt
  PROVE  Proven(c)'
<1>1. /\ UNCHANGED <<run, reply>> /\ eng.at = "resolve" /\ eng.conv \in Convs /\ eng \in Engines
      /\ loop' = [loop EXCEPT ![eng.conv] = Resolve(@, eng.status, eng.reason)]
      /\ eng' = [eng EXCEPT !.at = "resolved"] /\ loop \in [Convs -> LoopRecords]
  BY EngConv DEF ResolveIt, AtWork, Types, StoresOK
<1>2. eng'.at = "resolved"
  BY <1>1 DEF Engines
<1>3. CASE eng.conv # c
  <2>1. loop'[c] = loop[c]
    BY <1>1, <1>3
  <2> QED BY <1>1, <1>2, <1>3, <2>1, OthersProve DEF OnItsWay
<1>4. CASE eng.conv = c
  <2>1. /\ loop[c] \in LoopRecords /\ loop'[c] = Resolve(loop[c], eng.status, eng.reason)
    BY <1>1, <1>4
  <2>2. CASE ~Armed(loop[c])
    <3>1. loop'[c] = loop[c]
      BY <2>1, <2>2 DEF Resolve
    <3>2. /\ SameSlot(loop[c], loop'[c]) /\ SameTurn(run[c], run'[c]) /\ SameAnswer(reply[c], reply'[c])
          /\ Leaves(c)
      BY <1>1, <1>2, <3>1 DEF SameSlot, SameTurn, SameAnswer, Leaves, Elsewhere, Hand, OnItsWay, Switching
    <3> QED BY <3>2, Unmoved
  <2>3. CASE Armed(loop[c])
    <3>1. /\ loop'[c].armedAt = loop[c].armedAt /\ loop'[c].status = eng.status
          /\ loop'[c].phase = loop[c].phase
          /\ loop'[c].sent = loop[c].sent /\ loop'[c].late = loop[c].late /\ ~loop'[c].active
      BY <2>1, <2>3 DEF Resolve, LoopRecords
    <3>2. Stale(c)' = Stale(c)
      BY <1>1, <3>1 DEF Stale, PreArm
    <3>3. Checked(c)' = Checked(c) /\ Sure(c)' = Sure(c)
      BY <1>1, <3>2 DEF Checked, Vouched, Sure
    <3>4. Marked(c)'
      BY <1>1, <3>1 DEF Proven, Marked, Armed
    <3>5. Finished(c)'
      BY <1>1, <1>4, <3>1, <3>3 DEF Proven, Ending, Hand, Finished
    <3>6. Sending(c)' /\ Entering(c)' /\ Ending(c)'
      BY <1>2 DEF Sending, Entering, Ending, Hand, OnItsWay
    <3>7. Verifying(c)'
      BY <1>1, <3>1, <3>3 DEF Proven, Verifying, Hand, Switching
    <3> QED BY <3>4, <3>5, <3>6, <3>7 DEF Proven
  <2> QED BY <2>2, <2>3
<1> QED BY <1>3, <1>4

LEMMA DrainProves ==
  ASSUME Types, NEW c \in Convs, Proven(c), DrainQueue
  PROVE  Proven(c)'
<1>1. UNCHANGED <<loop, run, reply>> /\ eng.at = "drain" /\ eng \in Engines
  BY EngConv DEF DrainQueue
<1>2. eng'.at = "claim" /\ eng'.conv = eng.conv /\ eng'.enter = eng.enter
  <2>1. \/ eng' = [eng EXCEPT !.at = "claim", !.taken = rec[eng.conv].queue]
        \/ eng' = [eng EXCEPT !.at = "claim"]
    BY DEF DrainQueue
  <2> QED BY <1>1, <2>1 DEF Engines
<1>3. Stale(c)' = Stale(c) /\ Checked(c)' = Checked(c) /\ Sure(c)' = Sure(c)
  BY <1>1 DEF Stale, PreArm, Checked, Vouched, Sure
<1>4. Marked(c)' /\ Finished(c)' /\ Verifying(c)'
  BY <1>1, <1>3 DEF Proven, Marked, Finished, Verifying, Hand, Switching
<1>5. Sending(c)'
  BY <1>1, <1>2, <1>3 DEF Proven, Sending, Hand, OnItsWay
<1>6. Entering(c)' /\ Ending(c)'
  BY <1>2 DEF Entering, Ending, Hand
<1> QED BY <1>4, <1>5, <1>6 DEF Proven

LEMMA ClaimProves ==
  ASSUME Types, NEW c \in Convs, Proven(c), ClaimSlot
  PROVE  Proven(c)'
<1>1. /\ UNCHANGED <<loop, reply>> /\ eng.at = "claim" /\ eng.conv \in Convs /\ eng \in Engines
      /\ run \in [Convs -> Turns]
  BY EngConv DEF ClaimSlot, AtWork, Types, TurnsOK
<1>2. CASE run[eng.conv].on
  <2>1. run' = run /\ eng'.at = "each"
    BY <1>2, MoveFields DEF ClaimSlot
  <2> QED BY <1>1, <2>1, LeavesProves DEF OnItsWay, Switching
<1>3. CASE ~run[eng.conv].on
  <2>1. /\ run' = [run EXCEPT ![eng.conv] = Begun(eng.conv, "loop", eng.enter = "verify")]
        /\ eng' = [eng EXCEPT !.at = "send"]
    BY <1>3 DEF ClaimSlot
  <2>2. eng'.at = "send" /\ eng'.conv = eng.conv /\ eng'.enter = eng.enter
    BY <1>1, <2>1 DEF Engines
  <2>3. CASE eng.conv # c
    <3>1. run'[c] = run[c]
      BY <1>1, <2>1, <2>3
    <3> QED BY <1>1, <2>2, <2>3, <3>1, OthersProve
  <2>4. CASE eng.conv = c
    <3>1. run'[c] = Begun(c, "loop", eng.enter = "verify")
      BY <1>1, <2>1, <2>4
    <3>2. run'[c].on /\ run'[c].verify = (eng.enter = "verify")
      BY <3>1 DEF Begun, NoRun
    <3>3. Sending(c) /\ Hand(c, OnItsWay)
      BY <1>1, <2>4 DEF Proven, Hand, OnItsWay
    <3>4. Stale(c)' = Stale(c) /\ Vouched(c)' = Vouched(c)
      BY <1>1 DEF Stale, PreArm, Vouched
    <3>5. Marked(c)' /\ Finished(c)'
      BY <1>1, <3>3 DEF Proven, Marked, Finished, Sending
    <3>6. Sending(c)'
      BY <1>1, <2>2, <3>2, <3>3, <3>4 DEF Sending
    <3>7. Entering(c)' /\ Ending(c)'
      BY <2>2 DEF Entering, Ending, Hand
    <3>8. Verifying(c)'
      <4> SUFFICES ASSUME loop[c].phase = "verify", eng.enter # "work" PROVE Checked(c)'
        BY <1>1, <2>2, <2>4 DEF Verifying, Hand, Switching
      <4>1. eng.enter = "verify"
        BY <1>1, <3>3 DEF Sending, Engines, Phases
      <4> QED BY <3>2, <3>3, <3>4, <4>1 DEF Sending, Checked, Vouched
    <3> QED BY <3>5, <3>6, <3>7, <3>8 DEF Proven
  <2> QED BY <2>3, <2>4
<1> QED BY <1>2, <1>3

\* A send makes a reply of an earlier tick an old one; what was stale stays so.
LEMMA SendProves ==
  ASSUME Types, NEW c \in Convs, Proven(c), SendIt
  PROVE  Proven(c)'
<1>1. /\ run' = run /\ eng.at = "send" /\ eng.conv \in Convs /\ eng \in Engines
      /\ loop \in [Convs -> LoopRecords] /\ reply \in [Convs -> Replies]
      /\ loop' = [loop EXCEPT ![eng.conv] = RecordSend(@)]
      /\ reply' = [reply EXCEPT ![eng.conv].newer = reply[eng.conv].fresh, ![eng.conv].answers = FALSE]
  BY EngConv DEF SendIt, AtWork, Types, StoresOK, TurnsOK
<1>2. \/ eng.enter = "none" /\ eng'.at = "each"
      \/ eng.enter # "none" /\ eng'.at = "phase" /\ eng'.conv = eng.conv /\ eng'.enter = eng.enter
  <2>1. CASE eng.enter = "none"
    BY <2>1, MoveFields DEF SendIt
  <2>2. CASE eng.enter # "none"
    BY <1>1, <2>2 DEF SendIt, Engines
  <2> QED BY <2>1, <2>2
<1>3. CASE eng.conv # c
  <2>1. loop'[c] = loop[c] /\ reply'[c] = reply[c]
    BY <1>1, <1>3
  <2>2. eng'.conv # c \/ eng'.at = "each"
    BY <1>2, <1>3
  <2> QED BY <1>1, <1>3, <2>1, <2>2, OthersProve DEF OnItsWay
<1>4. CASE eng.conv = c
  <2>1. /\ loop[c] \in LoopRecords /\ loop'[c] = RecordSend(loop[c]) /\ reply[c] \in Replies
    BY <1>1, <1>4
  <2>2. /\ reply'[c].kind = reply[c].kind /\ reply'[c].armedAt = reply[c].armedAt
        /\ reply'[c].newer = reply[c].fresh /\ reply'[c].fresh = reply[c].fresh
        /\ reply'[c].verdict = reply[c].verdict
    BY <1>1, <1>4 DEF Replies
  <2>3. /\ loop'[c].armedAt = loop[c].armedAt /\ loop'[c].phase = loop[c].phase
        /\ loop'[c].late = loop[c].late
        /\ \/ loop'[c].status = "looping" /\ loop'[c].sent = ~loop[c].late
           \/ loop'[c].status = loop[c].status /\ loop'[c].sent = loop[c].sent
    BY <2>1 DEF RecordSend, LoopRecords
  <2>4. Marked(c) /\ Sending(c) /\ Hand(c, OnItsWay) /\ Verifying(c)
    BY <1>1, <1>4 DEF Proven, Hand, OnItsWay
  <2>5. Stale(c) => Stale(c)'
    <3>1. PreArm(c)' = PreArm(c)
      BY <2>2, <2>3 DEF PreArm
    <3>2. loop[c].sent => loop'[c].sent
      BY <2>3, <2>4 DEF Marked
    <3>3. ~reply[c].newer => ~reply'[c].newer
      BY <2>2, <2>4 DEF Marked
    <3> QED BY <3>1, <3>2, <3>3 DEF Stale
  <2>6. Marked(c)'
    <3>1. loop'[c].sent => ~loop'[c].late
      BY <2>3, <2>4 DEF Marked
    <3>2. reply'[c].fresh => reply'[c].newer
      BY <2>2
    <3>3. loop'[c].phase = "verify" => Armed(loop'[c])
      BY <2>3, <2>4 DEF Marked, Armed
    <3> QED BY <3>1, <3>2, <3>3 DEF Marked
  <2>7. loop'[c].status # "done"
    BY <2>3, <2>4 DEF Sending
  <2>8. eng.enter = "verify" => Checked(c)'
    BY <1>1, <2>2, <2>4, <2>5 DEF Sending, Checked, Vouched
  <2>9. Entering(c)'
    BY <1>2, <2>7, <2>8 DEF Entering, Hand
  <2>10. Verifying(c)'
    <3> SUFFICES ASSUME loop'[c].phase = "verify", ~(Hand(c, Switching) /\ eng.enter = "work")'
                 PROVE  Checked(c)'
      BY DEF Verifying
    <3>1. eng.enter # "none"
      BY <2>3, <2>4 DEF Sending
    <3>2. eng.enter # "work"
      BY <1>2, <1>4, <3>1 DEF Hand, Switching
    <3>3. eng.enter = "verify"
      BY <1>1, <3>1, <3>2 DEF Engines, Phases
    <3> QED BY <2>8, <3>3
  <2>11. Finished(c)' /\ Sending(c)' /\ Ending(c)'
    BY <1>2, <2>7 DEF Finished, Sending, Ending, Hand, OnItsWay
  <2> QED BY <2>6, <2>9, <2>10, <2>11 DEF Proven
<1> QED BY <1>3, <1>4

LEMMA EnterProves ==
  ASSUME Types, NEW c \in Convs, Proven(c), EnterPhase
  PROVE  Proven(c)'
<1>1. /\ UNCHANGED <<run, reply>> /\ eng.at = "phase" /\ eng.conv \in Convs /\ eng \in Engines
      /\ eng.enter \in Phases /\ loop \in [Convs -> LoopRecords]
      /\ loop' = [loop EXCEPT ![eng.conv] = SetPhase(@, eng.enter)] /\ eng' = NextConv(eng.todo)
  BY EngConv DEF EnterPhase, AtWork, Types, StoresOK
<1>2. eng'.at = "each"
  BY <1>1, MoveFields
<1>3. CASE eng.conv # c
  <2>1. loop'[c] = loop[c]
    BY <1>1, <1>3
  <2> QED BY <1>1, <1>2, <1>3, <2>1, OthersProve DEF OnItsWay
<1>4. CASE eng.conv = c
  <2>1. loop[c] \in LoopRecords /\ loop'[c] = SetPhase(loop[c], eng.enter)
    BY <1>1, <1>4
  <2>2. /\ loop'[c].armedAt = loop[c].armedAt /\ loop'[c].status = loop[c].status
        /\ loop'[c].sent = loop[c].sent /\ loop'[c].late = loop[c].late
        /\ \/ Armed(loop[c]) /\ loop'[c].phase = eng.enter
           \/ ~Armed(loop[c]) /\ loop'[c].phase = loop[c].phase
    BY <2>1 DEF SetPhase, LoopRecords
  <2>3. Marked(c) /\ Entering(c) /\ Hand(c, {"phase"})
    BY <1>1, <1>4 DEF Proven, Hand
  <2>4. Checked(c)' = Checked(c)
    <3>1. Stale(c)' = Stale(c)
      BY <1>1, <2>2 DEF Stale, PreArm
    <3> QED BY <1>1, <3>1 DEF Checked, Vouched
  <2>5. Marked(c)'
    <3>1. loop'[c].phase = "verify" => Armed(loop'[c])
      BY <2>2, <2>3 DEF Marked, Armed
    <3> QED BY <1>1, <2>2, <2>3, <3>1 DEF Marked
  <2>6. Verifying(c)'
    BY <1>2, <2>2, <2>3, <2>4 DEF Marked, Entering, Verifying
  <2>7. Finished(c)' /\ Sending(c)' /\ Entering(c)' /\ Ending(c)'
    BY <1>2, <2>2, <2>3 DEF Entering, Finished, Sending, Ending, Hand, OnItsWay
  <2> QED BY <2>5, <2>6, <2>7 DEF Proven
<1> QED BY <1>3, <1>4

LEMMA TickProves ==
  ASSUME Types, NEW c \in Convs, Proven(c), TickBegins
  PROVE  Proven(c)'
<1>1. /\ loop[c] \in LoopRecords /\ reply[c] \in Replies /\ eng \in Engines
      /\ loop'[c] = [loop[c] EXCEPT !.late = FALSE] /\ reply'[c] = [reply[c] EXCEPT !.fresh = FALSE]
      /\ run' = run /\ eng' = [eng EXCEPT !.at = "parent"] /\ eng.at = "idle"
  BY EngConv DEF TickBegins, Types, StoresOK, TurnsOK
<1>2. SameSlot(loop[c], loop'[c])
  BY <1>1 DEF SameSlot, LoopRecords
<1>3. SameAnswer(reply[c], reply'[c])
  BY <1>1 DEF SameAnswer, Replies
<1>4. Leaves(c)
  BY <1>1 DEF Leaves, Elsewhere, Hand, OnItsWay, Switching, Engines
<1> QED BY <1>1, <1>2, <1>3, <1>4, Unmoved DEF SameTurn

\* The engine's steps that touch none of the slots.
LEMMA RestProves ==
  ASSUME Types, NEW c \in Convs, Proven(c),
         \/ ParentHasNothing \/ ParentHasASend \/ ParentSends \/ ReconcileBegins \/ LoopsBegin
         \/ PlanBlocked \/ Hold \/ EndIt
         \/ DeliverBegins \/ ClaimParent \/ MarkDelivered \/ PostSummary
  PROVE  Proven(c)'
<1>1. UNCHANGED <<loop, run, reply>> /\ eng.at \notin Switching
  BY DEF ParentHasNothing, ParentHasASend, ParentSends, ReconcileBegins, LoopsBegin, PlanBlocked, Hold, EndIt,
         DeliverBegins, ClaimParent, MarkDelivered, PostSummary, Switching
<1>2. eng'.at \in {"parentClaim", "reconcile", "each", "hold", "idle", "post", "mark", "turn"}
  <2>1. eng \in Engines
    BY EngConv
  <2>2. ASSUME NEW at, eng' = [eng EXCEPT !.at = at] PROVE eng'.at = at
    BY <2>1, <2>2 DEF Engines
  <2>3. CASE ParentHasNothing \/ ParentHasASend \/ ParentSends
    BY <2>2, <2>3 DEF ParentHasNothing, ParentHasASend, ParentSends
  <2>4. CASE ReconcileBegins \/ LoopsBegin
    BY <2>1, <2>4 DEF ReconcileBegins, LoopsBegin, Engines, Resting
  <2>5. CASE PlanBlocked \/ MarkDelivered
    BY <2>2, <2>5 DEF PlanBlocked, MarkDelivered
  <2>6. CASE Hold \/ EndIt \/ PostSummary
    <3>1. eng' = NextConv(eng.todo) \/ eng' = Resting
      BY <2>6 DEF Hold, EndIt, PostSummary
    <3> QED BY <3>1, MoveFields
  <2>7. CASE ClaimParent
    <3>1. eng' = Resting \/ eng' = [eng EXCEPT !.at = "mark"]
      BY <2>7 DEF ClaimParent
    <3> QED BY <2>2, <3>1, MoveFields
  <2>8. CASE DeliverBegins
    <3>1. eng' = Resting \/ \E d, n : eng' = [Resting EXCEPT !.at = "post", !.conv = d, !.ending = n]
      BY <2>8 DEF DeliverBegins
    <3>2. ASSUME NEW d, NEW n, eng' = [Resting EXCEPT !.at = "post", !.conv = d, !.ending = n]
          PROVE  eng'.at = "post"
      BY <3>2 DEF Resting
    <3>3. CASE eng' = Resting
      BY <3>3, MoveFields
    <3> QED BY <3>1, <3>2, <3>3
  <2> QED BY <2>3, <2>4, <2>5, <2>6, <2>7, <2>8
<1> QED BY <1>1, <1>2, LeavesProves DEF OnItsWay

-----------------------------------------------------------------------------
\* The requests: armings, stops of the slot, a stop of the turn.
LEMMA RequestProves ==
  ASSUME Types, Asked, NoFollowUp, NEW c \in Convs, Proven(c), NEW p \in Callers, RequestStep(p)
  PROVE  Proven(c)'
<1>1. eng' = eng /\ reply' = reply
  BY DEF RequestStep, StoreRunning, Arm, StopTheLoop, StopTheRun, StopEnds, LookWhetherHeld,
         Unblock, QueueIt, Unhold, Resume, FollowUpClaims, ChatClaims
<1>2. loop \in [Convs -> LoopRecords] /\ run \in [Convs -> Turns]
  BY DEF Types, StoresOK, TurnsOK
<1>3. ASSUME SameSlot(loop[c], loop'[c]), SameTurn(run[c], run'[c]) PROVE Proven(c)'
  <2>1. SameAnswer(reply[c], reply'[c])
    BY <1>1 DEF SameAnswer
  <2> QED BY <1>1, <1>3, <2>1, Unmoved
<1>4. SameSlot(loop[c], loop[c]) /\ SameTurn(run[c], run[c])
  BY DEF SameSlot, SameTurn
<1>5. CASE Arm(p) \/ Resume(p) \/ StopTheLoop(p)
  <2>1. run' = run /\ call[p].conv \in Convs
    BY <1>5, CallConv DEF Arm, Resume, StopTheLoop, At
  <2>2. CASE call[p].conv # c
    <3>1. loop'[c] = loop[c]
      BY <1>2, <1>5, <2>2 DEF Arm, Resume, StopTheLoop
    <3> QED BY <1>3, <1>4, <2>1, <3>1
  <2>3. CASE call[p].conv = c
    <3>1. loop'[c] = StartGoal(loop[c]) \/ loop'[c] = StopLoop(loop[c]) \/ loop'[c] = loop[c]
      BY <1>2, <1>5, <2>3 DEF Arm, Resume, StopTheLoop, ResumeGoal
    <3> QED BY <1>1, <1>3, <1>4, <2>1, <3>1, ArmProves, StopProves
  <2> QED BY <2>2, <2>3
<1>6. CASE StopTheRun(p)
  <2>1. loop' = loop /\ run' = [run EXCEPT ![call[p].conv].stop = run[call[p].conv].on]
    BY <1>6 DEF StopTheRun
  <2>2. SameTurn(run[c], run'[c])
    BY <1>2, <2>1 DEF SameTurn, Turns
  <2> QED BY <1>3, <1>4, <2>1, <2>2
<1>7. CASE FollowUpClaims(p)
  BY <1>7 DEF FollowUpClaims, NoFollowUp
<1>8. CASE \/ StoreRunning(p) \/ StopEnds(p) \/ LookWhetherHeld(p) \/ Unblock(p) \/ QueueIt(p) \/ Unhold(p)
           \/ ChatClaims(p)
  <2>1. loop' = loop /\ run' = run
    BY <1>8 DEF StoreRunning, StopEnds, LookWhetherHeld, Unblock, QueueIt, Unhold, ChatClaims
  <2> QED BY <1>3, <1>4, <2>1
<1> QED BY <1>5, <1>6, <1>7, <1>8 DEF RequestStep

\* Nothing else moves a conversation; without kills and follow-ups every step keeps what is known.
LEMMA ProvenStep ==
  ASSUME MaxRestarts = 0, Types, Asked, NoFollowUp, NEW c \in Convs, Proven(c), [Next]_vars
  PROVE  Proven(c)'
<1>1. CASE TurnSteps
  <2>1. ASSUME NEW d \in Convs, NEW kind \in Kinds, Speak(d, kind) PROVE Proven(c)'
    <3>1. CASE d = c
      BY <2>1, <3>1, SpeakProves
    <3>2. CASE d # c
      <4>1. loop' = loop /\ eng' = eng /\ run'[c] = run[c] /\ reply'[c] = reply[c]
        BY <2>1, <3>2 DEF Speak, Types, TurnsOK
      <4> QED BY <4>1, Unmoved DEF SameSlot, SameTurn, SameAnswer
    <3> QED BY <3>1, <3>2
  <2>2. ASSUME NEW d \in Convs, NEW end \in Endings, NEW session \in BOOLEAN, TurnEnds(d, end, session)
        PROVE  Proven(c)'
    <3>1. CASE d = c
      BY <2>2, <3>1, TurnEndProves
    <3>2. CASE d # c
      <4>1. loop' = loop /\ eng' = eng /\ run'[c] = run[c] /\ reply' = reply
        BY <2>2, <3>2 DEF TurnEnds, Types, TurnsOK
      <4> QED BY <4>1, Unmoved DEF SameSlot, SameTurn, SameAnswer
    <3> QED BY <3>1, <3>2
  <2>3. CASE ParentTurnEnds
    BY <2>3, Unmoved DEF ParentTurnEnds, SameSlot, SameTurn, SameAnswer
  <2> QED BY <1>1, <2>1, <2>2, <2>3 DEF TurnSteps, Endings
<1>2. CASE NewRequest \/ UNCHANGED vars
  <2>1. UNCHANGED <<loop, run, reply, eng>>
    BY <1>2 DEF NewRequest, Chat, Start, Continue, Stop, LaneStop, Message, FollowUp, vars
  <2> QED BY <2>1, Unmoved DEF SameSlot, SameTurn, SameAnswer
<1>3. CASE EngineStep
  <2>1. ASSUME NEW d \in Convs, Reconcile(d) \/ TickSkips(d) \/ TickWaits(d) \/ TickDecides(d)
        PROVE  Proven(c)'
    BY <2>1, ReconcileProves, DecideProves
  <2> QED BY <1>3, <2>1, TickProves, ResolveProves, ResolvedProves, DrainProves, ClaimProves, SendProves,
             EnterProves, RestProves DEF EngineStep
<1>4. ~Restart
  BY DEF Restart, Types, PastOK
<1> QED BY <1>1, <1>2, <1>3, <1>4, RequestProves DEF Next

LEMMA NoFollowUpStep ==
  ASSUME ~FollowUps, Types, NoFollowUp, [Next]_vars
  PROVE  NoFollowUp'
<1>1. call \in [Callers -> Request]
  BY DEF Types, ThreadsOK
<1>2. ASSUME NEW p \in Callers, NEW d, d.op # "follow", call' = [call EXCEPT ![p] = d]
      PROVE  NoFollowUp'
  BY <1>1, <1>2 DEF NoFollowUp
<1>3. ASSUME NEW p \in Callers, NEW op, NEW c, NEW at, op # "follow", Begin(p, op, c, at)
      PROVE  NoFollowUp'
  BY <1>2, <1>3 DEF Begin, NoCall
<1>4. CASE NewRequest
  <2>1. ASSUME NEW p \in Callers, NEW c \in Convs, Message(p, c) PROVE NoFollowUp'
    BY <1>2, <2>1 DEF Message
  <2> QED BY <1>3, <1>4, <2>1 DEF NewRequest, Chat, Start, Continue, Stop, LaneStop, FollowUp
<1>5. ASSUME NEW p \in Callers, RequestStep(p) PROVE NoFollowUp'
  <2>1. /\ call[p].op # "follow" /\ call[p] \in Requests
    BY CallConv DEF NoFollowUp
  <2>2. NoCall.op # "follow" /\ \A at : [call[p] EXCEPT !.at = at].op = call[p].op
    BY <2>1 DEF NoCall, Requests
  <2>3. CASE LookWhetherHeld(p)
    <3>1. \A b, at : [call[p] EXCEPT !.held = b, !.at = at].op = call[p].op
      BY <2>1 DEF Requests
    <3>2. PICK b, at : call' = [call EXCEPT ![p] = [call[p] EXCEPT !.held = b, !.at = at]]
      BY <1>1, <2>1, <2>3 DEF LookWhetherHeld, Requests
    <3> QED BY <1>2, <2>1, <3>1, <3>2
  <2>4. CASE ~LookWhetherHeld(p)
    <3>1. \/ call' = [call EXCEPT ![p] = NoCall]
          \/ \E at : call' = [call EXCEPT ![p] = [call[p] EXCEPT !.at = at]]
      BY <1>5, <2>4 DEF RequestStep, StoreRunning, Arm, StopTheLoop, StopTheRun, StopEnds,
                        Unblock, QueueIt, Unhold, Resume, FollowUpClaims, ChatClaims, Return, Goto
    <3> QED BY <1>2, <2>1, <2>2, <3>1
  <2> QED BY <2>3, <2>4
<1>6. CASE Restart
  BY <1>6 DEF Restart, NoCall, NoFollowUp
<1>7. call' = call \/ CallWrites
  BY WhoWrites
<1> QED BY <1>4, <1>5, <1>6, <1>7 DEF CallWrites, NoFollowUp

-----------------------------------------------------------------------------
\* In every reachable state of a process that is not killed.
LEMMA ProvenInvariance ==
  ASSUME MaxRestarts = 0, ~FollowUps
  PROVE  Spec => [](IInv /\ NoFollowUp /\ \A c \in Convs : Proven(c))
<1> DEFINE VInv == NoFollowUp /\ \A c \in Convs : Proven(c)
<1>1. Init => VInv
  <2> SUFFICES ASSUME Init PROVE VInv
    OBVIOUS
  <2>1. \A c \in Convs : loop[c] = NoLoop /\ run[c] = NoRun /\ reply[c] = NoReply
    BY DEF Init
  <2>2. eng.at = "idle" /\ \A p \in Callers : call[p] = NoCall
    BY DEF Init, Resting
  <2>3. NoFollowUp
    BY <2>2 DEF NoFollowUp, NoCall
  <2>4. ASSUME NEW c \in Convs PROVE Proven(c)
    <3>1. ~loop[c].sent /\ ~reply[c].fresh /\ loop[c].phase = "work" /\ loop[c].status = "none"
      BY <2>1 DEF NoLoop, NoReply
    <3> QED BY <2>2, <3>1 DEF Proven, Marked, Finished, Sending, Entering, Verifying, Ending, Hand, OnItsWay
  <2> QED BY <2>3, <2>4
<1>2. IInv /\ VInv /\ [Next]_vars => VInv'
  <2> SUFFICES ASSUME IInv, VInv, [Next]_vars PROVE VInv'
    OBVIOUS
  <2>1. Types /\ Asked
    BY DEF IInv
  <2>2. NoFollowUp'
    BY <2>1, NoFollowUpStep
  <2>3. \A c \in Convs : Proven(c)'
    BY <2>1, ProvenStep
  <2> QED BY <2>2, <2>3
<1> HIDE DEF VInv
<1>3. Spec => []VInv
  BY <1>1, <1>2, Invariance, PTL DEF Spec
<1> QED BY <1>3, Invariance, PTL DEF VInv

\* While the process lives and nobody writes to a conversation that is over, a conversation ends
\* as done only on a reply to the verification prompt that says GOAL_VERIFIED, whatever stops,
\* armings and messages come between the reply, the decision and the record
\* (GoalLoop.DecideCore, AutopilotService.TickRepo, RepoSubagentService.End).
THEOREM DoneIsAlwaysVerified ==
  ASSUME MaxRestarts = 0, ~FollowUps PROVE Spec => DoneIsVerified
<1> DEFINE VInv == IInv /\ NoFollowUp /\ \A c \in Convs : Proven(c)
           A    == \A c \in Convs : rec[c].state # "done" /\ rec'[c].state = "done"
                                      => reply[c].kind = "verified" /\ reply[c].verdict
<1>1. VInv /\ [Next]_vars => [A]_vars
  <2> SUFFICES ASSUME VInv, [Next]_vars, NEW c \in Convs, rec[c].state # "done", rec'[c].state = "done"
               PROVE  Sure(c)
    BY DEF Sure
  <2>1. Types /\ rec \in [Convs -> StoreRecords] /\ rec[c] \in StoreRecords
    BY DEF IInv, Types, StoresOK
  <2>2. hist'.endings = hist.endings + 1 /\ hist \in Past /\ hist.endings \in Nat
    <3>1. Types /\ Counting /\ hist \in Past /\ hist.endings \in Nat
      BY DEF IInv, Types, PastOK, Past
    <3> HIDE DEF VInv
    <3> QED BY <3>1, EndingStep DEF SameEnding, NoEnding, HasEnded, EndStates
  <2>3. EndIt \/ \E p \in Callers : StopEnds(p)
    <3>1. \A p \in Callers : QueueIt(p) => hist'.endings = hist.endings
      BY <2>2 DEF QueueIt, Past
    <3>2. SendIt \/ PostSummary => hist'.endings = hist.endings
      BY <2>2 DEF SendIt, PostSummary, Past
    <3>3. hist' = hist \/ HistWrites
      BY WhoWrites, <2>1
    <3> QED BY <2>2, <3>1, <3>2, <3>3 DEF HistWrites
  <2>4. ASSUME NEW d, NEW state, EndRecord(d, state) PROVE d = c /\ state = "done"
    <3>1. rec' = [rec EXCEPT ![d] = Ended(rec[d], state, hist.endings + 1)]
      BY <2>4 DEF EndRecord
    <3>2. d = c
      BY <2>1, <3>1
    <3>3. rec'[c] = Ended(rec[c], state, hist.endings + 1)
      BY <2>1, <3>1, <3>2
    <3>4. Ended(rec[c], state, hist.endings + 1).state \in {rec[c].state, state}
      BY <2>1 DEF Ended, StoreRecords, Records
    <3> QED BY <3>2, <3>3, <3>4
  <2>5. ASSUME NEW p \in Callers, StopEnds(p) PROVE FALSE
    <3>1. EndRecord(call[p].conv, "stopped")
      BY <2>5 DEF StopEnds
    <3> QED BY <2>4, <3>1
  <2>6. CASE EndIt
    <3>1. EndRecord(eng.conv, eng.status) /\ eng.at = "end"
      BY <2>6 DEF EndIt
    <3>2. eng.conv = c /\ eng.status = "done"
      BY <2>4, <3>1
    <3> QED BY <3>1, <3>2 DEF Proven, Ending, Hand
  <2> QED BY <2>3, <2>5, <2>6
<1> QED BY <1>1, ProvenInvariance, PTL DEF Spec, DoneIsVerified
================================================================================
