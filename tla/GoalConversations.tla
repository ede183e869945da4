-------------------------- MODULE GoalConversations --------------------------
(***************************************************************************)
(* Goal conversations in one checkout (RepoSubagentService): a record and  *)
(* a goal loop per conversation, driven by the autopilot's tick            *)
(* (AutopilotService), started, stopped, continued and written to by       *)
(* request threads, and answering to a parent agent that works in the same *)
(* checkout.                                                               *)
(*                                                                         *)
(* Each store locks itself, none locks another, so the steps of one        *)
(* handler are the reads and writes it makes between two lock releases:    *)
(* a request thread ("call") and the engine ("eng") keep what they read    *)
(* in their own state and act on it later.  Only the engine's tick is      *)
(* single-threaded.                                                        *)
(***************************************************************************)
EXTENDS LoopSlot, GoalRecord, FiniteSets, SequencesExt

CONSTANTS
  Convs,             \* goal conversations of this checkout
  Writers,           \* those that are neither read-only nor concurrent
  Callers,           \* request threads
  Nobody,            \* no conversation
  Cap,               \* the loop's cap of turns
  MaxRunning,        \* RepoSubagentService.MaxRunningPerRepo
  MaxNoReplyRetries, \* AutopilotService.MaxNoReplyRetries
  MaxCalls,          \* bound: requests made
  MaxOwnSends,       \* bound: turns the parent's own loop sends
  MaxRestarts,       \* bound: times the Harness is killed
  FollowUps          \* whether ended conversations are written to

ASSUME GoalAssumption ==
  /\ Writers \subseteq Convs /\ Nobody \notin Convs
  /\ {Cap, MaxRunning} \subseteq Nat \ {0}
  /\ {MaxNoReplyRetries, MaxCalls, MaxOwnSends, MaxRestarts} \subseteq Nat
  /\ FollowUps \in BOOLEAN
  /\ IsFiniteSet(Messages) /\ MaxCalls <= Cardinality(Messages)  \* each request brings at most one message

VARIABLES
  rec,    \* rec[c]: the store's record
  loop,   \* loop[c]: the loop slot under the conversation's key
  run,    \* run[c]: the run slot under that key, and its last run
  reply,  \* reply[c]: the last assistant message of the conversation
  parent, \* who holds the parent's builder slot
  missed, \* the engine's no-reply guards
  eng,    \* where the engine's tick is, and what it read
  call,   \* where each request is, and what it read
  hist,   \* what happened: messages, endings, summaries posted
  used    \* how much of each bound is spent

vars == <<rec, loop, run, reply, parent, missed, eng, call, hist, used>>

\* What a reply says, as far as the goal kind looks: its final line claims LOOP_DONE
\* or GOAL_VERIFIED, or it asks NEEDS_HUMAN.
Kinds == {"working", "claims", "verified", "asks"}

NoRun   == [on |-> FALSE, by |-> "nobody", verify |-> FALSE, stop |-> FALSE, said |-> FALSE, end |-> "none"]
NoReply == [kind |-> "none", armedAt |-> 0, newer |-> FALSE, fresh |-> FALSE, answers |-> FALSE, verdict |-> FALSE]
Resting == [at |-> "idle", lap |-> "none", todo |-> {}, conv |-> Nobody, held |-> {}, awaits |-> {},
            status |-> "none", reason |-> "none", enter |-> "none", taken |-> <<>>, ending |-> 0]
NoCall  == [op |-> "none", conv |-> Nobody, at |-> "done", held |-> FALSE, awaits |-> FALSE]

Init ==
  /\ rec = [c \in Convs |-> NoRecord] /\ loop = [c \in Convs |-> NoLoop]
  /\ run = [c \in Convs |-> NoRun] /\ reply = [c \in Convs |-> NoReply]
  /\ parent = "nobody"
  /\ missed = [c \in Convs |-> [armedAt |-> 0, n |-> 0]]
  /\ eng = Resting
  /\ call = [p \in Callers |-> NoCall]
  /\ hist = [accepted |-> {}, dropped |-> {}, carried |-> {}, endings |-> 0, posts |-> <<>>]
  /\ used = [calls |-> 0, own |-> 0, restarts |-> 0]

-----------------------------------------------------------------------------
(* Who is writing in the checkout.                                         *)

WriterRunning    == \E c \in Writers : run[c].on

\* Variant: only the parent blocks a writer, a sibling does not.
WriterBlocked_ParentOnly(c) == c \in Writers /\ parent # "nobody"

WriterBlocked(c) == c \in Writers /\ (parent # "nobody" \/ \E d \in Writers \ {c} : run[d].on)

Begun(c, by, verify) == [NoRun EXCEPT !.on = TRUE, !.by = by, !.verify = verify]

\* RepoSubagentService.End: the ending of a record that is already over is a no-op.
EndRecord(c, state) ==
  /\ rec' = [rec EXCEPT ![c] = Ended(@, state, hist.endings + 1)]
  /\ hist' = [hist EXCEPT !.endings = IF IsRunning(rec[c]) THEN @ + 1 ELSE @]

-----------------------------------------------------------------------------
(* Turns.  The task of a turn is started after RecordSend, so a claimed    *)
(* slot does not run while the engine is at "send".                        *)

Speak(c, kind) ==
  /\ run[c].on /\ ~run[c].said /\ ~(eng.at = "send" /\ eng.conv = c)
  /\ run' = [run EXCEPT ![c].said = TRUE]
  /\ reply' = [reply EXCEPT ![c] =
       [kind |-> kind, armedAt |-> loop[c].armedAt, newer |-> TRUE, fresh |-> TRUE,
        answers |-> run[c].by = "loop", verdict |-> run[c].verify]]
  /\ UNCHANGED <<rec, loop, parent, missed, eng, call, hist, used>>

TurnEnds(c, end, session) ==
  /\ run[c].on /\ ~(eng.at = "send" /\ eng.conv = c)
  /\ (end = "stopped" => run[c].stop) /\ (end = "error" => ~run[c].stop)
  /\ (run[c].said \/ rec[c].session) => session
  /\ run' = [run EXCEPT ![c] = [NoRun EXCEPT !.end = end]]
  /\ rec' = [rec EXCEPT ![c].session = session]
  /\ UNCHANGED <<loop, reply, parent, missed, eng, call, hist, used>>

\* Variant: the summary's turn never gives the parent's slot back.
ParentTurnEnds_SummaryKeepsSlot ==
  /\ parent \notin {"nobody", "summary"} /\ eng.at \notin {"mark", "turn"}
  /\ parent' = "nobody"
  /\ UNCHANGED <<rec, loop, run, reply, missed, eng, call, hist, used>>

ParentTurnEnds ==
  /\ parent # "nobody" /\ eng.at \notin {"mark", "turn"}
  /\ parent' = "nobody"
  /\ UNCHANGED <<rec, loop, run, reply, missed, eng, call, hist, used>>

-----------------------------------------------------------------------------
(* Request threads.                                                        *)

Begin(p, op, c, at) ==
  /\ call[p] = NoCall /\ used.calls < MaxCalls
  /\ call' = [call EXCEPT ![p] = [NoCall EXCEPT !.op = op, !.conv = c, !.at = at]]
  /\ used' = [used EXCEPT !.calls = @ + 1]

At(p, at) == call[p].at = at
Goto(p, at) == call' = [call EXCEPT ![p].at = at]
Return(p) == call' = [call EXCEPT ![p] = NoCall]

RunningCount == Cardinality({c \in Convs : IsRunning(rec[c])})

Start(p, c) ==
  /\ rec[c].state = "none" /\ RunningCount < MaxRunning
  /\ \A q \in Callers : call[q].conv # c
  /\ Begin(p, "start", c, "store")
  /\ UNCHANGED <<rec, loop, run, reply, parent, missed, eng, hist>>

Continue(p, c) ==
  /\ HasEnded(rec[c]) /\ RunningCount < MaxRunning
  /\ Begin(p, "continue", c, "store")
  /\ UNCHANGED <<rec, loop, run, reply, parent, missed, eng, hist>>

\* store.Start, and store.Reopen, which returns null for a record that runs again
\* by now: the handler fails on it.
StoreRunning(p) ==
  /\ At(p, "store")
  /\ LET c == call[p].conv IN
       IF IsRunning(rec[c])
         THEN Return(p) /\ UNCHANGED rec
         ELSE /\ rec' = [rec EXCEPT ![c] = IF call[p].op = "start" THEN StartRecord ELSE Reopened(@)]
              /\ Goto(p, "arm")
  /\ UNCHANGED <<loop, run, reply, parent, missed, eng, hist, used>>

Arm(p) ==
  /\ At(p, "arm")
  /\ loop' = [loop EXCEPT ![call[p].conv] = StartGoal(@)]
  /\ Return(p)
  /\ UNCHANGED <<rec, run, reply, parent, missed, eng, hist, used>>

Stop(p, c) ==
  /\ IsRunning(rec[c])
  /\ Begin(p, "stop", c, "loop")
  /\ UNCHANGED <<rec, loop, run, reply, parent, missed, eng, hist>>

StopTheLoop(p) ==
  /\ At(p, "loop")
  /\ loop' = [loop EXCEPT ![call[p].conv] = StopLoop(@)]
  /\ IF call[p].op = "stop" THEN Goto(p, "run") ELSE Return(p)
  /\ UNCHANGED <<rec, run, reply, parent, missed, eng, hist, used>>

StopTheRun(p) ==
  /\ At(p, "run")
  /\ run' = [run EXCEPT ![call[p].conv].stop = run[call[p].conv].on]
  /\ Goto(p, "end")
  /\ UNCHANGED <<rec, loop, reply, parent, missed, eng, hist, used>>

StopEnds(p) ==
  /\ At(p, "end")
  /\ EndRecord(call[p].conv, "stopped")
  /\ Return(p)
  /\ UNCHANGED <<loop, run, reply, parent, missed, eng, used>>

\* A stop from the Loops lane: the slot only, the engine reconciles the rest.
LaneStop(p, c) ==
  /\ Armed(loop[c])
  /\ Begin(p, "lane", c, "loop")
  /\ UNCHANGED <<rec, loop, run, reply, parent, missed, eng, hist>>

Message(p, c) ==
  /\ IsRunning(rec[c])
  /\ call[p] = NoCall /\ used.calls < MaxCalls
  /\ call' = [call EXCEPT ![p] = [op |-> "message", conv |-> c, at |-> "look",
                                  held |-> rec[c].held, awaits |-> rec[c].awaits]]
  /\ used' = [used EXCEPT !.calls = @ + 1]
  /\ UNCHANGED <<rec, loop, run, reply, parent, missed, eng, hist>>

LookWhetherHeld(p) ==
  /\ At(p, "look")
  /\ LET e == loop[call[p].conv] IN
       call' = [call EXCEPT ![p].held = @ \/ (~e.active /\ e.status = "escalate"),
                            ![p].at = IF call[p].awaits THEN "unblock" ELSE "queue"]
  /\ UNCHANGED <<rec, loop, run, reply, parent, missed, eng, hist, used>>

Unblock(p) ==
  /\ At(p, "unblock")
  /\ rec' = [rec EXCEPT ![call[p].conv] = WithPlan(@, FALSE)]
  /\ Goto(p, "queue")
  /\ UNCHANGED <<loop, run, reply, parent, missed, eng, hist, used>>

QueueIt(p) ==
  /\ At(p, "queue")
  /\ LET c == call[p].conv
         m == CHOOSE m \in Messages \ hist.accepted : TRUE
     IN /\ rec' = [rec EXCEPT ![c] = Queued(@, m)]
        /\ hist' = IF ~IsRunning(rec[c]) THEN hist
                   ELSE [hist EXCEPT !.accepted = @ \cup {m},
                                     !.dropped = @ \cup ((ToSet(rec[c].queue) \cup {m}) \ ToSet(rec'[c].queue))]
  /\ IF call[p].held THEN Goto(p, "unhold") ELSE Return(p)
  /\ UNCHANGED <<loop, run, reply, parent, missed, eng, used>>

Unhold(p) ==
  /\ At(p, "unhold")
  /\ rec' = [rec EXCEPT ![call[p].conv] = WithHeld(@, FALSE)]
  /\ Goto(p, "resume")
  /\ UNCHANGED <<loop, run, reply, parent, missed, eng, hist, used>>

Resume(p) ==
  /\ At(p, "resume")
  /\ loop' = [loop EXCEPT ![call[p].conv] = ResumeGoal(@)]
  /\ Return(p)
  /\ UNCHANGED <<rec, run, reply, parent, missed, eng, hist, used>>

\* A message to a conversation that is over is a turn of its own in its session.
FollowUp(p, c) ==
  /\ FollowUps /\ HasEnded(rec[c]) /\ rec[c].session /\ ~WriterBlocked(c)
  /\ Begin(p, "follow", c, "claim")
  /\ UNCHANGED <<rec, loop, run, reply, parent, missed, eng, hist>>

FollowUpClaims(p) ==
  /\ At(p, "claim") /\ call[p].op = "follow"
  /\ run' = [run EXCEPT ![call[p].conv] = IF @.on THEN @ ELSE Begun(call[p].conv, "follow", FALSE)]
  /\ Return(p)
  /\ UNCHANGED <<rec, loop, reply, parent, missed, eng, hist, used>>

\* The Operator's chat with the parent (ChatController.Chat, builder lane).
Chat(p) ==
  /\ ~WriterRunning
  /\ Begin(p, "chat", Nobody, "claim")
  /\ UNCHANGED <<rec, loop, run, reply, parent, missed, eng, hist>>

ChatClaims(p) ==
  /\ At(p, "claim") /\ call[p].op = "chat"
  /\ parent' = IF parent = "nobody" THEN "chat" ELSE parent
  /\ Return(p)
  /\ UNCHANGED <<rec, loop, run, reply, missed, eng, hist, used>>

-----------------------------------------------------------------------------
(* The engine's tick: the parent's own loop, Reconcile, the loops of the   *)
(* conversations, DeliverSummaries.                                        *)

TickBegins ==
  /\ eng.at = "idle"
  /\ eng' = [eng EXCEPT !.at = "parent"]
  /\ loop' = [c \in Convs |-> [loop[c] EXCEPT !.late = FALSE]]
  /\ reply' = [c \in Convs |-> [reply[c] EXCEPT !.fresh = FALSE]]
  /\ UNCHANGED <<rec, run, parent, missed, call, hist, used>>

ParentHasNothing ==
  /\ eng.at = "parent"
  /\ eng' = [eng EXCEPT !.at = "reconcile"]
  /\ UNCHANGED <<rec, loop, run, reply, parent, missed, call, hist, used>>

ParentHasASend ==
  /\ eng.at = "parent" /\ parent = "nobody" /\ ~WriterRunning /\ used.own < MaxOwnSends
  /\ eng' = [eng EXCEPT !.at = "parentClaim"]
  /\ used' = [used EXCEPT !.own = @ + 1]
  /\ UNCHANGED <<rec, loop, run, reply, parent, missed, call, hist>>

ParentSends ==
  /\ eng.at = "parentClaim"
  /\ parent' = IF parent = "nobody" THEN "loop" ELSE parent
  /\ eng' = [eng EXCEPT !.at = "reconcile"]
  /\ UNCHANGED <<rec, loop, run, reply, missed, call, hist, used>>

\* Both passes walk a list taken when they start.
ReconcileBegins ==
  /\ eng.at = "reconcile"
  /\ eng' = [eng EXCEPT !.at = "each", !.lap = "reconcile",
                        !.todo = {c \in Convs : IsRunning(rec[c])},
                        !.held = {c \in Convs : rec[c].held}, !.awaits = {c \in Convs : rec[c].awaits}]
  /\ UNCHANGED <<rec, loop, run, reply, parent, missed, call, hist, used>>

LoopsBegin ==
  /\ eng.at = "each" /\ eng.lap = "reconcile" /\ eng.todo = {}
  /\ eng' = [Resting EXCEPT !.at = "each", !.lap = "loops", !.todo = {c \in Convs : loop[c].active}]
  /\ UNCHANGED <<rec, loop, run, reply, parent, missed, call, hist, used>>

NextConv(todo) == [Resting EXCEPT !.at = "each", !.lap = eng.lap, !.todo = todo,
                                  !.held = eng.held, !.awaits = eng.awaits]
Working(c, at) == [NextConv(eng.todo \ {c}) EXCEPT !.at = at, !.conv = c]

\* Variant: a stop from the Loops lane is left for somebody else.
Reconcile_NotStopped(c) ==
  /\ eng.at = "each" /\ eng.lap = "reconcile" /\ c \in eng.todo
  /\ LET e == loop[c] IN
       eng' = IF e.active \/ e.status = "stopped" THEN NextConv(eng.todo \ {c})
              ELSE IF e.status = "escalate" THEN Working(c, "plan")
              ELSE [Working(c, "end") EXCEPT !.status = StateFor(e.status)]
  /\ UNCHANGED <<rec, loop, run, reply, parent, missed, call, hist, used>>

\* What it knows of the record is the list's, the loop is read now.
Reconcile(c) ==
  /\ eng.at = "each" /\ eng.lap = "reconcile" /\ c \in eng.todo
  /\ LET e == loop[c] IN
       eng' = IF e.active THEN NextConv(eng.todo \ {c})
              ELSE IF e.status = "escalate" THEN Working(c, "plan")
              ELSE [Working(c, "end") EXCEPT !.status = StateFor(e.status)]
  /\ UNCHANGED <<rec, loop, run, reply, parent, missed, call, hist, used>>

\* The writes of Reconcile and of OnResolved.
PlanBlocked ==
  /\ eng.at = "plan"
  /\ rec' = [rec EXCEPT ![eng.conv] = IF eng.conv \in eng.awaits THEN @ ELSE WithPlan(@, TRUE)]
  /\ eng' = [eng EXCEPT !.at = "hold"]
  /\ UNCHANGED <<loop, run, reply, parent, missed, call, hist, used>>

Hold ==
  /\ eng.at = "hold"
  /\ rec' = [rec EXCEPT ![eng.conv] = IF eng.conv \in eng.held THEN @ ELSE WithHeld(@, TRUE)]
  /\ eng' = NextConv(eng.todo)
  /\ UNCHANGED <<loop, run, reply, parent, missed, call, hist, used>>

EndIt ==
  /\ eng.at = "end"
  /\ EndRecord(eng.conv, eng.status)
  /\ eng' = NextConv(eng.todo)
  /\ UNCHANGED <<loop, run, reply, parent, missed, call, used>>

-----------------------------------------------------------------------------
(* TickRepo for one conversation.                                          *)

\* A reply counts only if it is newer than the last send of this arming.
Missing(c) == loop[c].sent /\ ~(reply[c].kind # "none" /\ reply[c].newer)

\* A reply older than the arming is the previous conversation.
PreArm(c) == reply[c].kind # "none" /\ reply[c].armedAt < loop[c].armedAt

Judged(c) == IF PreArm(c) \/ Missing(c) THEN "none" ELSE reply[c].kind

ToStop(status, reason) == [do |-> "stop", status |-> status, reason |-> reason, enter |-> "none"]
ToSend(enter)          == [do |-> "send", status |-> "none", reason |-> "none", enter |-> enter]

\* Variant: GOAL_VERIFIED counts in the work phase too.
Decide_AnyPhase(c) ==
  LET said == Judged(c) IN
    IF ~PreArm(c) /\ run[c].end = "stopped" THEN ToStop("stopped", "by-operator")
    ELSE IF ~PreArm(c) /\ run[c].end = "error" THEN ToStop("error", "error")
    ELSE IF said = "asks" THEN ToStop("escalate", "needs-human")
    ELSE IF said = "verified" THEN ToStop("done", "verified")
    ELSE IF loop[c].phase = "verify" THEN ToSend(IF said = "none" THEN "verify" ELSE "work")
    ELSE ToSend(IF said = "claims" THEN "verify" ELSE "none")

\* Variant: the question is not looked for.
Decide_Deaf(c) ==
  LET said == Judged(c) IN
    IF ~PreArm(c) /\ run[c].end = "stopped" THEN ToStop("stopped", "by-operator")
    ELSE IF ~PreArm(c) /\ run[c].end = "error" THEN ToStop("error", "error")
    ELSE IF loop[c].phase = "verify" THEN
      IF said = "verified" THEN ToStop("done", "verified")
      ELSE ToSend(IF said = "none" THEN "verify" ELSE "work")
    ELSE ToSend(IF said = "claims" THEN "verify" ELSE "none")

\* DrivenLoop.Decide and GoalLoop.DecideCore.
Decide(c) ==
  LET said == Judged(c) IN
    IF ~PreArm(c) /\ run[c].end = "stopped" THEN ToStop("stopped", "by-operator")
    ELSE IF ~PreArm(c) /\ run[c].end = "error" THEN ToStop("error", "error")
    ELSE IF said = "asks" THEN ToStop("escalate", "needs-human")
    ELSE IF loop[c].phase = "verify" THEN
      IF said = "verified" THEN ToStop("done", "verified")
      ELSE ToSend(IF said = "none" THEN "verify" ELSE "work")
    ELSE ToSend(IF said = "claims" THEN "verify" ELSE "none")

\* The guards are cleared when the arming they were set under is not this one.
Misses(c) == IF missed[c].armedAt = loop[c].armedAt THEN missed[c].n ELSE 0

Retrying(c) == Missing(c) /\ run[c].end # "stopped"

\* Every other tick without a reply is a grace tick.
GraceTick(c) == Misses(c) % 2 = 0
GivesUp(c)   == (Misses(c) + 1) \div 2 > MaxNoReplyRetries

\* Variant: one turn more than the cap.
Outcome_OneMore(c) ==
  IF Retrying(c) /\ GivesUp(c) THEN ToStop("error", "no-reply")
  ELSE LET d == Decide(c) IN
    IF d.do = "send" /\ loop[c].iterations > Cap THEN ToStop("capped", "cap") ELSE d

Outcome(c) ==
  IF Retrying(c) /\ GivesUp(c) THEN ToStop("error", "no-reply")
  ELSE LET d == Decide(c) IN
    IF d.do = "send" /\ loop[c].iterations >= Cap THEN ToStop("capped", "cap") ELSE d

SetMisses(c, n) == missed' = [missed EXCEPT ![c] = [armedAt |-> loop[c].armedAt, n |-> n]]

Pass(c) == eng' = NextConv(eng.todo \ {c})

\* Not active any more, or busy: wait for another tick.
TickSkips(c) ==
  /\ eng.at = "each" /\ eng.lap = "loops" /\ c \in eng.todo
  /\ ~loop[c].active \/ run[c].on
  /\ Pass(c)
  /\ UNCHANGED <<rec, loop, run, reply, parent, missed, call, hist, used>>

Ticks(c) == eng.at = "each" /\ eng.lap = "loops" /\ c \in eng.todo /\ loop[c].active /\ ~run[c].on

\* No reply to the last send, and either no run in this process, or the grace tick.
TickWaits(c) ==
  /\ Ticks(c) /\ Retrying(c)
  /\ run[c].end = "none" \/ GraceTick(c)
  /\ SetMisses(c, IF run[c].end = "none" THEN Misses(c) ELSE Misses(c) + 1)
  /\ Pass(c)
  /\ UNCHANGED <<rec, loop, run, reply, parent, call, hist, used>>

TickDecides(c) ==
  /\ Ticks(c)
  /\ Retrying(c) => run[c].end # "none" /\ ~GraceTick(c)
  /\ SetMisses(c, IF Retrying(c) THEN Misses(c) + 1 ELSE 0)
  /\ LET d == Outcome(c) IN
       eng' = IF d.do = "stop"
                THEN [Working(c, "resolve") EXCEPT !.status = d.status, !.reason = d.reason]
              ELSE IF WriterBlocked(c) THEN NextConv(eng.todo \ {c})
              ELSE [Working(c, "drain") EXCEPT !.enter = d.enter]
  /\ UNCHANGED <<rec, loop, run, reply, parent, call, hist, used>>

ResolveIt ==
  /\ eng.at = "resolve"
  /\ loop' = [loop EXCEPT ![eng.conv] = Resolve(@, eng.status, eng.reason)]
  /\ eng' = [eng EXCEPT !.at = "resolved"]
  /\ UNCHANGED <<rec, run, reply, parent, missed, call, hist, used>>

\* AfterArchDrivenResolved reads the loop again before OnResolved looks at it.
Resolved ==
  /\ eng.at = "resolved"
  /\ LET c == eng.conv
         e == loop[c]
     IN eng' = IF ~IsRunning(rec[c]) THEN NextConv(eng.todo)
               ELSE IF e.status = "escalate" /\ e.reason = "needs-human"
                 THEN Working(c, "plan")
               ELSE [Working(c, "end") EXCEPT !.status = StateFor(e.status)]
  /\ UNCHANGED <<rec, loop, run, reply, parent, missed, call, hist, used>>

\* DecoratePrompt takes the queued messages.
DrainQueue ==
  /\ eng.at = "drain"
  /\ LET r == rec[eng.conv] IN
       IF IsRunning(r)
         THEN rec' = [rec EXCEPT ![eng.conv] = Drained(r)]
              /\ eng' = [eng EXCEPT !.at = "claim", !.taken = r.queue]
         ELSE eng' = [eng EXCEPT !.at = "claim"] /\ UNCHANGED rec
  /\ UNCHANGED <<loop, run, reply, parent, missed, call, hist, used>>

ClaimSlot ==
  /\ eng.at = "claim"
  /\ IF run[eng.conv].on
       THEN eng' = NextConv(eng.todo) /\ UNCHANGED run
       ELSE /\ run' = [run EXCEPT ![eng.conv] = Begun(eng.conv, "loop", eng.enter = "verify")]
            /\ eng' = [eng EXCEPT !.at = "send"]
  /\ UNCHANGED <<rec, loop, reply, parent, missed, call, hist, used>>

\* LastSentAt is the time the tick began: a reply written since still looks newer.
SendIt ==
  /\ eng.at = "send"
  /\ LET c == eng.conv IN
       /\ loop' = [loop EXCEPT ![c] = RecordSend(@)]
       /\ reply' = [reply EXCEPT ![c].newer = reply[c].fresh, ![c].answers = FALSE]
       /\ eng' = IF eng.enter = "none" THEN NextConv(eng.todo) ELSE [eng EXCEPT !.at = "phase", !.taken = <<>>]
  /\ hist' = [hist EXCEPT !.carried = @ \cup ToSet(eng.taken)]
  /\ UNCHANGED <<rec, run, parent, missed, call, used>>

EnterPhase ==
  /\ eng.at = "phase"
  /\ loop' = [loop EXCEPT ![eng.conv] = SetPhase(@, eng.enter)]
  /\ eng' = NextConv(eng.todo)
  /\ UNCHANGED <<rec, run, reply, parent, missed, call, hist, used>>

-----------------------------------------------------------------------------
(* DeliverSummaries, one per tick, the oldest ending first.                *)

Waiting == {c \in Convs : Undelivered(rec[c])}

DeliverBegins ==
  /\ eng.at = "each" /\ eng.lap = "loops" /\ eng.todo = {}
  /\ IF Waiting = {} \/ parent # "nobody" \/ WriterRunning
       THEN eng' = Resting
       ELSE \E c \in Waiting :
              /\ \A d \in Waiting : rec[c].endedAt <= rec[d].endedAt
              /\ eng' = [Resting EXCEPT !.at = "post", !.conv = c, !.ending = rec[c].endedAt]
  /\ UNCHANGED <<rec, loop, run, reply, parent, missed, call, hist, used>>

ClaimParent ==
  /\ eng.at = "post"
  /\ IF parent = "nobody"
       THEN parent' = "summary" /\ eng' = [eng EXCEPT !.at = "mark"]
       ELSE eng' = Resting /\ UNCHANGED parent
  /\ UNCHANGED <<rec, loop, run, reply, missed, call, hist, used>>

MarkDelivered ==
  /\ eng.at = "mark"
  /\ rec' = [rec EXCEPT ![eng.conv] = MarkedDelivered(@)]
  /\ eng' = [eng EXCEPT !.at = "turn"]
  /\ UNCHANGED <<loop, run, reply, parent, missed, call, hist, used>>

\* RunParentTurn: the summary reaches the parent as a turn of its own.
PostSummary ==
  /\ eng.at = "turn"
  /\ hist' = [hist EXCEPT !.posts = Append(@, <<eng.conv, eng.ending>>)]
  /\ eng' = Resting
  /\ UNCHANGED <<rec, loop, run, reply, parent, missed, call, used>>

-----------------------------------------------------------------------------
\* The Harness is killed and started again: the stores come back, the run slots,
\* the tick and the requests do not.
Restart ==
  /\ used.restarts < MaxRestarts
  /\ used' = [used EXCEPT !.restarts = @ + 1]
  /\ run' = [c \in Convs |-> NoRun] /\ parent' = "nobody"
  /\ missed' = [c \in Convs |-> [armedAt |-> 0, n |-> 0]]
  /\ eng' = Resting /\ call' = [p \in Callers |-> NoCall]
  /\ UNCHANGED <<rec, loop, reply, hist>>

TurnSteps ==
  \/ \E c \in Convs :
       \/ \E kind \in Kinds : Speak(c, kind)
       \/ \E end \in {"done", "stopped", "error"}, session \in BOOLEAN : TurnEnds(c, end, session)
  \/ ParentTurnEnds

NewRequest ==
  \E p \in Callers :
    \/ Chat(p)
    \/ \E c \in Convs :
         \/ Start(p, c) \/ Continue(p, c) \/ Stop(p, c) \/ LaneStop(p, c)
         \/ Message(p, c) \/ FollowUp(p, c)

RequestStep(p) ==
  \/ StoreRunning(p) \/ Arm(p) \/ StopTheLoop(p) \/ StopTheRun(p) \/ StopEnds(p)
  \/ LookWhetherHeld(p) \/ Unblock(p) \/ QueueIt(p) \/ Unhold(p) \/ Resume(p)
  \/ FollowUpClaims(p) \/ ChatClaims(p)

EngineStep ==
  \/ TickBegins \/ ParentHasNothing \/ ParentHasASend \/ ParentSends
  \/ ReconcileBegins \/ LoopsBegin
  \/ \E c \in Convs : Reconcile(c) \/ TickSkips(c) \/ TickWaits(c) \/ TickDecides(c)
  \/ PlanBlocked \/ Hold \/ EndIt \/ ResolveIt \/ Resolved
  \/ DrainQueue \/ ClaimSlot \/ SendIt \/ EnterPhase
  \/ DeliverBegins \/ ClaimParent \/ MarkDelivered \/ PostSummary

Next == TurnSteps \/ NewRequest \/ (\E p \in Callers : RequestStep(p)) \/ EngineStep \/ Restart

Spec == Init /\ [][Next]_vars

\* The engine ticks every 10 s, a handler runs to its end, and a turn ends, if only
\* because its CLI does.  Nothing makes a request come, or the Harness die.
Fairness ==
  /\ WF_vars(EngineStep)
  /\ \A p \in Callers : WF_vars(RequestStep(p))
  /\ \A c \in Convs : WF_vars(\E end \in {"done", "stopped", "error"}, session \in BOOLEAN : TurnEnds(c, end, session))
  /\ WF_vars(ParentTurnEnds)

LiveSpec == Spec /\ Fairness

-----------------------------------------------------------------------------
(* Properties.                                                             *)

\* Every record, slot and thread holds values of its kind.
TypeOK ==
  /\ \A c \in Convs :
       /\ rec[c] \in Records /\ loop[c] \in LoopRecords
       /\ Len(rec[c].queue) <= MaxQueue
       /\ run[c] \in [on : BOOLEAN, by : {"nobody", "loop", "follow"}, verify : BOOLEAN, stop : BOOLEAN,
                      said : BOOLEAN, end : {"none", "done", "stopped", "error"}]
  /\ eng.conv \in Convs \cup {Nobody} /\ eng.todo \subseteq Convs
  /\ parent \in {"nobody", "chat", "summary", "loop"}

\* An arming of the loop is driven for at most its cap of turns, however the engine's
\* copy of the record interleaves with stops and new armings (AutopilotService.cs:807).
CapBoundsSends == \A c \in Convs : loop[c].iterations <= Cap

\* A queued message is in one place: waiting, in the engine's hands, or carried by a
\* turn, so no two turns carry it (Drain, DecoratePrompt).
CarriedOnce ==
  \A c \in Convs :
    LET waiting == ToSet(rec[c].queue) IN
      /\ waiting \cap hist.carried = {} /\ waiting \cap ToSet(eng.taken) = {}
      /\ hist.carried \cap hist.dropped = {} /\ waiting \cap hist.dropped = {}

\* A conversation ends as done only on a reply to the verification prompt that says
\* so; a GOAL_VERIFIED written before that prompt was sent does not count (GoalLoop).
DoneIsVerified ==
  [][\A c \in Convs : rec[c].state # "done" /\ rec'[c].state = "done"
       => reply[c].kind = "verified" /\ reply[c].verdict]_vars

\* The engine sends nothing on top of an unanswered NEEDS_HUMAN of the same arming.
QuestionHoldsTheLoop ==
  \A c \in Convs :
    eng.conv = c /\ eng.at \in {"drain", "claim", "send"}
      => ~(reply[c].kind = "asks" /\ reply[c].answers /\ reply[c].armedAt = loop[c].armedAt)

\* An ending is reported to the parent at most once (DeliverSummaries).
ReportedOnce == IsInjective(hist.posts)

EngineTurns == {c \in Writers : run[c].on /\ run[c].by = "loop"}

\* Turns the engine starts itself, loop sends of writers, the parent's own loop and
\* summaries, never overlap in the checkout.
EngineKeepsOneWriter ==
  Cardinality(EngineTurns) + (IF parent \in {"summary", "loop"} THEN 1 ELSE 0) <= 1

\* A conversation whose loop stopped while nobody watched is ended, held, or armed
\* again (Reconcile).
NobodyIsForgotten ==
  \A c \in Convs : (IsRunning(rec[c]) /\ ~loop[c].active)
                     ~> (~IsRunning(rec[c]) \/ rec[c].held \/ loop[c].active)

\* A summary does not wait for ever, and an active loop between two turns gets its next
\* turn or stops, as long as the process lives.
LoopsGoOn ==
  \A c \in Convs :
    /\ Undelivered(rec[c]) ~> ~Undelivered(rec[c])
    /\ (loop[c].active /\ ~run[c].on) ~> (~loop[c].active \/ run[c].on)

\* "one WRITER at a time in a checkout" (RepoSubagentService.cs:25).
OneWriter ==
  Cardinality({c \in Writers : run[c].on}) + (IF parent = "nobody" THEN 0 ELSE 1) <= 1

\* "At most MaxRunningPerRepo running per repo" (RepoSubagentService.cs:27).
AtMostMaxRunning == RunningCount <= MaxRunning

\* An ended conversation has no active loop, once nobody is working on it.
EndedIsQuiet ==
  \A c \in Convs :
    HasEnded(rec[c]) /\ eng.conv # c /\ (\A p \in Callers : call[p].conv # c) => ~loop[c].active

\* A summary marked delivered has been posted, or is about to be by this process.
DeliveredMeansPosted ==
  \A c \in Convs : rec[c].told =>
    \/ <<c, rec[c].endedAt>> \in ToSet(hist.posts)
    \/ eng.at = "turn" /\ eng.conv = c

\* A loop is stopped for what happened to a turn only after it sent one.
ContinueTakesEffect ==
  \A c \in Convs : loop[c].reason \in {"by-operator", "error"} => loop[c].iterations > 0

\* "agent produced no reply in N consecutive runs" needs N runs.
NoReplyMeansRuns == \A c \in Convs : loop[c].reason = "no-reply" => loop[c].iterations > MaxNoReplyRetries

\* A message that was queued waits, is carried, or gave way to newer ones.
MessagesKept ==
  hist.accepted \subseteq
    hist.carried \cup hist.dropped \cup ToSet(eng.taken) \cup UNION {ToSet(rec[c].queue) : c \in Convs}
=============================================================================
