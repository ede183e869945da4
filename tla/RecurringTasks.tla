--------------------------- MODULE RecurringTasks ---------------------------
(***************************************************************************)
(* Recurring tasks: cards that arm a goal loop on a repo agent when an     *)
(* occurrence is due (RecurringEngine), the agent's one loop slot they     *)
(* borrow for it (LoopConfigStore through IRecurringPort), and the         *)
(* operator's commands on cards (RecurringCommands).                       *)
(*                                                                         *)
(* A tick, RunNow and StopRun hold the engine's lock; eng is what the      *)
(* holder is doing.  The commands, the loop engine and the operator at the *)
(* dock do not take that lock and step in anywhere.  The card file, the    *)
(* run log and the loop file are written at every change and survive a     *)
(* kill; what the engine was doing does not.                               *)
(*                                                                         *)
(* A loop is one record with its arming generation; its turns are not      *)
(* shown, only that it resolves.  A run that was armed ends "failed" or    *)
(* "ended": ok, attention, unreported and lost are told apart by nothing   *)
(* the engine decides, nor is a catch-up from a run at its time.           *)
(***************************************************************************)
EXTENDS Recurrence, FiniteSets

CONSTANTS
  Agents, Remote,     \* the repo agents, and those on a fleet peer
  Tasks, Agent,       \* the cards, and the agent of each
  Policy,             \* PolicySpec of each card
  Metered,            \* cards whose plan-usage limit may be reached
  Schedules, Modes,   \* what an edit may choose
  Started,            \* cards that exist at the start, all with
  FirstSchedule,      \*   this schedule
  SingleGrace, LostAfter,
  Acts,               \* the kinds of acts of users
  NoRun,
  MaxTime, MaxActs, MaxGates, MaxTurns, MaxOutages, MaxRestarts  \* bounds

Local == Agents \ Remote

ASSUME RecurringAssumption ==
  /\ Remote \subseteq Agents /\ Agent \in [Tasks -> Agents]
  /\ Policy \in [Tasks -> [catchUp : BOOLEAN, skipWhenBusy : BOOLEAN]]
  /\ Metered \subseteq Tasks /\ Started \subseteq Tasks
  /\ FirstSchedule \in Schedules /\ Modes \subseteq {"goal", "single"} /\ "goal" \in Modes
  /\ {SingleGrace, LostAfter, MaxActs, MaxGates, MaxTurns, MaxOutages, MaxRestarts} \subseteq Nat
  /\ MaxTime \in Nat \ {0}

\* What the two Validate let through: a positive interval, or a time of day on named weekdays.
ASSUME ScheduleAssumption ==
  \A s \in Schedules : \/ s \in [kind : {"interval"}, every : Nat \ {0}]
                       \/ s \in [kind : {"daily"}, at : 0 .. DayLength - 1, days : SUBSET (0 .. Week - 1)]

VARIABLES
  now,       \* the clock
  gate,      \* AutopilotGate.Enabled
  card,      \* card[t]: RecurringTaskStore
  log,       \* log[t]: the runs of a card, oldest first
  slot,      \* slot[a]: the loop record of an agent
  gen,       \* the last arming generation
  busy,      \* busy[a]: a turn is under way
  reach,     \* reach[a]: a peer answers
  dead,      \* dead[a]: the turn of the active loop died with a process
  eng,       \* what the holder of the engine's lock is doing
  deleting,  \* cards whose deletion has passed its check
  spent      \* how much of each bound is used

vars == <<now, gate, card, log, slot, gen, busy, reach, dead, eng, deleting, spent>>

-----------------------------------------------------------------------------
(* Loops.                                                                  *)

Loops == [gen : Nat, active : BOOLEAN, by : {"none", "operator", "recurring"}]

NoLoop == [gen |-> 0, active |-> FALSE, by |-> "none"]

Armed(g, by) == [gen |-> g, active |-> TRUE, by |-> by]
Resolved(e)  == [e EXCEPT !.active = FALSE]

\* Variant: the snapshot goes back whatever the slot holds by now.
RestoreSnapshot_Blindly(e, snapshot, g) == snapshot

\* Only over the run's own resolved loop; an empty snapshot empties the slot.
RestoreSnapshot(e, snapshot, g) ==
  IF e.active \/ e.gen # g \/ e.by # "recurring" THEN e ELSE snapshot

-----------------------------------------------------------------------------
(* Cards and runs.                                                         *)

Cards ==
  [is : {"unborn", "here", "deleted"}, enabled : BOOLEAN, why : {"none", "operator", "auto"}, anchor : Nat,
   handled : Nat, sched : Schedules \cup {NoSchedule}, mode : Modes]

NoCard ==
  [is |-> "unborn", enabled |-> FALSE, why |-> "none", anchor |-> 0, handled |-> 0,
   sched |-> NoSchedule, mode |-> "goal"]
Gone   == [NoCard EXCEPT !.is = "deleted"]

Here(t) == card[t].is = "here"

\* A new grid owes nothing of the old one.
Anchored(c, time)      == [c EXCEPT !.anchor = time, !.handled = 0]
NewCard(s, mode, time) == Anchored([NoCard EXCEPT !.is = "here", !.enabled = TRUE, !.sched = s, !.mode = mode], time)

Runs ==
  [due : Nat, missed : Nat, manual : BOOLEAN, mode : Modes,
   status : {"running", "skipped", "refused", "failed", "ended"}, since : Nat, loop : Nat, snap : Loops \cup {NoRun}]

ASSUME NoRunAssumption == NoRun \notin Loops \cup Runs

IsRunning(r)  == r.status = "running"
Running(t)    == \E i \in DOMAIN log[t] : IsRunning(log[t][i])
RunningOf(t)  == log[t][CHOOSE i \in DOMAIN log[t] : IsRunning(log[t][i])]

\* RecurringRunLog.Upsert, by the id of the run.
Upsert(l, old, new) ==
  IF \E i \in DOMAIN l : l[i] = old THEN [i \in DOMAIN l |-> IF l[i] = old THEN new ELSE l[i]] ELSE Append(l, new)

NewRun(due, missed, manual, mode, time) ==
  [due |-> due, missed |-> missed, manual |-> manual, mode |-> mode, status |-> "running", since |-> time,
   loop |-> 0, snap |-> NoRun]
Occurrence(c, time)  == NewRun(Due(c, time), Missed(c, time), FALSE, c.mode, time)
ManualRun(c, time)   == NewRun(time, 0, TRUE, c.mode, time)

Known(t) == reach[Agent[t]]

-----------------------------------------------------------------------------
(* The engine.  eng.runs: runs still to advance, as listed at the start of *)
(* the tick; eng.cards: the cards as listed before they are decided;       *)
(* eng.todo: those still to decide; task and run: the one at hand.         *)

Empty == [t \in {} |-> NoRun]
Idle ==
  [at |-> "idle", now |-> 0, manual |-> FALSE, runs |-> Empty, cards |-> Empty, todo |-> {}, task |-> NoRun,
   run |-> NoRun, closed |-> NoRun]

Init ==
  /\ now = 1 /\ gate = TRUE
  /\ card = [t \in Tasks |-> IF t \in Started THEN NewCard(FirstSchedule, "goal", 1) ELSE NoCard]
  /\ log = [t \in Tasks |-> <<>>]
  /\ slot = [a \in Agents |-> NoLoop] /\ gen = 0
  /\ busy = [a \in Agents |-> FALSE] /\ reach = [a \in Agents |-> TRUE] /\ dead = [a \in Agents |-> FALSE]
  /\ eng = Idle /\ deleting = {}
  /\ spent = [acts |-> 0, gates |-> 0, turns |-> 0, outages |-> 0, restarts |-> 0]

TickBegins ==
  /\ eng.at = "idle"
  /\ eng' = [Idle EXCEPT !.at = "advancing", !.now = now, !.runs = [t \in {u \in Tasks : Running(u)} |-> RunningOf(t)]]
  /\ UNCHANGED <<now, gate, card, log, slot, gen, busy, reach, dead, deleting, spent>>

\* What a closed record keeps; nobody reads the rest again.
Closed(r, status) == [r EXCEPT !.status = status, !.since = 0, !.loop = 0, !.snap = NoRun]

\* Whose loop is in the slot now?
OwnLoop(t, r) == slot[Agent[t]].gen = r.loop

\* The ways a run can be closed now; a run that is in none of them waits for a later tick.
Endings(t, r) ==
  LET a == Agent[t] IN
  IF ~Known(t) THEN IF eng.now - r.since > LostAfter THEN {Closed(r, "ended")} ELSE {}
  ELSE IF r.mode = "goal" /\ ~OwnLoop(t, r) THEN {Closed(r, "ended")}
  ELSE IF IF r.mode = "goal" THEN slot[a].active ELSE busy[a] THEN {}
  ELSE {Closed(r, "failed"), Closed(r, "ended")}

\* Variant: an empty snapshot is taken for nothing to restore.
HandsBack_IfAny(t, r) == r.snap \notin {NoRun, NoLoop} /\ OwnLoop(t, r)

\* Nothing to restore when the slot was armed by someone else since.
HandsBack(t, r) == r.snap # NoRun /\ OwnLoop(t, r)

\* A single run may look like it has no reply yet: then it waits, for a while.
MayWait(t, r) ==
  Endings(t, r) = {} \/ (r.mode = "single" /\ Known(t) /\ eng.now - r.since < SingleGrace)

Advance(t) ==
  /\ eng.at = "advancing" /\ t \in DOMAIN eng.runs
  /\ LET r    == eng.runs[t]
         rest == [u \in DOMAIN eng.runs \ {t} |-> eng.runs[u]]
     IN  \/ MayWait(t, r) /\ eng' = [eng EXCEPT !.runs = rest]
         \/ \E c \in Endings(t, r) :
              eng' = [eng EXCEPT !.runs = rest, !.task = t, !.run = r, !.closed = c,
                                 !.at = IF HandsBack(t, r) THEN "handing" ELSE "closing"]
  /\ UNCHANGED <<now, gate, card, log, slot, gen, busy, reach, dead, deleting, spent>>

\* The first half of Close: the borrowed slot.
HandBack ==
  /\ eng.at = "handing"
  /\ slot' = [slot EXCEPT ![Agent[eng.task]] = RestoreSnapshot(@, eng.run.snap, eng.run.loop)]
  /\ eng' = [eng EXCEPT !.at = "closing"]
  /\ UNCHANGED <<now, gate, card, log, gen, busy, reach, dead, deleting, spent>>

AtHand(at) == [eng EXCEPT !.at = at, !.task = NoRun, !.run = NoRun, !.closed = NoRun]

\* The second half of Close: the record, and then whether the card pauses itself.
CloseRun ==
  /\ eng.at = "closing"
  /\ log' = [log EXCEPT ![eng.task] = Upsert(@, eng.run, eng.closed)]
  /\ eng' = IF eng.closed.status = "failed" /\ Here(eng.task)
              THEN [AtHand("pausing") EXCEPT !.task = eng.task] ELSE AtHand("advancing")
  /\ UNCHANGED <<now, gate, card, slot, gen, busy, reach, dead, deleting, spent>>

Paused(c, why) == IF c.is = "here" THEN [c EXCEPT !.enabled = FALSE, !.why = why] ELSE c

\* AutoPauseIfFailing; a run at hand is a refusal that has still to be marked as handled.
PauseIfFailing ==
  /\ eng.at = "pausing"
  /\ card' = [card EXCEPT ![eng.task] = IF ShouldAutoPause(log[eng.task]) THEN Paused(@, "auto") ELSE @]
  /\ eng' = IF eng.run # NoRun THEN [eng EXCEPT !.at = "marking"] ELSE AtHand("advancing")
  /\ UNCHANGED <<now, gate, log, slot, gen, busy, reach, dead, deleting, spent>>

ListCards ==
  /\ eng.at = "advancing" /\ DOMAIN eng.runs = {}
  /\ eng' = [eng EXCEPT !.at = "deciding", !.cards = card, !.todo = {t \in Tasks : Here(t)}]
  /\ UNCHANGED <<now, gate, card, log, slot, gen, busy, reach, dead, deleting, spent>>

\* An occurrence that is not armed: its record, then (MarkHandled) the card.
RecordNotArmed(t, r, status) ==
  /\ log' = [log EXCEPT ![t] = Append(@, Closed(r, status))]
  /\ eng' = [eng EXCEPT !.at = IF status = "refused" THEN "pausing" ELSE "marking", !.task = t, !.run = r]

\* What TickTask decides, first without the agent, then with it.
DecideCard(t) ==
  LET c    == eng.cards[t]
      done == [eng EXCEPT !.todo = @ \ {t}]
      r    == Occurrence(c, eng.now)
      first  == Decide(c, Policy[t], eng.now, gate, Running(t), FALSE)
      second == Decide(c, Policy[t], eng.now, gate, slot[Agent[t]].active, busy[Agent[t]])
  IN
  /\ eng.at = "deciding" /\ t \in eng.todo
  /\ \/ c.enabled /\ ~Running(t) /\ first = "skip" /\ RecordNotArmed(t, r, "skipped")
     \/ c.enabled /\ ~Running(t) /\ first = "fire" /\ ~Known(t) /\ RecordNotArmed(t, r, "refused")
     \/ c.enabled /\ ~Running(t) /\ first = "fire" /\ Known(t) /\ second = "skip" /\ RecordNotArmed(t, r, "skipped")
     \/ c.enabled /\ ~Running(t) /\ first = "fire" /\ Known(t) /\ second = "fire" /\ t \in Metered /\ RecordNotArmed(t, r, "skipped")
     \/ /\ c.enabled /\ ~Running(t) /\ first = "fire" /\ Known(t) /\ second = "fire"
        /\ eng' = [eng EXCEPT !.at = "arming", !.task = t, !.run = r] /\ UNCHANGED log
     \/ /\ ~c.enabled \/ Running(t) \/ first \in {"idle", "hold"} \/ (first = "fire" /\ Known(t) /\ second = "hold")
        /\ eng' = done /\ UNCHANGED log
  /\ UNCHANGED <<now, gate, card, slot, gen, busy, reach, dead, deleting, spent>>

\* The card at hand is done with: the tick goes on, RunNow returns.
Next1 == IF eng.manual THEN Idle ELSE [AtHand("deciding") EXCEPT !.todo = @ \ {eng.task}]

\* Fire fails: a manual run is recorded too, without a mark on the card.
Refuse ==
  /\ log' = [log EXCEPT ![eng.task] = Append(@, Closed(eng.run, "refused"))]
  /\ eng' = [eng EXCEPT !.at = "pausing"]

\* ArmGoal: the gate and the slot once more, and what the slot holds.
BorrowSlot ==
  LET a == Agent[eng.task] IN
  /\ eng.at = "arming" /\ eng.run.mode = "goal"
  /\ \/ ~gate /\ Refuse
     \/ gate /\ a \in Local /\ slot[a].active /\ eng' = Next1 /\ UNCHANGED log
     \/ gate /\ a \in Local /\ ~slot[a].active /\ eng' = [eng EXCEPT !.at = "starting", !.run.snap = slot[a]] /\ UNCHANGED log
     \/ gate /\ a \in Remote /\ eng' = [eng EXCEPT !.at = "starting"] /\ UNCHANGED log
  /\ UNCHANGED <<now, gate, card, slot, gen, busy, reach, dead, deleting, spent>>

\* LoopArmer.Start arms over whatever is in the slot by now.
StartLoop ==
  LET a == Agent[eng.task] IN
  /\ eng.at = "starting" /\ reach[a]
  /\ gen' = gen + 1
  /\ slot' = [slot EXCEPT ![a] = Armed(gen + 1, "recurring")] /\ dead' = [dead EXCEPT ![a] = FALSE]
  /\ eng' = [eng EXCEPT !.at = "logging", !.run.loop = gen + 1]
  /\ UNCHANGED <<now, gate, card, log, busy, reach, deleting, spent>>

PeerGone ==
  /\ eng.at \in {"starting", "arming"} /\ ~reach[Agent[eng.task]] /\ Refuse
  /\ UNCHANGED <<now, gate, card, slot, gen, busy, reach, dead, deleting, spent>>

\* The peer arms, and its answer is lost: the run is recorded as refused.
AnswerLost ==
  LET a == Agent[eng.task] IN
  /\ eng.at = "starting" /\ a \in Remote /\ reach[a] /\ spent.outages < MaxOutages
  /\ spent' = [spent EXCEPT !.outages = @ + 1]
  /\ gen' = gen + 1
  /\ slot' = [slot EXCEPT ![a] = Armed(gen + 1, "recurring")] /\ dead' = [dead EXCEPT ![a] = FALSE]
  /\ Refuse
  /\ UNCHANGED <<now, gate, card, busy, reach, deleting>>

SendOnce ==
  LET a == Agent[eng.task] IN
  /\ eng.at = "arming" /\ eng.run.mode = "single" /\ reach[a]
  /\ \/ ~gate /\ Refuse /\ UNCHANGED busy
     \/ gate /\ busy[a] /\ eng' = Next1 /\ UNCHANGED <<log, busy>>
     \/ gate /\ ~busy[a] /\ busy' = [busy EXCEPT ![a] = TRUE] /\ eng' = [eng EXCEPT !.at = "logging"] /\ UNCHANGED log
  /\ UNCHANGED <<now, gate, card, slot, gen, reach, dead, deleting, spent>>

LogRun ==
  /\ eng.at = "logging"
  /\ log' = [log EXCEPT ![eng.task] = Append(@, eng.run)]
  /\ eng' = [eng EXCEPT !.at = "marking"]
  /\ UNCHANGED <<now, gate, card, slot, gen, busy, reach, dead, deleting, spent>>

Handled(c, r) == IF c.is = "here" /\ ~r.manual THEN [c EXCEPT !.handled = r.due] ELSE c

MarkHandled ==
  /\ eng.at = "marking"
  /\ card' = [card EXCEPT ![eng.task] = Handled(@, eng.run)]
  /\ eng' = Next1
  /\ UNCHANGED <<now, gate, log, slot, gen, busy, reach, dead, deleting, spent>>

TickEnds ==
  /\ eng.at = "deciding" /\ eng.todo = {}
  /\ eng' = Idle
  /\ UNCHANGED <<now, gate, card, log, slot, gen, busy, reach, dead, deleting, spent>>

-----------------------------------------------------------------------------
(* The operator, by the Recurring tab and the arch's tools.                *)

Act(kind) == kind \in Acts /\ spent.acts < MaxActs /\ spent' = [spent EXCEPT !.acts = @ + 1]

RunNow(t) ==
  /\ Act("run") /\ eng.at = "idle" /\ Here(t) /\ gate /\ ~Running(t) /\ Known(t)
  /\ ~slot[Agent[t]].active /\ ~busy[Agent[t]]
  /\ eng' = [Idle EXCEPT !.at = "arming", !.now = now, !.manual = TRUE, !.task = t, !.run = ManualRun(card[t], now)]
  /\ UNCHANGED <<now, gate, card, log, slot, gen, busy, reach, dead, deleting>>

\* Stops the loop that is in the agent's slot; the tick that follows closes the run.
StopRun(t) ==
  /\ Act("stop") /\ eng.at = "idle" /\ Running(t) /\ RunningOf(t).mode = "goal" /\ Known(t)
  /\ slot' = [slot EXCEPT ![Agent[t]] = IF @.active THEN Resolved(@) ELSE @]
  /\ UNCHANGED <<now, gate, card, log, gen, busy, reach, dead, eng, deleting>>

\* A change of a card alone.
Command(kind, t, c) ==
  /\ Act(kind) /\ card' = [card EXCEPT ![t] = c]
  /\ UNCHANGED <<now, gate, log, slot, gen, busy, reach, dead, eng, deleting>>

\* A card's id is never used again.
Create(t, s, mode) == card[t].is = "unborn" /\ gate /\ Command("create", t, NewCard(s, mode, now))
Pause(t)           == Here(t) /\ Command("pause", t, Paused(card[t], "operator"))
Resume(t) ==
  Here(t) /\ gate /\ Command("resume", t, Anchored([card[t] EXCEPT !.enabled = TRUE, !.why = "none"], now))

\* A new schedule, or switching a paused card on, is a new grid.
Edit(t, s, mode, on) ==
  LET c      == card[t]
      edited == [c EXCEPT !.sched = s, !.mode = mode, !.enabled = on,
                          !.why = IF on = c.enabled THEN @ ELSE IF on THEN "none" ELSE "operator"]
  IN  Here(t) /\ gate /\ Command("edit", t, IF s # c.sched \/ (on /\ ~c.enabled) THEN Anchored(edited, now) ELSE edited)

\* Delete looks for a running run and then removes the card and its history.
DeleteLooks(t) ==
  /\ Here(t) /\ ~Running(t) /\ t \notin deleting /\ Act("delete")
  /\ deleting' = deleting \cup {t}
  /\ UNCHANGED <<now, gate, card, log, slot, gen, busy, reach, dead, eng>>
DeleteRemoves(t) ==
  /\ t \in deleting /\ deleting' = deleting \ {t}
  /\ card' = [card EXCEPT ![t] = Gone] /\ log' = [log EXCEPT ![t] = <<>>]
  /\ UNCHANGED <<now, gate, slot, gen, busy, reach, dead, eng, spent>>

\* The operator at the dock arms a loop of his own, over whatever is there, or stops one.
OperatorArms(a) ==
  /\ Act("arm") /\ gen' = gen + 1
  /\ slot' = [slot EXCEPT ![a] = Armed(gen + 1, "operator")] /\ dead' = [dead EXCEPT ![a] = FALSE]
  /\ UNCHANGED <<now, gate, card, log, busy, reach, eng, deleting>>

Users ==
  \/ \E t \in Tasks : RunNow(t) \/ StopRun(t) \/ Pause(t) \/ Resume(t) \/ DeleteLooks(t)
                        \/ \E s \in Schedules, m \in Modes : Create(t, s, m) \/ \E on \in BOOLEAN : Edit(t, s, m, on)
  \/ \E a \in Agents : OperatorArms(a)

-----------------------------------------------------------------------------
(* The surroundings.                                                       *)

\* The loop engine resolves a loop between turns; the operator stops one at any time.
LoopResolves(a) ==
  /\ slot[a].active /\ ~busy[a] /\ ~dead[a] /\ slot' = [slot EXCEPT ![a] = Resolved(@)]
  /\ UNCHANGED <<now, gate, card, log, gen, busy, reach, dead, eng, deleting, spent>>

TurnStarts(a) ==
  /\ ~busy[a] /\ spent.turns < MaxTurns /\ spent' = [spent EXCEPT !.turns = @ + 1]
  /\ busy' = [busy EXCEPT ![a] = TRUE]
  /\ UNCHANGED <<now, gate, card, log, slot, gen, reach, dead, eng, deleting>>
TurnEnds(a) ==
  /\ busy[a] /\ busy' = [busy EXCEPT ![a] = FALSE]
  /\ UNCHANGED <<now, gate, card, log, slot, gen, reach, dead, eng, deleting, spent>>

GateFlips ==
  /\ spent.gates < MaxGates /\ spent' = [spent EXCEPT !.gates = @ + 1] /\ gate' = ~gate
  /\ UNCHANGED <<now, card, log, slot, gen, busy, reach, dead, eng, deleting>>

PeerLeaves(a) ==
  /\ a \in Remote /\ reach[a] /\ spent.outages < MaxOutages /\ spent' = [spent EXCEPT !.outages = @ + 1]
  /\ reach' = [reach EXCEPT ![a] = FALSE]
  /\ UNCHANGED <<now, gate, card, log, slot, gen, busy, dead, eng, deleting>>
PeerReturns(a) ==
  /\ ~reach[a] /\ reach' = [reach EXCEPT ![a] = TRUE]
  /\ UNCHANGED <<now, gate, card, log, slot, gen, busy, dead, eng, deleting, spent>>

ClockTicks ==
  /\ now < MaxTime /\ now' = now + 1
  /\ UNCHANGED <<gate, card, log, slot, gen, busy, reach, dead, eng, deleting, spent>>

\* A kill: local turns end, and an active loop may be one whose turn died with the process.
Restart ==
  /\ spent.restarts < MaxRestarts /\ spent' = [spent EXCEPT !.restarts = @ + 1]
  /\ eng' = Idle /\ deleting' = {}
  /\ busy' = [a \in Agents |-> a \in Remote /\ busy[a]]
  /\ \E d \in SUBSET {a \in Local : slot[a].active} : dead' = [a \in Agents |-> a \in d]
  /\ UNCHANGED <<now, gate, card, log, slot, gen, reach>>

EngineStep ==
  \/ TickBegins \/ ListCards \/ HandBack \/ CloseRun \/ PauseIfFailing \/ BorrowSlot \/ StartLoop \/ PeerGone
  \/ SendOnce \/ LogRun \/ MarkHandled \/ TickEnds
  \/ \E t \in Tasks : Advance(t) \/ DecideCard(t)

Surroundings ==
  \/ \E t \in Tasks : DeleteRemoves(t)
  \/ \E a \in Agents : LoopResolves(a) \/ TurnStarts(a) \/ TurnEnds(a) \/ PeerLeaves(a) \/ PeerReturns(a)
  \/ GateFlips \/ ClockTicks \/ Restart \/ AnswerLost

Next == EngineStep \/ Users \/ Surroundings

Spec == Init /\ [][Next]_vars

\* The scheduler ticks every ten seconds; a turn ends, a loop whose turns are answered
\* resolves, and a peer is found again.
Fairness ==
  /\ WF_vars(EngineStep)
  /\ \A a \in Agents : WF_vars(LoopResolves(a)) /\ WF_vars(TurnEnds(a)) /\ WF_vars(PeerReturns(a))

LiveSpec == Spec /\ Fairness

-----------------------------------------------------------------------------
(* Properties.                                                             *)

TypeOK ==
  /\ now \in 1 .. MaxTime /\ gate \in BOOLEAN /\ gen \in Nat /\ deleting \subseteq Tasks
  /\ card \in [Tasks -> Cards] /\ \A t \in Tasks : Here(t) \/ card[t] \in {NoCard, Gone}
  /\ slot \in [Agents -> Loops]
  /\ \A t \in Tasks : \A i \in DOMAIN log[t] : log[t][i] \in Runs
  /\ {busy, reach, dead} \subseteq [Agents -> BOOLEAN]

\* The occurrences of a schedule up to a time, said without the code's arithmetic.
Occurrences(s, anchor, upto) ==
  {x \in anchor + 1 .. upto :
     IF s.kind = "interval" THEN (x - anchor) % s.every = 0
     ELSE x % DayLength = s.at /\ (s.days = {} \/ (x \div DayLength) % Week \in s.days)}

\* How many of them a card has put behind itself.
Settled(t) == Cardinality(Occurrences(card[t].sched, card[t].anchor, card[t].handled))

\* A run stands for its occurrence and for those missed before it, one made by hand for none.
Claims(c, l)  == UNION {{i} \X (0 .. l[i].missed) : i \in {j \in DOMAIN l : ~l[j].manual /\ l[j].due > c.anchor}}
Covered(t)    == Cardinality(Claims(card[t], log[t]))

\* Every occurrence leaves a run record: what a card has put behind itself is covered by
\* the records of its log, one run for several occurrences, and, when no kill came between
\* a record and its mark, covered once ("at most ONE occurrence is ever pending").
OccurrencesAreAccounted ==
  \A t \in Tasks : Here(t) =>
    /\ Covered(t) >= Settled(t)
    /\ eng.at = "idle" /\ spent.restarts = 0 => Covered(t) = Settled(t)

\* Where the runs of the grid a card is on are in its log; a skipped occurrence is no run.
OnGridAt(c, l) == {i \in DOMAIN l : l[i].due > c.anchor /\ l[i].status # "skipped"}

\* All that failed in a row before the run at i.
FailedBefore(c, l, i, k) == AllFailed(l, {j \in OnGridAt(c, l) : k <= j /\ j < i}, AutoPauseAfter)

\* A card whose last runs on its grid all failed arms nothing more by itself
\* (AutoPauseIfFailing), when no kill came between and they were among the newest runs.
FailuresPause ==
  \A t \in Tasks : Here(t) /\ spent.restarts = 0 =>
    \A i, k \in OnGridAt(card[t], log[t]) :
      ~log[t][i].manual /\ i <= k + AutoPauseWindow => ~FailedBefore(card[t], log[t], i, k)

\* The same however many occurrences were skipped in between: the window is cut before they
\* are dropped, so this does not hold (RecurringWindow.cfg).
FailuresPauseAlways ==
  \A t \in Tasks : Here(t) /\ spent.restarts = 0 =>
    \A i, k \in OnGridAt(card[t], log[t]) : ~log[t][i].manual => ~FailedBefore(card[t], log[t], i, k)

\* The loop parameters a slot held before a run are restored when it resolves: with no run
\* in progress, the engine at rest and no card deleted, an inactive slot is never left with
\* a recurring task's loop.
SlotIsHandedBack ==
  \A a \in Local :
    /\ eng.at = "idle" /\ spent.restarts = 0 /\ ~slot[a].active
    /\ \A t \in Tasks : Agent[t] = a => card[t].is # "deleted" /\ ~Running(t)
    => slot[a].by # "recurring"

\* A loop armed by somebody else is never removed by handing a slot back.
OnlyOwnLoopsAreReplaced ==
  [][HandBack => \A a \in Agents : slot'[a] # slot[a] => slot[a].by = "recurring" /\ ~slot[a].active]_vars

\* In the end nothing that is due waits and no run stays in progress, unless the gate is
\* closed or the agent's loop waits for a turn that died with the process.
OccurrencesAreHandled ==
  <>[](\A t \in Tasks :
         Running(t) \/ (Here(t) /\ card[t].enabled /\ IsDue(card[t], now)) => ~gate \/ dead[Agent[t]])
=============================================================================
