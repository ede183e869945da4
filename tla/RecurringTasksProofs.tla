------------------------ MODULE RecurringTasksProofs ------------------------
(***************************************************************************)
(* Proofs about RecurringTasks, for every number of cards, schedules and   *)
(* users.  The first part is about slots: the loop slot a card borrows     *)
(* from its local agent is given back as it was, as long as each local     *)
(* agent has one card and no process is killed on the way (RInv).  The     *)
(* second part is about occurrences: what a card has put behind itself is  *)
(* covered by the runs on record, and covered once when no process is      *)
(* killed (AInv); it begins with the arithmetic of the grid.  The third    *)
(* part is about failures: a card whose newest runs all failed is paused   *)
(* before it sends again by itself (PInv, on top of AInv).                 *)
(***************************************************************************)
EXTENDS RecurringTasks, SequenceTheorems, FiniteSetTheorems, NaturalsInduction, WellFoundedInduction, TLAPS

(* The shapes of the data.                                                 *)

EngFields == {"at", "now", "manual", "runs", "cards", "todo", "task", "run", "closed"}
RunFields == {"due", "missed", "manual", "mode", "status", "since", "loop", "snap"}

IsRun(r) == DOMAIN r = RunFields /\ r.snap \in Loops \cup {NoRun}

IsLog(l) == (\E S : l \in Seq(S)) /\ \A i \in DOMAIN l : IsRun(l[i])

(* Where the engine has a card at hand, a run that is not on record, one that is.  *)
AtWork  == {"handing", "closing", "pausing", "arming", "starting", "logging", "marking"}
Sending == {"arming", "starting", "logging"}
Closing == {"handing", "closing"}

EngShape ==
  /\ DOMAIN eng = EngFields
  /\ eng.at \in AtWork \cup {"idle", "advancing", "deciding"}
  /\ eng.at \in AtWork => eng.task \in Tasks
  /\ eng.at \in Sending => IsRun(eng.run) /\ IsRunning(eng.run)
  /\ eng.at \in Closing => /\ IsRun(eng.run) /\ IsRun(eng.closed) /\ ~IsRunning(eng.closed)
                           /\ eng.task \notin DOMAIN eng.runs
  /\ eng.at = "handing" => eng.run.snap # NoRun
  /\ DOMAIN eng.runs \subseteq Tasks /\ \A t \in DOMAIN eng.runs : IsRun(eng.runs[t])
  /\ eng.todo \subseteq Tasks

DataShape ==
  /\ DOMAIN card = Tasks /\ \A t \in Tasks : "is" \in DOMAIN card[t]
  /\ DOMAIN log = Tasks /\ \A t \in Tasks : IsLog(log[t])
  /\ slot \in [Agents -> Loops] /\ gen \in Nat
  /\ DOMAIN reach = Agents /\ \A a \in Local : reach[a]
  /\ "restarts" \in DOMAIN spent /\ spent.restarts \in Nat

(* The runs.                                                               *)

Deleted(t)  == card[t].is = "deleted"
InLog(t, r) == IsRunning(r) /\ \E i \in DOMAIN log[t] : log[t][i] = r

\* A card has one run in progress at most.
OneRunEach ==
  \A t \in Tasks : \A i, j \in DOMAIN log[t] : IsRunning(log[t][i]) /\ IsRunning(log[t][j]) => i = j

\* What the engine is going to put on record is the only run of its card.
NotYetRunning == eng.at \in Sending => ~Running(eng.task)

\* What the engine advances and closes is what the log shows in progress.
ListedAreRunning ==
  /\ \A t \in DOMAIN eng.runs : ~Deleted(t) => InLog(t, eng.runs[t])
  /\ eng.at \in Closing => (~Deleted(eng.task) => InLog(eng.task, eng.run))

(* The slots.                                                              *)

\* A run can give back the slot it borrowed.
GivesBack(t, r) ==
  /\ r.mode = "goal" /\ r.loop = slot[Agent[t]].gen
  /\ r.snap \in Loops /\ r.snap.by # "recurring"

Borrowed(t) == slot[Agent[t]].by = "recurring"

\* A recurring task's loop in the slot of a local agent is that of the run in progress, or of
\* the one the engine is about to record.
Lent(t) ==
  /\ Borrowed(t) => \/ \E i \in DOMAIN log[t] : IsRunning(log[t][i]) /\ GivesBack(t, log[t][i])
                    \/ eng.at = "logging" /\ eng.task = t /\ GivesBack(t, eng.run)
  /\ eng.task = t =>
       /\ eng.at = "starting" => /\ eng.run.mode = "goal"
                                 /\ eng.run.snap \in Loops /\ eng.run.snap.by # "recurring"
       /\ eng.at = "handing" => (Borrowed(t) => ~slot[Agent[t]].active)
       /\ eng.at = "closing" => ~Borrowed(t)

SlotsAreLent ==
  /\ \A a \in Local : slot[a].by = "recurring" => \E t \in Tasks : Agent[t] = a
  /\ spent.restarts = 0 => \A t \in Tasks : Agent[t] \in Local /\ ~Deleted(t) => Lent(t)

RInv == EngShape /\ DataShape /\ OneRunEach /\ NotYetRunning /\ ListedAreRunning /\ SlotsAreLent

\* No two cards share a local agent.
OneCardEach == \A t, u \in Tasks : Agent[t] = Agent[u] /\ Agent[t] \in Local => t = u

-----------------------------------------------------------------------------
\* One more run at the end of a log.
LEMMA AppendRun ==
  ASSUME NEW l, NEW r, IsLog(l), IsRun(r)
  PROVE  /\ IsLog(Append(l, r)) /\ Len(l) \in Nat
         /\ DOMAIN l = 1..Len(l) /\ DOMAIN Append(l, r) = 1..(Len(l) + 1)
         /\ \A i \in DOMAIN l : Append(l, r)[i] = l[i]
         /\ Append(l, r)[Len(l) + 1] = r
<1>1. PICK S : l \in Seq(S)
  BY DEF IsLog
<1> DEFINE T == S \cup {r}
           m == Append(l, r)
<1>2. l \in Seq(T) /\ r \in T
  <2>1. Len(l) \in Nat /\ l = [i \in 1..Len(l) |-> l[i]] /\ \A i \in 1..Len(l) : l[i] \in S
    BY <1>1
  <2> QED BY <1>1, <2>1
<1> HIDE DEF T
<1>3. m \in Seq(T)
  BY <1>2
<1>4. /\ Len(l) \in Nat /\ DOMAIN l = 1..Len(l) /\ DOMAIN m = 1..(Len(l) + 1)
      /\ \A i \in DOMAIN l : m[i] = l[i]
      /\ m[Len(l) + 1] = r
  BY <1>2, AppendProperties
<1> HIDE DEF m
<1>5. \A i \in DOMAIN m : i \in DOMAIN l \/ i = Len(l) + 1
  BY <1>4
<1>6. IsLog(m)
  <2>1. \A i \in DOMAIN m : IsRun(m[i])
    BY <1>4, <1>5 DEF IsLog
  <2> QED BY <1>3, <2>1 DEF IsLog
<1> QED BY <1>4, <1>6 DEF m

\* A run on record is replaced, every other stays.
LEMMA UpsertRun ==
  ASSUME NEW l, NEW old, NEW new, IsLog(l), IsRun(new)
  PROVE  /\ IsLog(Upsert(l, old, new))
         /\ \A i \in DOMAIN Upsert(l, old, new) :
              \/ Upsert(l, old, new)[i] = new
              \/ i \in DOMAIN l /\ Upsert(l, old, new)[i] = l[i] /\ l[i] # old
<1> DEFINE m == Upsert(l, old, new)
           g == [i \in DOMAIN l |-> IF l[i] = old THEN new ELSE l[i]]
<1>1. CASE \E i \in DOMAIN l : l[i] = old
  <2>1. m = g
    BY <1>1 DEF Upsert
  <2>2. PICK S : l \in Seq(S)
    BY DEF IsLog
  <2> DEFINE T == S \cup {new}
  <2>3. Len(l) \in Nat /\ DOMAIN l = 1..Len(l) /\ \A i \in DOMAIN l : l[i] \in S
    BY <2>2
  <2>4. \A i \in DOMAIN l : g[i] \in T
    BY <2>3
  <2>5. g \in Seq(T)
    BY <2>3, <2>4, IsASeq
  <2>6. IsLog(g)
    BY <2>5 DEF IsLog
  <2> QED BY <2>1, <2>6
<1>2. CASE ~\E i \in DOMAIN l : l[i] = old
  <2>1. m = Append(l, new)
    BY <1>2 DEF Upsert
  <2>2. /\ IsLog(m) /\ Len(l) \in Nat /\ DOMAIN l = 1..Len(l) /\ DOMAIN m = 1..(Len(l) + 1)
        /\ \A i \in DOMAIN l : m[i] = l[i]
        /\ m[Len(l) + 1] = new
    BY <2>1, AppendRun
  <2> HIDE DEF m
  <2>3. \A i \in DOMAIN m : i \in DOMAIN l \/ i = Len(l) + 1
    BY <2>2
  <2> QED BY <1>2, <2>2, <2>3 DEF m
<1> QED BY <1>1, <1>2

\* The record of a run that is over.
LEMMA ClosedIsRun ==
  ASSUME NEW r, IsRun(r), NEW status, status # "running"
  PROVE  IsRun(Closed(r, status)) /\ ~IsRunning(Closed(r, status)) /\ Closed(r, status).status = status
BY DEF IsRun, Closed, IsRunning, RunFields

\* The record of a run to be.
LEMMA NewIsRun ==
  ASSUME NEW due, NEW missed, NEW manual, NEW mode, NEW time
  PROVE  LET r == NewRun(due, missed, manual, mode, time) IN
         IsRun(r) /\ IsRunning(r) /\ r.mode = mode /\ r.snap = NoRun
BY DEF NewRun, IsRun, IsRunning, RunFields

-----------------------------------------------------------------------------
(* Steps that neither start nor end a run nor lend a slot.                 *)

\* The same runs are in progress in l and in m.
SameRunning(l, m) ==
  /\ \A i \in DOMAIN l : IsRunning(l[i]) => i \in DOMAIN m /\ m[i] = l[i]
  /\ \A i \in DOMAIN m : IsRunning(m[i]) => i \in DOMAIN l /\ m[i] = l[i]

\* What was a recurring task's loop is still that one, or is none any more.
Fades(e, f) ==
  f.by = "recurring" => e.by = "recurring" /\ f.gen = e.gen /\ (f.active => e.active)

LEMMA MildStep ==
  ASSUME RInv, EngShape', DataShape',
         \A t \in Tasks : SameRunning(log[t], log'[t]),
         \A a \in Local : Fades(slot[a], slot'[a]),
         \A t \in Tasks : card'[t].is = "deleted" <=> card[t].is = "deleted",
         spent'.restarts = 0 => spent.restarts = 0,
         \/ eng' = eng
         \/ /\ eng'.at \notin Sending /\ eng'.at \notin Closing /\ eng.at # "logging"
            /\ \A t \in DOMAIN eng'.runs : t \in DOMAIN eng.runs /\ eng'.runs[t] = eng.runs[t]
  PROVE  RInv'
<1>1. OneRunEach'
  BY DEF RInv, OneRunEach, SameRunning
<1>2. \A t \in Tasks : ~Running(t) => ~Running(t)'
  BY DEF Running, SameRunning
<1>3. NotYetRunning'
  <2>1. eng'.at \in Sending => eng' = eng
    OBVIOUS
  <2>2. eng.at \in Sending => eng.task \in Tasks
    BY DEF RInv, EngShape, Sending, AtWork
  <2>3. ASSUME eng'.at \in Sending PROVE ~Running(eng.task)'
    BY <1>2, <2>1, <2>2, <2>3 DEF RInv, NotYetRunning, Running
  <2> QED BY <2>1, <2>3 DEF NotYetRunning, Running
<1>4. ASSUME NEW t \in Tasks, NEW r, InLog(t, r)
      PROVE  IsRunning(r) /\ \E i \in DOMAIN log'[t] : log'[t][i] = r
  BY <1>4 DEF InLog, SameRunning
<1>5. ListedAreRunning'
  <2>1. \A t \in DOMAIN eng'.runs : t \in Tasks /\ t \in DOMAIN eng.runs /\ eng'.runs[t] = eng.runs[t]
    BY DEF EngShape
  <2>2. ASSUME NEW t \in DOMAIN eng'.runs, ~Deleted(t)'
        PROVE  InLog(t, eng.runs[t])'
    <3> DEFINE r == eng.runs[t]
    <3>1. InLog(t, r) /\ eng'.runs[t] = r /\ t \in Tasks
      BY <2>1, <2>2 DEF RInv, ListedAreRunning, Deleted
    <3> HIDE DEF r
    <3>2. IsRunning(r) /\ \E i \in DOMAIN log'[t] : log'[t][i] = r
      BY <1>4, <3>1
    <3> QED BY <3>1, <3>2 DEF InLog
  <2>3. ASSUME eng'.at \in Closing, ~Deleted(eng.task)'
        PROVE  InLog(eng.task, eng.run)'
    <3> DEFINE r == eng.run
               t == eng.task
    <3>1. eng' = eng
      BY <2>3
    <3>2. t \in Tasks
      BY <2>3, <3>1 DEF RInv, EngShape, Closing, AtWork
    <3>3. InLog(t, r) /\ eng'.run = r /\ eng'.task = t
      BY <2>3, <3>1, <3>2 DEF RInv, ListedAreRunning, Deleted
    <3> HIDE DEF r, t
    <3>4. IsRunning(r) /\ \E i \in DOMAIN log'[t] : log'[t][i] = r
      BY <1>4, <3>2, <3>3
    <3> QED BY <3>3, <3>4 DEF InLog
  <2> QED BY <2>2, <2>3 DEF ListedAreRunning
<1>6. SlotsAreLent'
  <2>1. ASSUME NEW a \in Local, slot'[a].by = "recurring"
        PROVE  \E t \in Tasks : Agent[t] = a
    BY <2>1 DEF Fades, RInv, SlotsAreLent
  <2>2. ASSUME spent'.restarts = 0, NEW t \in Tasks, Agent[t] \in Local, ~Deleted(t)'
        PROVE  Lent(t)'
    <3>1. Lent(t)
      BY <2>2 DEF RInv, SlotsAreLent, Deleted
    <3>2. /\ Borrowed(t)' => Borrowed(t)
          /\ Borrowed(t)' => slot'[Agent[t]].gen = slot[Agent[t]].gen
          /\ Borrowed(t)' => (slot'[Agent[t]].active => slot[Agent[t]].active)
      BY <2>2 DEF Fades, Borrowed
    <3>3. ASSUME Borrowed(t)'
          PROVE  \/ \E i \in DOMAIN log'[t] : IsRunning(log'[t][i]) /\ GivesBack(t, log[t][i])'
                 \/ eng'.at = "logging" /\ eng'.task = t /\ GivesBack(t, eng.run)'
      <4>1. CASE \E i \in DOMAIN log[t] : IsRunning(log[t][i]) /\ GivesBack(t, log[t][i])
        BY <3>2, <3>3, <4>1 DEF SameRunning, GivesBack
      <4>2. CASE eng.at = "logging" /\ eng.task = t /\ GivesBack(t, eng.run)
        BY <3>2, <3>3, <4>2 DEF GivesBack
      <4> QED BY <3>1, <3>2, <3>3, <4>1, <4>2 DEF Lent
    <3>4. ASSUME eng'.task = t
          PROVE  /\ eng'.at = "starting" => /\ eng'.run.mode = "goal"
                                            /\ eng'.run.snap \in Loops /\ eng'.run.snap.by # "recurring"
                 /\ eng'.at = "handing" => (Borrowed(t)' => ~slot'[Agent[t]].active)
                 /\ eng'.at = "closing" => ~Borrowed(t)'
      <4>1. eng'.at \in {"starting", "handing", "closing"} => eng' = eng
        BY DEF Sending, Closing
      <4> QED BY <3>1, <3>2, <3>4, <4>1 DEF Lent
    <3> QED BY <3>3, <3>4 DEF Lent
  <2> QED BY <2>1, <2>2 DEF SlotsAreLent
<1> QED BY <1>1, <1>3, <1>5, <1>6 DEF RInv

\* The special case of a step that leaves the engine and the logs alone.
LEMMA QuietStep ==
  ASSUME RInv, eng' = eng, log' = log, DataShape',
         \A a \in Local : Fades(slot[a], slot'[a]),
         \A t \in Tasks : card'[t].is = "deleted" <=> card[t].is = "deleted",
         spent'.restarts = 0 => spent.restarts = 0
  PROVE  RInv'
<1>1. EngShape'
  BY DEF RInv, EngShape
<1>2. \A t \in Tasks : SameRunning(log[t], log'[t])
  BY DEF SameRunning
<1> QED BY <1>1, <1>2, MildStep

\* A slot that stays as it is.
LEMMA SlotStays == \A a \in Local : Fades(slot[a], slot[a])
BY DEF Fades

-----------------------------------------------------------------------------
(* Users and surroundings.                                                 *)

\* What an act of a user does to the bounds.
LEMMA ActShape ==
  ASSUME RInv, NEW kind, Act(kind)
  PROVE  /\ "restarts" \in DOMAIN spent' /\ spent'.restarts \in Nat
         /\ spent'.restarts = spent.restarts
BY DEF RInv, DataShape, Act

\* A change of one card that neither deletes nor revives it.
LEMMA CommandInv ==
  ASSUME RInv, NEW t \in Tasks, NEW c, NEW kind, Command(kind, t, c),
         "is" \in DOMAIN c, c.is # "deleted", card[t].is # "deleted"
  PROVE  RInv'
<1>1. /\ card' = [card EXCEPT ![t] = c] /\ Act(kind)
      /\ UNCHANGED <<now, gate, log, slot, gen, busy, reach, dead, eng, deleting>>
  BY DEF Command
<1>2. DOMAIN card' = Tasks /\ card'[t] = c /\ \A u \in Tasks : u # t => card'[u] = card[u]
  BY <1>1 DEF RInv, DataShape
<1>3. DataShape'
  BY <1>1, <1>2, ActShape DEF RInv, DataShape
<1>4. \A u \in Tasks : card'[u].is = "deleted" <=> card[u].is = "deleted"
  BY <1>2
<1> QED BY <1>1, <1>3, <1>4, ActShape, SlotStays, QuietStep

\* Creating, pausing, resuming and editing a card.
LEMMA CommandsInv ==
  ASSUME RInv, NEW t \in Tasks,
         \/ Pause(t) \/ Resume(t)
         \/ \E s \in Schedules, m \in Modes : Create(t, s, m) \/ \E on \in BOOLEAN : Edit(t, s, m, on)
  PROVE  RInv'
<1> DEFINE c == card[t]
<1>1. "is" \in DOMAIN c
  BY DEF RInv, DataShape
<1>2. ASSUME NEW d, "is" \in DOMAIN d, NEW time
      PROVE  "is" \in DOMAIN Anchored(d, time) /\ Anchored(d, time).is = d.is
  BY <1>2 DEF Anchored
<1>3. CASE Pause(t)
  <2>1. c.is = "here" /\ Command("pause", t, Paused(c, "operator"))
    BY <1>3 DEF Pause, Here
  <2>2. "is" \in DOMAIN Paused(c, "operator") /\ Paused(c, "operator").is = "here"
    BY <1>1, <2>1 DEF Paused
  <2> QED BY <2>1, <2>2, CommandInv
<1>4. CASE Resume(t)
  <2> DEFINE d == [c EXCEPT !.enabled = TRUE, !.why = "none"]
  <2>1. c.is = "here" /\ Command("resume", t, Anchored(d, now))
    BY <1>4 DEF Resume, Here
  <2>2. "is" \in DOMAIN d /\ d.is = "here"
    BY <1>1, <2>1
  <2> HIDE DEF d
  <2>3. "is" \in DOMAIN Anchored(d, now) /\ Anchored(d, now).is = "here"
    BY <1>2, <2>2
  <2> QED BY <2>1, <2>3, CommandInv
<1>5. ASSUME NEW s \in Schedules, NEW m \in Modes, Create(t, s, m)
      PROVE  RInv'
  <2> DEFINE d == [NoCard EXCEPT !.is = "here", !.enabled = TRUE, !.sched = s, !.mode = m]
  <2>1. c.is = "unborn" /\ Command("create", t, Anchored(d, now))
    BY <1>5 DEF Create, NewCard
  <2>2. "is" \in DOMAIN d /\ d.is = "here"
    BY DEF NoCard
  <2> HIDE DEF d
  <2>3. "is" \in DOMAIN Anchored(d, now) /\ Anchored(d, now).is = "here"
    BY <1>2, <2>2
  <2> QED BY <2>1, <2>3, CommandInv
<1>6. ASSUME NEW s \in Schedules, NEW m \in Modes, NEW on \in BOOLEAN, Edit(t, s, m, on)
      PROVE  RInv'
  <2> DEFINE d == [c EXCEPT !.sched = s, !.mode = m, !.enabled = on,
                            !.why = IF on = c.enabled THEN @ ELSE IF on THEN "none" ELSE "operator"]
             e == IF s # c.sched \/ (on /\ ~c.enabled) THEN Anchored(d, now) ELSE d
  <2>1. c.is = "here" /\ Command("edit", t, e)
    BY <1>6 DEF Edit, Here
  <2>2. "is" \in DOMAIN d /\ d.is = "here"
    BY <1>1, <2>1
  <2> HIDE DEF d
  <2>3. "is" \in DOMAIN Anchored(d, now) /\ Anchored(d, now).is = "here"
    BY <1>2, <2>2
  <2>4. "is" \in DOMAIN e /\ e.is = "here"
    BY <2>2, <2>3
  <2> HIDE DEF e
  <2> QED BY <2>1, <2>4, CommandInv
<1> QED BY <1>3, <1>4, <1>5, <1>6

\* A loop that resolves, or that its operator replaces, lends nothing new.
LEMMA SlotStepInv ==
  ASSUME RInv, NEW a \in Agents, NEW e \in Loops, Fades(slot[a], e),
         slot' = [slot EXCEPT ![a] = e], gen' \in Nat,
         UNCHANGED <<card, log, reach, eng>>,
         "restarts" \in DOMAIN spent', spent'.restarts \in Nat, spent'.restarts = spent.restarts
  PROVE  RInv'
<1>1. slot' \in [Agents -> Loops] /\ slot'[a] = e /\ \A b \in Agents : b # a => slot'[b] = slot[b]
  BY DEF RInv, DataShape
<1>2. DataShape'
  BY <1>1 DEF RInv, DataShape
<1>3. \A b \in Local : Fades(slot[b], slot'[b])
  BY <1>1 DEF Local, Fades
<1> QED BY <1>2, <1>3, QuietStep

LEMMA LoopsInv ==
  ASSUME RInv, \/ \E t \in Tasks : StopRun(t)
               \/ \E a \in Agents : OperatorArms(a) \/ LoopResolves(a)
  PROVE  RInv'
<1>1. slot \in [Agents -> Loops] /\ gen \in Nat /\ "restarts" \in DOMAIN spent /\ spent.restarts \in Nat
  BY DEF RInv, DataShape
<1>2. ASSUME NEW e \in Loops
      PROVE  /\ Resolved(e) \in Loops /\ Fades(e, Resolved(e)) /\ Fades(e, e)
             /\ Armed(gen + 1, "operator") \in Loops /\ Fades(e, Armed(gen + 1, "operator"))
  <2>1. Resolved(e) \in Loops /\ Resolved(e).by = e.by /\ Resolved(e).gen = e.gen
        /\ Resolved(e).active = FALSE
    BY <1>2 DEF Loops, Resolved
  <2>2. Armed(gen + 1, "operator") \in Loops /\ Armed(gen + 1, "operator").by # "recurring"
    BY <1>1 DEF Loops, Armed
  <2>3. Fades(e, Resolved(e))
    BY <2>1, Zenon DEF Fades
  <2>4. Fades(e, e) /\ Fades(e, Armed(gen + 1, "operator"))
    BY <2>2, Zenon DEF Fades
  <2> QED BY <2>1, <2>2, <2>3, <2>4
<1>3. ASSUME NEW t \in Tasks, StopRun(t)
      PROVE  RInv'
  <2> DEFINE a == Agent[t]
             e == IF slot[a].active THEN Resolved(slot[a]) ELSE slot[a]
  <2>1. a \in Agents
    BY RecurringAssumption
  <2>2. slot' = [slot EXCEPT ![a] = e] /\ Act("stop") /\ UNCHANGED <<card, log, gen, reach, eng>>
    BY <1>3 DEF StopRun
  <2>3. e \in Loops /\ Fades(slot[a], e)
    BY <1>1, <1>2, <2>1
  <2> HIDE DEF e, a
  <2> QED BY <1>1, <2>1, <2>2, <2>3, ActShape, SlotStepInv
<1>4. ASSUME NEW a \in Agents, OperatorArms(a)
      PROVE  RInv'
  <2>1. /\ slot' = [slot EXCEPT ![a] = Armed(gen + 1, "operator")] /\ Act("arm") /\ gen' = gen + 1
        /\ UNCHANGED <<card, log, reach, eng>>
    BY <1>4 DEF OperatorArms
  <2> DEFINE e == Armed(gen + 1, "operator")
  <2>2. slot[a] \in Loops /\ e \in Loops /\ Fades(slot[a], e) /\ gen + 1 \in Nat
    BY <1>1, <1>2
  <2>3. slot' = [slot EXCEPT ![a] = e]
    BY <2>1
  <2> HIDE DEF e
  <2> QED BY <1>1, <2>1, <2>2, <2>3, ActShape, SlotStepInv
<1>5. ASSUME NEW a \in Agents, LoopResolves(a)
      PROVE  RInv'
  <2>1. slot' = [slot EXCEPT ![a] = Resolved(slot[a])] /\ UNCHANGED <<card, log, gen, reach, eng, spent>>
    BY <1>5 DEF LoopResolves
  <2> QED BY <1>1, <1>2, <2>1, SlotStepInv
<1> QED BY <1>3, <1>4, <1>5

\* Turns, the gate, peers, the clock, and the first half of a deletion.
LEMMA SurroundingsInv ==
  ASSUME RInv,
         \/ GateFlips \/ ClockTicks \/ UNCHANGED vars
         \/ \E t \in Tasks : DeleteLooks(t)
         \/ \E a \in Agents : TurnStarts(a) \/ TurnEnds(a) \/ PeerLeaves(a) \/ PeerReturns(a)
  PROVE  RInv'
<1>1. DOMAIN reach = Agents /\ \A a \in Local : reach[a]
  BY DEF RInv, DataShape
<1>2. "restarts" \in DOMAIN spent /\ spent.restarts \in Nat
  BY DEF RInv, DataShape
<1>3. UNCHANGED <<card, log, slot, gen, eng>>
  BY DEF GateFlips, ClockTicks, vars, DeleteLooks, TurnStarts, TurnEnds, PeerLeaves, PeerReturns
<1>4. "restarts" \in DOMAIN spent' /\ spent'.restarts \in Nat /\ spent'.restarts = spent.restarts
  BY <1>2, ActShape
  DEF GateFlips, ClockTicks, vars, DeleteLooks, TurnStarts, TurnEnds, PeerLeaves, PeerReturns
<1>5. DOMAIN reach' = Agents /\ \A a \in Local : reach'[a]
  BY <1>1
  DEF GateFlips, ClockTicks, vars, DeleteLooks, TurnStarts, TurnEnds, PeerLeaves, PeerReturns, Local
<1>6. DataShape'
  BY <1>3, <1>4, <1>5 DEF RInv, DataShape
<1> QED BY <1>3, <1>4, <1>6, SlotStays, QuietStep

\* The second half of a deletion: the card and its runs are gone.
LEMMA DeleteInv ==
  ASSUME RInv, NEW t \in Tasks, DeleteRemoves(t)
  PROVE  RInv'
<1>1. /\ card' = [card EXCEPT ![t] = Gone] /\ log' = [log EXCEPT ![t] = <<>>]
      /\ UNCHANGED <<slot, gen, reach, eng, spent>>
  BY DEF DeleteRemoves
<1>2. /\ DOMAIN card' = Tasks /\ card'[t] = Gone /\ DOMAIN log' = Tasks /\ log'[t] = <<>>
      /\ \A u \in Tasks : u # t => card'[u] = card[u] /\ log'[u] = log[u]
  BY <1>1 DEF RInv, DataShape
<1>3. "is" \in DOMAIN Gone /\ Gone.is = "deleted"
  BY DEF Gone, NoCard
<1>4. IsLog(<<>>) /\ DOMAIN <<>> = {}
  <2>1. <<>> \in Seq({})
    BY EmptySeq
  <2>2. DOMAIN <<>> = {}
    OBVIOUS
  <2> QED BY <2>1, <2>2 DEF IsLog
<1>5. EngShape'
  BY <1>1 DEF RInv, EngShape
<1>6. DataShape'
  BY <1>1, <1>2, <1>3, <1>4 DEF RInv, DataShape
<1>7. OneRunEach'
  BY <1>2, <1>4 DEF RInv, OneRunEach
<1>8. NotYetRunning'
  <2>1. eng.at \in Sending => eng.task \in Tasks
    BY DEF RInv, EngShape, Sending, AtWork
  <2> QED BY <1>1, <1>2, <1>4, <2>1 DEF RInv, NotYetRunning, Running
<1>9. ListedAreRunning'
  <2>1. \A u \in Tasks : ~Deleted(u)' => u # t /\ ~Deleted(u) /\ log'[u] = log[u]
    BY <1>2, <1>3 DEF Deleted
  <2>2. DOMAIN eng.runs \subseteq Tasks /\ (eng.at \in Closing => eng.task \in Tasks)
    BY DEF RInv, EngShape, Closing, AtWork
  <2>3. ASSUME NEW u \in DOMAIN eng.runs, ~Deleted(u)'
        PROVE  InLog(u, eng.runs[u])'
    BY <1>1, <2>1, <2>2, <2>3 DEF RInv, ListedAreRunning, InLog
  <2>4. ASSUME eng.at \in Closing, ~Deleted(eng.task)'
        PROVE  InLog(eng.task, eng.run)'
    <3>1. ~Deleted(eng.task) /\ log'[eng.task] = log[eng.task]
      BY <1>1, <2>1, <2>2, <2>4 DEF Deleted
    <3> QED BY <1>1, <2>4, <3>1 DEF RInv, ListedAreRunning, InLog
  <2> QED BY <1>1, <2>3, <2>4 DEF ListedAreRunning, Deleted
<1>10. SlotsAreLent'
  <2>1. ASSUME spent.restarts = 0, NEW u \in Tasks, Agent[u] \in Local, ~Deleted(u)'
        PROVE  Lent(u)'
    <3>1. u # t /\ ~Deleted(u) /\ log'[u] = log[u]
      BY <1>2, <1>3, <2>1 DEF Deleted
    <3>2. Lent(u)
      BY <2>1, <3>1 DEF RInv, SlotsAreLent
    <3> QED BY <1>1, <3>1, <3>2 DEF Lent, Borrowed, GivesBack
  <2> QED BY <1>1, <2>1 DEF RInv, SlotsAreLent
<1> QED BY <1>5, <1>6, <1>7, <1>8, <1>9, <1>10 DEF RInv

\* A kill: what the engine was doing is lost, the files stay.
LEMMA RestartInv ==
  ASSUME RInv, Restart
  PROVE  RInv'
<1>1. /\ eng' = Idle /\ UNCHANGED <<card, log, slot, gen, reach>>
      /\ spent' = [spent EXCEPT !.restarts = @ + 1]
  BY DEF Restart
<1>2. "restarts" \in DOMAIN spent' /\ spent'.restarts \in Nat /\ spent'.restarts # 0
  BY <1>1 DEF RInv, DataShape
<1>3. /\ DOMAIN Idle = EngFields /\ Idle.at = "idle" /\ DOMAIN Idle.runs = {} /\ Idle.todo = {}
  BY DEF Idle, Empty, EngFields
<1>4. EngShape'
  BY <1>1, <1>3 DEF EngShape, AtWork, Sending, Closing
<1>5. DataShape'
  BY <1>1, <1>2 DEF RInv, DataShape
<1>6. OneRunEach' /\ NotYetRunning' /\ ListedAreRunning'
  BY <1>1, <1>3 DEF RInv, OneRunEach, NotYetRunning, ListedAreRunning, Sending, Closing
<1>7. SlotsAreLent'
  BY <1>1, <1>2 DEF RInv, SlotsAreLent
<1> QED BY <1>4, <1>5, <1>6, <1>7 DEF RInv

-----------------------------------------------------------------------------
(* The engine: how its record looks after a step.                          *)

Resting == {"idle", "advancing", "pausing", "deciding", "marking"}

LEMMA IdleShape ==
  /\ DOMAIN Idle = EngFields /\ Idle.at = "idle" /\ DOMAIN Idle.runs = {} /\ Idle.todo = {}
BY DEF Idle, Empty, EngFields

LEMMA AtHandShape ==
  ASSUME EngShape, NEW at
  PROVE  /\ DOMAIN AtHand(at) = EngFields /\ AtHand(at).at = at
         /\ AtHand(at).runs = eng.runs /\ AtHand(at).todo = eng.todo
BY DEF EngShape, AtHand, EngFields

LEMMA Next1Shape ==
  ASSUME EngShape
  PROVE  /\ DOMAIN Next1 = EngFields /\ Next1.at \in {"idle", "deciding"}
         /\ \A t \in DOMAIN Next1.runs : t \in DOMAIN eng.runs /\ Next1.runs[t] = eng.runs[t]
         /\ Next1.todo \subseteq Tasks
<1> DEFINE h == AtHand("deciding")
           n == [h EXCEPT !.todo = @ \ {eng.task}]
<1>1. /\ DOMAIN h = EngFields /\ h.at = "deciding" /\ h.runs = eng.runs /\ h.todo = eng.todo
  BY AtHandShape
<1> HIDE DEF h
<1>2. DOMAIN n = EngFields /\ n.at = "deciding" /\ n.runs = eng.runs /\ n.todo \subseteq Tasks
  BY <1>1 DEF EngShape, EngFields
<1>3. Next1 = Idle \/ Next1 = n
  BY DEF Next1, h
<1> HIDE DEF n
<1>4. CASE Next1 = Idle
  BY <1>4, IdleShape
<1>5. CASE Next1 = n
  BY <1>2, <1>5
<1> QED BY <1>3, <1>4, <1>5

\* A step after which the engine holds no run that it is sending or closing.
LEMMA EngineRests ==
  ASSUME RInv, eng.at # "logging",
         DOMAIN eng' = EngFields, eng'.at \in Resting,
         eng'.at \in {"pausing", "marking"} => eng'.task \in Tasks,
         \A t \in DOMAIN eng'.runs : t \in DOMAIN eng.runs /\ eng'.runs[t] = eng.runs[t],
         eng'.todo \subseteq Tasks,
         DataShape',
         \A t \in Tasks : SameRunning(log[t], log'[t]),
         \A a \in Local : Fades(slot[a], slot'[a]),
         \A t \in Tasks : card'[t].is = "deleted" <=> card[t].is = "deleted",
         spent'.restarts = 0 => spent.restarts = 0
  PROVE  RInv'
<1>1. eng'.at \notin Sending /\ eng'.at \notin Closing
  BY DEF Resting, Sending, Closing
<1>2. EngShape'
  <2>1. DOMAIN eng'.runs \subseteq Tasks /\ \A t \in DOMAIN eng'.runs : IsRun(eng'.runs[t])
    BY DEF RInv, EngShape
  <2>2. eng'.at \in AtWork => eng'.task \in Tasks
    BY DEF Resting, AtWork
  <2>3. eng'.at \in AtWork \cup {"idle", "advancing", "deciding"} /\ eng'.at # "handing"
    BY DEF Resting, AtWork
  <2> QED BY <1>1, <2>1, <2>2, <2>3 DEF EngShape
<1> QED BY <1>1, <1>2, MildStep

\* The frame of an engine step that touches no more than cards and logs.
LEMMA EngineFrame ==
  ASSUME RInv, UNCHANGED <<slot, gen, reach, spent>>,
         DOMAIN card' = Tasks, \A t \in Tasks : "is" \in DOMAIN card'[t],
         DOMAIN log' = Tasks, \A t \in Tasks : IsLog(log'[t])
  PROVE  DataShape' /\ \A a \in Local : Fades(slot[a], slot'[a])
<1>1. DataShape'
  BY DEF RInv, DataShape
<1> QED BY <1>1, SlotStays

LEMMA SameData ==
  ASSUME RInv, UNCHANGED <<card, log, slot, gen, reach, spent>>
  PROVE  /\ DataShape' /\ \A a \in Local : Fades(slot[a], slot'[a])
         /\ \A t \in Tasks : SameRunning(log[t], log'[t])
         /\ \A t \in Tasks : card'[t].is = "deleted" <=> card[t].is = "deleted"
         /\ spent'.restarts = 0 => spent.restarts = 0
<1>1. DataShape'
  BY DEF RInv, DataShape
<1>2. \A t \in Tasks : SameRunning(log[t], log'[t])
  BY DEF SameRunning
<1> QED BY <1>1, <1>2, SlotStays

\* A run that is over, or never was, joins a log.
LEMMA OverIsLogged ==
  ASSUME RInv, NEW t \in Tasks, NEW r, IsRun(r), ~IsRunning(r),
         log' = [log EXCEPT ![t] = Append(@, r)]
  PROVE  DOMAIN log' = Tasks /\ \A u \in Tasks : IsLog(log'[u]) /\ SameRunning(log[u], log'[u])
<1>1. /\ DOMAIN log' = Tasks /\ log'[t] = Append(log[t], r)
      /\ \A u \in Tasks : u # t => log'[u] = log[u]
  BY DEF RInv, DataShape
<1>2. \A u \in Tasks : IsLog(log[u])
  BY DEF RInv, DataShape
<1> DEFINE l == log[t]
           m == Append(l, r)
<1>3. /\ IsLog(m) /\ Len(l) \in Nat /\ DOMAIN l = 1..Len(l) /\ DOMAIN m = 1..(Len(l) + 1)
      /\ \A i \in DOMAIN l : m[i] = l[i]
      /\ m[Len(l) + 1] = r
  BY <1>2, AppendRun
<1> HIDE DEF m
<1>4. SameRunning(l, m)
  <2>1. \A i \in DOMAIN m : i \in DOMAIN l \/ i = Len(l) + 1
    BY <1>3
  <2>2. \A i \in DOMAIN l : i \in DOMAIN m
    BY <1>3
  <2> QED BY <1>3, <2>1, <2>2 DEF SameRunning
<1>5. \A u \in Tasks : SameRunning(log[u], log[u])
  BY DEF SameRunning
<1> QED BY <1>1, <1>2, <1>3, <1>4, <1>5 DEF m

\* An arming that is refused.
LEMMA RefuseInv ==
  ASSUME RInv, eng.at \in {"arming", "starting"}, Refuse, UNCHANGED <<card, reach>>,
         slot' \in [Agents -> Loops], gen' \in Nat, \A a \in Local : Fades(slot[a], slot'[a]),
         "restarts" \in DOMAIN spent', spent'.restarts \in Nat, spent'.restarts = spent.restarts
  PROVE  RInv'
<1> DEFINE r == Closed(eng.run, "refused")
<1>1. eng.task \in Tasks /\ IsRun(eng.run)
  BY DEF RInv, EngShape, AtWork, Sending
<1>2. IsRun(r) /\ ~IsRunning(r)
  BY <1>1, ClosedIsRun
<1>3. log' = [log EXCEPT ![eng.task] = Append(@, r)] /\ eng' = [eng EXCEPT !.at = "pausing"]
  BY DEF Refuse
<1> HIDE DEF r
<1>4. DOMAIN log' = Tasks /\ \A u \in Tasks : IsLog(log'[u]) /\ SameRunning(log[u], log'[u])
  BY <1>1, <1>2, <1>3, OverIsLogged
<1>5. DataShape'
  BY <1>4 DEF RInv, DataShape
<1>6. /\ DOMAIN eng' = EngFields /\ eng'.at = "pausing" /\ eng'.task = eng.task
      /\ eng'.runs = eng.runs /\ eng'.todo = eng.todo /\ eng.todo \subseteq Tasks
  BY <1>3 DEF RInv, EngShape, EngFields
<1> QED BY <1>1, <1>4, <1>5, <1>6, EngineRests DEF Resting

-----------------------------------------------------------------------------
(* The steps after which nothing is being sent or closed.                  *)

LEMMA WaitInv ==
  ASSUME RInv, NEW t \in Tasks, Advance(t), eng'.at = "advancing"
  PROVE  RInv'
<1> DEFINE rest == [u \in DOMAIN eng.runs \ {t} |-> eng.runs[u]]
<1>1. eng.at = "advancing" /\ UNCHANGED <<card, log, slot, gen, reach, spent>>
  BY DEF Advance
<1>2. DOMAIN eng = EngFields /\ eng.todo \subseteq Tasks
  BY DEF RInv, EngShape
<1>3. eng' = [eng EXCEPT !.runs = rest]
  <2>1. ASSUME NEW c, eng' = [eng EXCEPT !.runs = rest, !.task = t, !.run = eng.runs[t], !.closed = c,
                                         !.at = IF HandsBack(t, eng.runs[t]) THEN "handing" ELSE "closing"]
        PROVE  FALSE
    BY <1>2, <2>1 DEF EngFields
  <2> QED BY <2>1 DEF Advance
<1>4. /\ DOMAIN eng' = EngFields /\ eng'.runs = rest /\ eng'.todo = eng.todo
  BY <1>2, <1>3 DEF EngFields
<1>5. \A u \in DOMAIN rest : u \in DOMAIN eng.runs /\ rest[u] = eng.runs[u]
  OBVIOUS
<1> HIDE DEF rest
<1> QED BY <1>1, <1>2, <1>4, <1>5, SameData, EngineRests DEF Resting

LEMMA ListingsInv ==
  ASSUME RInv, ListCards \/ TickEnds
  PROVE  RInv'
<1>1. DOMAIN eng = EngFields /\ eng.at # "logging" /\ UNCHANGED <<card, log, slot, gen, reach, spent>>
  BY DEF RInv, EngShape, ListCards, TickEnds
<1>2. CASE ListCards
  <2>1. eng' = [eng EXCEPT !.at = "deciding", !.cards = card, !.todo = {t \in Tasks : Here(t)}]
    BY <1>2 DEF ListCards
  <2>2. DOMAIN eng' = EngFields /\ eng'.at = "deciding" /\ eng'.runs = eng.runs /\ eng'.todo \subseteq Tasks
    BY <1>1, <2>1 DEF EngFields
  <2> QED BY <1>1, <2>2, SameData, EngineRests DEF Resting
<1>3. CASE TickEnds
  <2>1. eng' = Idle
    BY <1>3 DEF TickEnds
  <2> QED BY <1>1, <2>1, IdleShape, SameData, EngineRests DEF Resting
<1> QED BY <1>2, <1>3

\* A card that pauses itself, and a card whose occurrence is behind it.
LEMMA CardStepInv ==
  ASSUME RInv, PauseIfFailing \/ MarkHandled
  PROVE  RInv'
<1> DEFINE t == eng.task
<1>1. /\ DOMAIN eng = EngFields /\ eng.at \in {"pausing", "marking"} /\ t \in Tasks
      /\ UNCHANGED <<log, slot, gen, reach, spent>> /\ EngShape
  BY DEF RInv, EngShape, PauseIfFailing, MarkHandled, AtWork
<1>2. PICK c : /\ card' = [card EXCEPT ![t] = c]
               /\ "is" \in DOMAIN c /\ c.is = card[t].is
  <2>1. "is" \in DOMAIN card[t]
    BY <1>1 DEF RInv, DataShape
  <2>2. CASE PauseIfFailing
    <3> DEFINE c == IF ShouldAutoPause(log[t]) THEN Paused(card[t], "auto") ELSE card[t]
    <3>1. card' = [card EXCEPT ![t] = c]
      BY <2>2 DEF PauseIfFailing
    <3>2. "is" \in DOMAIN c /\ c.is = card[t].is
      BY <2>1 DEF Paused
    <3> HIDE DEF c
    <3> QED BY <3>1, <3>2
  <2>3. CASE MarkHandled
    <3> DEFINE c == Handled(card[t], eng.run)
    <3>1. card' = [card EXCEPT ![t] = c]
      BY <2>3 DEF MarkHandled
    <3>2. "is" \in DOMAIN c /\ c.is = card[t].is
      BY <2>1 DEF Handled
    <3> HIDE DEF c
    <3> QED BY <3>1, <3>2
  <2> QED BY <2>2, <2>3
<1>3. /\ DOMAIN card' = Tasks /\ \A u \in Tasks : "is" \in DOMAIN card'[u]
      /\ \A u \in Tasks : card'[u].is = "deleted" <=> card[u].is = "deleted"
  BY <1>1, <1>2 DEF RInv, DataShape
<1>4. DataShape' /\ \A a \in Local : Fades(slot[a], slot'[a])
  BY <1>1, <1>3, EngineFrame DEF RInv, DataShape
<1>5. \A u \in Tasks : SameRunning(log[u], log'[u])
  BY <1>1 DEF SameRunning
<1>6. /\ DOMAIN eng' = EngFields /\ eng'.at \in Resting
      /\ eng'.at \in {"pausing", "marking"} => eng'.task \in Tasks
      /\ \A u \in DOMAIN eng'.runs : u \in DOMAIN eng.runs /\ eng'.runs[u] = eng.runs[u]
      /\ eng'.todo \subseteq Tasks
  <2>1. CASE PauseIfFailing
    <3>1. eng' = [eng EXCEPT !.at = "marking"] \/ eng' = AtHand("advancing")
      BY <2>1 DEF PauseIfFailing
    <3>2. CASE eng' = [eng EXCEPT !.at = "marking"]
      BY <1>1, <3>2 DEF EngShape, EngFields, Resting
    <3>3. CASE eng' = AtHand("advancing")
      <4>1. /\ DOMAIN AtHand("advancing") = EngFields /\ AtHand("advancing").at = "advancing"
            /\ AtHand("advancing").runs = eng.runs /\ AtHand("advancing").todo = eng.todo
        BY <1>1, AtHandShape
      <4> QED BY <1>1, <3>3, <4>1 DEF EngShape, Resting
    <3> QED BY <3>1, <3>2, <3>3
  <2>2. CASE MarkHandled
    <3>1. eng' = Next1
      BY <2>2 DEF MarkHandled
    <3> QED BY <1>1, <3>1, Next1Shape DEF Resting
  <2> QED BY <2>1, <2>2
<1> QED BY <1>1, <1>3, <1>4, <1>5, <1>6, EngineRests

-----------------------------------------------------------------------------
(* Arming and recording.                                                   *)

\* A step of the engine that leaves cards, logs and slots alone and is after it about to send.
LEMMA SendingStep ==
  ASSUME RInv, eng.at # "logging", UNCHANGED <<card, log, slot, gen, reach>>,
         "restarts" \in DOMAIN spent', spent'.restarts \in Nat, spent'.restarts = spent.restarts,
         DOMAIN eng' = EngFields, eng'.at \in Sending, eng'.task \in Tasks,
         IsRun(eng'.run), IsRunning(eng'.run), ~Running(eng'.task),
         \A t \in DOMAIN eng'.runs : t \in DOMAIN eng.runs /\ eng'.runs[t] = eng.runs[t],
         eng'.todo \subseteq Tasks,
         (eng'.at = "starting" /\ Agent[eng'.task] \in Local) =>
           eng'.run.mode = "goal" /\ eng'.run.snap = slot[Agent[eng'.task]]
  PROVE  RInv'
<1>1. eng'.at \notin Closing
  BY DEF Sending, Closing
<1>2. EngShape'
  <2>1. DOMAIN eng'.runs \subseteq Tasks /\ \A t \in DOMAIN eng'.runs : IsRun(eng'.runs[t])
    BY DEF RInv, EngShape
  <2>2. eng'.at \in AtWork \cup {"idle", "advancing", "deciding"} /\ eng'.at # "handing"
    BY DEF Sending, AtWork
  <2> QED BY <1>1, <2>1, <2>2 DEF EngShape
<1>3. DataShape'
  BY DEF RInv, DataShape
<1>4. OneRunEach' /\ NotYetRunning'
  BY DEF RInv, OneRunEach, NotYetRunning, Running
<1>5. ListedAreRunning'
  BY <1>1 DEF RInv, ListedAreRunning, Deleted, InLog
<1>6. SlotsAreLent'
  <2>1. \A a \in Local : slot'[a].by = "recurring" => \E t \in Tasks : Agent[t] = a
    BY DEF RInv, SlotsAreLent
  <2>2. ASSUME spent'.restarts = 0, NEW t \in Tasks, Agent[t] \in Local, ~Deleted(t)'
        PROVE  Lent(t)'
    <3>1. Lent(t)
      BY <2>2 DEF RInv, SlotsAreLent, Deleted
    <3>2. Borrowed(t) => \E i \in DOMAIN log[t] : IsRunning(log[t][i]) /\ GivesBack(t, log[t][i])
      BY <3>1 DEF Lent
    <3>3. Borrowed(t)' => \E i \in DOMAIN log'[t] : IsRunning(log'[t][i]) /\ GivesBack(t, log[t][i])'
      BY <3>2 DEF Borrowed, GivesBack
    <3>4. ASSUME eng'.task = t, eng'.at = "starting"
          PROVE  /\ eng'.run.mode = "goal" /\ eng'.run.snap \in Loops /\ eng'.run.snap.by # "recurring"
      <4>1. ~Running(t) /\ Agent[t] \in Agents /\ slot[Agent[t]] \in Loops
        BY <2>2, <3>4 DEF RInv, DataShape, Local
      <4>2. ~Borrowed(t)
        BY <3>2, <4>1 DEF Running
      <4> QED BY <2>2, <3>4, <4>1, <4>2 DEF Borrowed
    <3> QED BY <1>1, <3>3, <3>4 DEF Lent, Closing
  <2> QED BY <2>1, <2>2 DEF SlotsAreLent
<1> QED BY <1>2, <1>3, <1>4, <1>5, <1>6 DEF RInv

LEMMA RunNowInv ==
  ASSUME RInv, NEW t \in Tasks, RunNow(t)
  PROVE  RInv'
<1> DEFINE r == ManualRun(card[t], now)
           e == [Idle EXCEPT !.at = "arming", !.now = now, !.manual = TRUE, !.task = t, !.run = r]
<1>1. /\ Act("run") /\ eng.at = "idle" /\ ~Running(t) /\ eng' = e
      /\ UNCHANGED <<card, log, slot, gen, reach>>
  BY DEF RunNow
<1>2. IsRun(r) /\ IsRunning(r)
  BY NewIsRun DEF ManualRun
<1> HIDE DEF r
<1>3. /\ DOMAIN e = EngFields /\ e.at = "arming" /\ e.task = t /\ e.run = r
      /\ e.runs = Idle.runs /\ e.todo = Idle.todo
  BY IdleShape DEF EngFields
<1> HIDE DEF e
<1>4. DOMAIN eng'.runs = {} /\ eng'.todo \subseteq Tasks
  BY <1>1, <1>3, IdleShape
<1> QED BY <1>1, <1>2, <1>3, <1>4, ActShape, SendingStep DEF Sending

LEMMA DecideInv ==
  ASSUME RInv, NEW t \in Tasks, DecideCard(t)
  PROVE  RInv'
<1> DEFINE r == Occurrence(eng.cards[t], eng.now)
           done == [eng EXCEPT !.todo = @ \ {t}]
           arm == [eng EXCEPT !.at = "arming", !.task = t, !.run = r]
<1>1. /\ DOMAIN eng = EngFields /\ eng.at = "deciding" /\ eng.todo \subseteq Tasks
      /\ UNCHANGED <<card, slot, gen, reach, spent>>
  BY DEF RInv, EngShape, DecideCard
<1>2. \/ RecordNotArmed(t, r, "skipped") \/ RecordNotArmed(t, r, "refused")
      \/ ~Running(t) /\ eng' = arm /\ UNCHANGED log
      \/ eng' = done /\ UNCHANGED log
  BY DEF DecideCard
<1>3. IsRun(r) /\ IsRunning(r)
  BY NewIsRun DEF Occurrence
<1> HIDE DEF r
<1>4. ASSUME NEW status \in {"skipped", "refused"}, RecordNotArmed(t, r, status)
      PROVE  RInv'
  <2> DEFINE c == Closed(r, status)
  <2>1. IsRun(c) /\ ~IsRunning(c)
    BY <1>3, ClosedIsRun
  <2>2. /\ log' = [log EXCEPT ![t] = Append(@, c)]
        /\ eng' = [eng EXCEPT !.at = IF status = "refused" THEN "pausing" ELSE "marking", !.task = t, !.run = r]
    BY <1>4 DEF RecordNotArmed
  <2> HIDE DEF c
  <2>3. DOMAIN log' = Tasks /\ \A u \in Tasks : IsLog(log'[u]) /\ SameRunning(log[u], log'[u])
    BY <2>1, <2>2, OverIsLogged
  <2>4. DataShape' /\ \A a \in Local : Fades(slot[a], slot'[a])
    BY <1>1, <2>3, EngineFrame DEF RInv, DataShape
  <2>5. /\ DOMAIN eng' = EngFields /\ eng'.at \in Resting /\ eng'.task = t
        /\ eng'.runs = eng.runs /\ eng'.todo = eng.todo
    BY <1>1, <2>2 DEF EngFields, Resting
  <2> QED BY <1>1, <2>3, <2>4, <2>5, EngineRests
<1>5. CASE ~Running(t) /\ eng' = arm /\ UNCHANGED log
  <2>1. /\ DOMAIN arm = EngFields /\ arm.at = "arming" /\ arm.task = t /\ arm.run = r
        /\ arm.runs = eng.runs /\ arm.todo = eng.todo
    BY <1>1 DEF EngFields
  <2> HIDE DEF arm
  <2>2. "restarts" \in DOMAIN spent' /\ spent'.restarts \in Nat /\ spent'.restarts = spent.restarts
    BY <1>1 DEF RInv, DataShape
  <2> QED BY <1>1, <1>3, <1>5, <2>1, <2>2, SendingStep DEF Sending
<1>6. CASE eng' = done /\ UNCHANGED log
  <2>1. DOMAIN done = EngFields /\ done.at = "deciding" /\ done.runs = eng.runs /\ done.todo \subseteq Tasks
    BY <1>1 DEF EngFields
  <2> HIDE DEF done
  <2> QED BY <1>1, <1>6, <2>1, SameData, EngineRests DEF Resting
<1> QED BY <1>2, <1>4, <1>5, <1>6

\* The card at hand is passed over.
LEMMA PassOverInv ==
  ASSUME RInv, eng.at \in {"arming", "starting"}, eng' = Next1,
         UNCHANGED <<card, log, slot, gen, reach, spent>>
  PROVE  RInv'
<1>1. EngShape
  BY DEF RInv
<1> QED BY <1>1, Next1Shape, SameData, EngineRests DEF Resting

LEMMA BorrowInv ==
  ASSUME RInv, BorrowSlot
  PROVE  RInv'
<1> DEFINE a == Agent[eng.task]
           lend == [eng EXCEPT !.at = "starting", !.run.snap = slot[a]]
           ask == [eng EXCEPT !.at = "starting"]
<1>1. /\ eng.at = "arming" /\ eng.run.mode = "goal" /\ UNCHANGED <<card, slot, gen, reach, spent>>
      /\ \/ Refuse
         \/ eng' = Next1 /\ UNCHANGED log
         \/ a \in Local /\ eng' = lend /\ UNCHANGED log
         \/ a \in Remote /\ eng' = ask /\ UNCHANGED log
  BY DEF BorrowSlot
<1>2. /\ DOMAIN eng = EngFields /\ eng.task \in Tasks /\ eng.todo \subseteq Tasks
      /\ IsRun(eng.run) /\ IsRunning(eng.run) /\ ~Running(eng.task)
  BY <1>1 DEF RInv, EngShape, NotYetRunning, AtWork, Sending
<1>3. a \in Agents /\ slot[a] \in Loops
  BY <1>2, RecurringAssumption DEF RInv, DataShape
<1>4. "restarts" \in DOMAIN spent' /\ spent'.restarts \in Nat /\ spent'.restarts = spent.restarts
  BY <1>1 DEF RInv, DataShape
<1>5. CASE Refuse
  <2>1. slot' \in [Agents -> Loops] /\ gen' \in Nat /\ \A b \in Local : Fades(slot[b], slot'[b])
    BY <1>1, SlotStays DEF RInv, DataShape
  <2> QED BY <1>1, <1>4, <1>5, <2>1, RefuseInv
<1>6. CASE eng' = Next1 /\ UNCHANGED log
  BY <1>1, <1>6, PassOverInv
<1>7. CASE a \in Local /\ eng' = lend /\ UNCHANGED log
  <2> DEFINE r == [eng.run EXCEPT !.snap = slot[a]]
  <2>1. IsRun(r) /\ IsRunning(r) /\ r.mode = "goal" /\ r.snap = slot[a]
    BY <1>1, <1>2, <1>3 DEF IsRun, IsRunning, RunFields
  <2>2. /\ DOMAIN lend = EngFields /\ lend.at = "starting" /\ lend.task = eng.task /\ lend.run = r
        /\ lend.runs = eng.runs /\ lend.todo = eng.todo
    BY <1>2 DEF EngFields
  <2> HIDE DEF lend, r
  <2> QED BY <1>1, <1>2, <1>4, <1>7, <2>1, <2>2, SendingStep DEF Sending
<1>8. CASE a \in Remote /\ eng' = ask /\ UNCHANGED log
  <2>1. /\ DOMAIN ask = EngFields /\ ask.at = "starting" /\ ask.task = eng.task /\ ask.run = eng.run
        /\ ask.runs = eng.runs /\ ask.todo = eng.todo
    BY <1>2 DEF EngFields
  <2>2. a \notin Local
    BY <1>8 DEF Local
  <2> HIDE DEF ask
  <2> QED BY <1>1, <1>2, <1>4, <1>8, <2>1, <2>2, SendingStep DEF Sending
<1> QED BY <1>1, <1>5, <1>6, <1>7, <1>8

LEMMA SendOnceInv ==
  ASSUME RInv, SendOnce
  PROVE  RInv'
<1> DEFINE sent == [eng EXCEPT !.at = "logging"]
<1>1. /\ eng.at = "arming" /\ UNCHANGED <<card, slot, gen, reach, spent>>
      /\ \/ Refuse
         \/ eng' = Next1 /\ UNCHANGED log
         \/ eng' = sent /\ UNCHANGED log
  BY DEF SendOnce
<1>2. /\ DOMAIN eng = EngFields /\ eng.task \in Tasks /\ eng.todo \subseteq Tasks
      /\ IsRun(eng.run) /\ IsRunning(eng.run) /\ ~Running(eng.task)
  BY <1>1 DEF RInv, EngShape, NotYetRunning, AtWork, Sending
<1>4. "restarts" \in DOMAIN spent' /\ spent'.restarts \in Nat /\ spent'.restarts = spent.restarts
  BY <1>1 DEF RInv, DataShape
<1>5. CASE Refuse
  <2>1. slot' \in [Agents -> Loops] /\ gen' \in Nat /\ \A b \in Local : Fades(slot[b], slot'[b])
    BY <1>1, SlotStays DEF RInv, DataShape
  <2> QED BY <1>1, <1>4, <1>5, <2>1, RefuseInv
<1>6. CASE eng' = Next1 /\ UNCHANGED log
  BY <1>1, <1>6, PassOverInv
<1>7. CASE eng' = sent /\ UNCHANGED log
  <2>1. /\ DOMAIN sent = EngFields /\ sent.at = "logging" /\ sent.task = eng.task /\ sent.run = eng.run
        /\ sent.runs = eng.runs /\ sent.todo = eng.todo
    BY <1>2 DEF EngFields
  <2> HIDE DEF sent
  <2> QED BY <1>1, <1>2, <1>4, <1>7, <2>1, SendingStep DEF Sending
<1> QED BY <1>1, <1>5, <1>6, <1>7

\* A peer that does not answer, and a peer that arms while its answer is lost.
LEMMA PeerInv ==
  ASSUME RInv, PeerGone \/ AnswerLost
  PROVE  RInv'
<1>1. slot \in [Agents -> Loops] /\ gen \in Nat /\ "restarts" \in DOMAIN spent /\ spent.restarts \in Nat
  BY DEF RInv, DataShape
<1>2. CASE PeerGone
  <2>1. eng.at \in {"arming", "starting"} /\ Refuse /\ UNCHANGED <<card, slot, gen, reach, spent>>
    BY <1>2 DEF PeerGone
  <2> QED BY <1>1, <2>1, SlotStays, RefuseInv
<1>3. CASE AnswerLost
  <2> DEFINE a == Agent[eng.task]
             e == Armed(gen + 1, "recurring")
  <2>1. /\ eng.at = "starting" /\ a \in Remote /\ Refuse /\ UNCHANGED <<card, reach>>
        /\ gen' = gen + 1 /\ slot' = [slot EXCEPT ![a] = e]
        /\ spent' = [spent EXCEPT !.outages = @ + 1]
    BY <1>3 DEF AnswerLost
  <2>2. e \in Loops
    BY <1>1 DEF Loops, Armed
  <2> HIDE DEF e
  <2>3. slot' \in [Agents -> Loops] /\ \A b \in Local : slot'[b] = slot[b]
    BY <1>1, <2>1, <2>2 DEF Local
  <2>4. \A b \in Local : Fades(slot[b], slot'[b])
    BY <2>3, SlotStays
  <2>5. "restarts" \in DOMAIN spent' /\ spent'.restarts \in Nat /\ spent'.restarts = spent.restarts
    BY <1>1, <2>1
  <2>6. gen' \in Nat
    BY <1>1, <2>1
  <2> QED BY <2>1, <2>3, <2>4, <2>5, <2>6, RefuseInv
<1> QED BY <1>2, <1>3

\* Arming: the loop in the slot is now the one of the run at hand.
LEMMA StartInv ==
  ASSUME RInv, OneCardEach, StartLoop
  PROVE  RInv'
<1> DEFINE w == eng.task
           a == Agent[w]
           e == Armed(gen + 1, "recurring")
           r == [eng.run EXCEPT !.loop = gen + 1]
<1>1. /\ eng.at = "starting" /\ gen' = gen + 1 /\ slot' = [slot EXCEPT ![a] = e]
      /\ eng' = [eng EXCEPT !.at = "logging", !.run.loop = gen + 1]
      /\ UNCHANGED <<card, log, reach, spent>>
  BY DEF StartLoop
<1>2. /\ DOMAIN eng = EngFields /\ w \in Tasks /\ eng.todo \subseteq Tasks
      /\ IsRun(eng.run) /\ IsRunning(eng.run) /\ ~Running(w)
  BY <1>1 DEF RInv, EngShape, NotYetRunning, AtWork, Sending
<1>3. a \in Agents /\ slot \in [Agents -> Loops] /\ gen \in Nat
  BY <1>2, RecurringAssumption DEF RInv, DataShape
<1>4. e \in Loops /\ e.gen = gen + 1
  BY <1>3 DEF Loops, Armed
<1>5. IsRun(r) /\ IsRunning(r) /\ r.mode = eng.run.mode /\ r.snap = eng.run.snap /\ r.loop = gen + 1
  BY <1>2 DEF IsRun, IsRunning, RunFields
<1>6. /\ DOMAIN eng' = EngFields /\ eng'.at = "logging" /\ eng'.task = w /\ eng'.run = r
      /\ eng'.runs = eng.runs /\ eng'.todo = eng.todo
  BY <1>1, <1>2 DEF EngFields
<1>7. slot' \in [Agents -> Loops] /\ slot'[a] = e /\ \A b \in Agents : b # a => slot'[b] = slot[b]
  BY <1>1, <1>3, <1>4
<1> HIDE DEF r, e
<1>8. EngShape'
  BY <1>2, <1>5, <1>6 DEF RInv, EngShape, AtWork, Sending, Closing
<1>9. DataShape'
  BY <1>1, <1>3, <1>7 DEF RInv, DataShape
<1>10. OneRunEach' /\ NotYetRunning' /\ ListedAreRunning'
  <2>1. OneRunEach'
    BY <1>1 DEF RInv, OneRunEach
  <2>2. NotYetRunning'
    BY <1>1, <1>2, <1>6 DEF NotYetRunning, Running
  <2>3. ListedAreRunning'
    BY <1>1, <1>6 DEF RInv, ListedAreRunning, Deleted, InLog, Closing
  <2> QED BY <2>1, <2>2, <2>3
<1>11. SlotsAreLent'
  <2>1. ASSUME NEW b \in Local, slot'[b].by = "recurring"
        PROVE  \E t \in Tasks : Agent[t] = b
    <3>1. CASE b = a
      BY <1>2, <3>1
    <3>2. CASE b # a
      BY <1>7, <2>1, <3>2 DEF RInv, SlotsAreLent, Local
    <3> QED BY <3>1, <3>2
  <2>2. ASSUME spent.restarts = 0, NEW t \in Tasks, Agent[t] \in Local, ~Deleted(t)'
        PROVE  Lent(t)'
    <3>1. Lent(t)
      BY <1>1, <2>2 DEF RInv, SlotsAreLent, Deleted
    <3>2. CASE t = w
      <4>1. r.mode = "goal" /\ r.snap \in Loops /\ r.snap.by # "recurring" /\ r.loop = slot'[a].gen
        BY <1>1, <1>4, <1>5, <1>7, <3>1, <3>2 DEF Lent
      <4>2. GivesBack(t, eng.run)'
        BY <1>6, <3>2, <4>1 DEF GivesBack
      <4> QED BY <1>6, <3>2, <4>2 DEF Lent
    <3>3. CASE t # w
      <4>1. slot'[Agent[t]] = slot[Agent[t]]
        BY <1>2, <1>7, <2>2, <3>3 DEF OneCardEach, Local
      <4>2. Borrowed(t) => \E i \in DOMAIN log[t] : IsRunning(log[t][i]) /\ GivesBack(t, log[t][i])
        BY <1>1, <3>1 DEF Lent
      <4>3. Borrowed(t)' => \E i \in DOMAIN log'[t] : IsRunning(log'[t][i]) /\ GivesBack(t, log[t][i])'
        BY <1>1, <4>1, <4>2 DEF Borrowed, GivesBack
      <4> QED BY <1>6, <3>3, <4>3 DEF Lent
    <3> QED BY <3>2, <3>3
  <2> QED BY <1>1, <2>1, <2>2 DEF SlotsAreLent
<1> QED BY <1>8, <1>9, <1>10, <1>11 DEF RInv

\* The record of the run that was just sent.
LEMMA LogRunInv ==
  ASSUME RInv, LogRun
  PROVE  RInv'
<1> DEFINE w == eng.task
           r == eng.run
           l == log[w]
           m == Append(l, r)
<1>1. /\ eng.at = "logging" /\ log' = [log EXCEPT ![w] = m] /\ eng' = [eng EXCEPT !.at = "marking"]
      /\ UNCHANGED <<card, slot, gen, reach, spent>>
  BY DEF LogRun
<1>2. /\ DOMAIN eng = EngFields /\ w \in Tasks /\ eng.todo \subseteq Tasks
      /\ IsRun(r) /\ IsRunning(r) /\ ~Running(w)
  BY <1>1 DEF RInv, EngShape, NotYetRunning, AtWork, Sending
<1>3. IsLog(l)
  BY <1>2 DEF RInv, DataShape
<1>4. /\ IsLog(m) /\ Len(l) \in Nat /\ DOMAIN l = 1..Len(l) /\ DOMAIN m = 1..(Len(l) + 1)
      /\ \A i \in DOMAIN l : m[i] = l[i]
      /\ m[Len(l) + 1] = r
  BY <1>2, <1>3, AppendRun
<1> HIDE DEF m
<1>5. DOMAIN log' = Tasks /\ log'[w] = m /\ \A u \in Tasks : u # w => log'[u] = log[u]
  BY <1>1, <1>2 DEF RInv, DataShape
<1>6. /\ DOMAIN eng' = EngFields /\ eng'.at = "marking" /\ eng'.task = w /\ eng'.run = r
      /\ eng'.runs = eng.runs /\ eng'.todo = eng.todo
  BY <1>1, <1>2 DEF EngFields
<1>7. EngShape'
  BY <1>2, <1>6 DEF RInv, EngShape, AtWork, Sending, Closing
<1>8. DataShape'
  BY <1>1, <1>4, <1>5 DEF RInv, DataShape
<1>9. \A i \in DOMAIN m : i \in DOMAIN l \/ i = Len(l) + 1
  BY <1>4
<1>10. \A i \in DOMAIN l : i \in DOMAIN m /\ m[i] = l[i] /\ ~IsRunning(l[i])
  BY <1>2, <1>4 DEF Running
<1>11. Len(l) + 1 \in DOMAIN m
  BY <1>4
<1> HIDE DEF l
<1>12. OneRunEach'
  <2>1. \A i, j \in DOMAIN m : IsRunning(m[i]) /\ IsRunning(m[j]) => i = j
    BY <1>9, <1>10
  <2> QED BY <1>5, <2>1 DEF RInv, OneRunEach
<1>13. NotYetRunning' /\ ListedAreRunning'
  <2>1. ASSUME NEW t \in DOMAIN eng.runs, ~Deleted(t)
        PROVE  InLog(t, eng.runs[t])'
    <3>1. InLog(t, eng.runs[t]) /\ t \in Tasks
      BY <2>1 DEF RInv, ListedAreRunning, EngShape
    <3>2. t # w
      BY <1>10, <3>1 DEF InLog, l
    <3> QED BY <1>5, <1>6, <3>1, <3>2 DEF InLog
  <2>2. NotYetRunning'
    BY <1>6 DEF NotYetRunning, Sending
  <2>3. ListedAreRunning'
    BY <1>1, <1>6, <2>1 DEF ListedAreRunning, Deleted, InLog, Closing
  <2> QED BY <2>2, <2>3
<1>14. SlotsAreLent'
  <2>1. ASSUME spent.restarts = 0, NEW t \in Tasks, Agent[t] \in Local, ~Deleted(t)'
        PROVE  Lent(t)'
    <3>1. Lent(t)
      BY <1>1, <2>1 DEF RInv, SlotsAreLent, Deleted
    <3>2. CASE t = w
      <4>1. Borrowed(t) => GivesBack(t, r)
        BY <1>10, <3>1, <3>2 DEF Lent, l
      <4>2. Borrowed(t)' => GivesBack(t, r)'
        BY <1>1, <1>6, <4>1 DEF Borrowed, GivesBack
      <4>3. log'[t] = m /\ Len(l) + 1 \in DOMAIN m /\ m[Len(l) + 1] = r /\ IsRunning(r) /\ r' = r
        BY <1>2, <1>4, <1>5, <1>6, <1>11, <3>2
      <4>4. Borrowed(t)' => \E i \in DOMAIN log'[t] : IsRunning(log'[t][i]) /\ GivesBack(t, log[t][i])'
        BY <1>1, <4>2, <4>3 DEF GivesBack
      <4> QED BY <1>6, <4>4 DEF Lent
    <3>3. CASE t # w
      <4>1. Borrowed(t)' => \E i \in DOMAIN log'[t] : IsRunning(log'[t][i]) /\ GivesBack(t, log[t][i])'
        BY <1>1, <1>5, <3>1, <3>3 DEF Lent, Borrowed, GivesBack
      <4> QED BY <1>6, <4>1 DEF Lent
    <3> QED BY <3>2, <3>3
  <2> QED BY <1>1, <2>1 DEF RInv, SlotsAreLent
<1> QED BY <1>7, <1>8, <1>12, <1>13, <1>14 DEF RInv

-----------------------------------------------------------------------------
(* Closing.                                                                *)

\* A tick lists what the logs show in progress.
LEMMA TickInv ==
  ASSUME RInv, TickBegins
  PROVE  RInv'
<1> DEFINE runs == [t \in {u \in Tasks : Running(u)} |-> RunningOf(t)]
           e == [Idle EXCEPT !.at = "advancing", !.now = now, !.runs = runs]
<1>1. eng.at = "idle" /\ eng' = e /\ UNCHANGED <<card, log, slot, gen, reach, spent>>
  BY DEF TickBegins
<1>2. ASSUME NEW t \in Tasks, Running(t)
      PROVE  InLog(t, RunningOf(t)) /\ IsRun(RunningOf(t))
  <2>1. \E i \in DOMAIN log[t] : IsRunning(log[t][i])
    BY <1>2 DEF Running
  <2> DEFINE i == CHOOSE j \in DOMAIN log[t] : IsRunning(log[t][j])
  <2>2. i \in DOMAIN log[t] /\ IsRunning(log[t][i]) /\ RunningOf(t) = log[t][i]
    BY <2>1 DEF RunningOf
  <2> HIDE DEF i
  <2> QED BY <2>2 DEF InLog, RInv, DataShape, IsLog
<1>3. /\ DOMAIN runs \subseteq Tasks
      /\ \A t \in DOMAIN runs : runs[t] = RunningOf(t) /\ Running(t)
  OBVIOUS
<1> HIDE DEF runs
<1>4. DOMAIN e = EngFields /\ e.at = "advancing" /\ e.runs = runs /\ e.todo = {}
  BY IdleShape DEF EngFields
<1> HIDE DEF e
<1>5. EngShape'
  BY <1>1, <1>2, <1>3, <1>4 DEF EngShape, AtWork, Sending, Closing
<1>6. DataShape'
  BY <1>1 DEF RInv, DataShape
<1>7. OneRunEach' /\ NotYetRunning'
  BY <1>1, <1>4 DEF RInv, OneRunEach, NotYetRunning, Sending
<1>8. ListedAreRunning'
  <2>1. ASSUME NEW t \in DOMAIN runs
        PROVE  InLog(t, eng.runs[t])'
    <3> DEFINE r == runs[t]
    <3>1. InLog(t, r) /\ eng'.runs[t] = r
      BY <1>1, <1>2, <1>3, <1>4
    <3> HIDE DEF r
    <3> QED BY <1>1, <3>1 DEF InLog
  <2> QED BY <1>1, <1>4, <2>1 DEF ListedAreRunning, Closing
<1>9. SlotsAreLent'
  <2>1. ASSUME spent.restarts = 0, NEW t \in Tasks, Agent[t] \in Local, ~Deleted(t)'
        PROVE  Lent(t)'
    <3>1. Lent(t)
      BY <1>1, <2>1 DEF RInv, SlotsAreLent, Deleted
    <3> QED BY <1>1, <1>4, <3>1 DEF Lent, Borrowed, GivesBack
  <2> QED BY <1>1, <2>1 DEF RInv, SlotsAreLent
<1> QED BY <1>5, <1>6, <1>7, <1>8, <1>9 DEF RInv

\* What a local agent's slot must be like for a run to be closed.
LEMMA EndingSays ==
  ASSUME RInv, NEW t \in Tasks, Agent[t] \in Local, NEW r, NEW c \in Endings(t, r),
         r.mode = "goal", OwnLoop(t, r)
  PROVE  ~slot[Agent[t]].active
<1>1. Known(t)
  BY DEF RInv, DataShape, Known
<1> QED BY <1>1 DEF Endings

\* A run that is over is taken out of the list and goes to be closed.
LEMMA AdvanceInv ==
  ASSUME RInv, NEW t \in Tasks, Advance(t)
  PROVE  RInv'
<1> DEFINE r == eng.runs[t]
           rest == [u \in DOMAIN eng.runs \ {t} |-> eng.runs[u]]
           at == IF HandsBack(t, r) THEN "handing" ELSE "closing"
<1>1. /\ DOMAIN eng = EngFields /\ eng.at = "advancing" /\ eng.todo \subseteq Tasks
      /\ t \in DOMAIN eng.runs /\ IsRun(r)
      /\ UNCHANGED <<card, log, slot, gen, reach, spent>>
  BY DEF RInv, EngShape, Advance
<1>2. CASE eng' = [eng EXCEPT !.runs = rest]
  <2>1. eng'.at = "advancing"
    BY <1>1, <1>2 DEF EngFields
  <2> QED BY <2>1, WaitInv
<1>3. ASSUME NEW c \in Endings(t, r),
             eng' = [eng EXCEPT !.runs = rest, !.task = t, !.run = r, !.closed = c, !.at = at]
      PROVE  RInv'
  <2>1. IsRun(c) /\ ~IsRunning(c)
    <3>1. c = Closed(r, "ended") \/ c = Closed(r, "failed")
      BY <1>3 DEF Endings
    <3> HIDE DEF r
    <3> QED BY <1>1, <3>1, ClosedIsRun
  <2>2. /\ DOMAIN eng' = EngFields /\ eng'.at = at /\ eng'.task = t /\ eng'.run = r
        /\ eng'.closed = c /\ eng'.runs = rest /\ eng'.todo = eng.todo
    BY <1>1, <1>3 DEF EngFields
  <2>3. /\ at \in Closing /\ at \notin Sending /\ at \in AtWork /\ at \notin {"logging", "starting"}
        /\ at = "handing" => HandsBack(t, r)
        /\ at = "closing" => ~HandsBack(t, r)
    BY DEF Closing, Sending, AtWork
  <2>4. t \notin DOMAIN rest /\ \A u \in DOMAIN rest : u \in DOMAIN eng.runs /\ rest[u] = eng.runs[u]
    OBVIOUS
  <2>5. ~Deleted(t) => InLog(t, r)
    BY <1>1 DEF RInv, ListedAreRunning
  <2> HIDE DEF r, rest, at
  <2>6. EngShape'
    <3>1. DOMAIN eng'.runs \subseteq Tasks /\ \A u \in DOMAIN eng'.runs : IsRun(eng'.runs[u])
      BY <2>2, <2>4 DEF RInv, EngShape
    <3>2. at = "handing" => r.snap # NoRun
      BY <2>3 DEF HandsBack
    <3> QED BY <1>1, <2>1, <2>2, <2>3, <2>4, <3>1, <3>2 DEF EngShape
  <2>7. DataShape'
    BY <1>1 DEF RInv, DataShape
  <2>8. OneRunEach' /\ NotYetRunning'
    BY <1>1, <2>2, <2>3 DEF RInv, OneRunEach, NotYetRunning
  <2>9. ListedAreRunning'
    <3>1. ASSUME NEW u \in DOMAIN rest, ~Deleted(u)
          PROVE  InLog(u, eng.runs[u])'
      <4> DEFINE q == rest[u]
      <4>1. InLog(u, q) /\ eng'.runs[u] = q
        BY <2>2, <2>4, <3>1 DEF RInv, ListedAreRunning
      <4> HIDE DEF q
      <4> QED BY <1>1, <4>1 DEF InLog
    <3>2. ~Deleted(t) => InLog(eng.task, eng.run)'
      BY <1>1, <2>2, <2>5 DEF InLog
    <3> QED BY <1>1, <2>2, <3>1, <3>2 DEF ListedAreRunning, Deleted
  <2>10. SlotsAreLent'
    <3>1. ASSUME spent.restarts = 0, NEW u \in Tasks, Agent[u] \in Local, ~Deleted(u)'
          PROVE  Lent(u)'
      <4>1. Lent(u) /\ ~Deleted(u)
        BY <1>1, <3>1 DEF RInv, SlotsAreLent, Deleted
      <4>2. Borrowed(u) => \E i \in DOMAIN log[u] : IsRunning(log[u][i]) /\ GivesBack(u, log[u][i])
        BY <1>1, <4>1 DEF Lent
      <4>3. Borrowed(u)' => \E i \in DOMAIN log'[u] : IsRunning(log'[u][i]) /\ GivesBack(u, log[u][i])'
        BY <1>1, <4>2 DEF Borrowed, GivesBack
      <4>4. ASSUME u = t, Borrowed(t)
            PROVE  at = "handing" /\ ~slot[Agent[t]].active
        <5>1. InLog(t, r)
          BY <2>5, <4>1, <4>4
        <5>2. PICK i \in DOMAIN log[t] : IsRunning(log[t][i]) /\ GivesBack(t, log[t][i])
          BY <4>2, <4>4
        <5>3. log[t][i] = r
          BY <5>1, <5>2 DEF InLog, RInv, OneRunEach
        <5>4. OwnLoop(t, r) /\ r.mode = "goal" /\ r.snap # NoRun
          BY <5>2, <5>3, NoRunAssumption DEF GivesBack, OwnLoop
        <5>5. at = "handing"
          BY <5>4 DEF HandsBack, at
        <5>6. ~slot[Agent[t]].active
          BY <1>3, <3>1, <4>4, <5>4, EndingSays
        <5> QED BY <5>5, <5>6
      <4>5. ASSUME eng'.task = u
            PROVE  /\ eng'.at # "starting"
                   /\ eng'.at = "handing" => (Borrowed(u)' => ~slot'[Agent[u]].active)
                   /\ eng'.at = "closing" => ~Borrowed(u)'
        BY <1>1, <2>2, <2>3, <4>4, <4>5 DEF Borrowed
      <4> QED BY <4>3, <4>5 DEF Lent
    <3> QED BY <1>1, <3>1 DEF RInv, SlotsAreLent
  <2> QED BY <2>6, <2>7, <2>8, <2>9, <2>10 DEF RInv
<1> QED BY <1>2, <1>3 DEF Advance

\* The slot of the card at hand gets back what it held, unless somebody else armed it.
LEMMA HandBackInv ==
  ASSUME RInv, OneCardEach, HandBack
  PROVE  RInv'
<1> DEFINE w == eng.task
           a == Agent[w]
           r == eng.run
           e == RestoreSnapshot(slot[a], r.snap, r.loop)
<1>1. /\ eng.at = "handing" /\ slot' = [slot EXCEPT ![a] = e] /\ eng' = [eng EXCEPT !.at = "closing"]
      /\ UNCHANGED <<card, log, gen, reach, spent>>
  BY DEF HandBack
<1>2. /\ DOMAIN eng = EngFields /\ w \in Tasks /\ eng.todo \subseteq Tasks /\ w \notin DOMAIN eng.runs
      /\ IsRun(r) /\ IsRun(eng.closed) /\ ~IsRunning(eng.closed) /\ r.snap # NoRun
      /\ ~Deleted(w) => InLog(w, r)
  BY <1>1 DEF RInv, EngShape, ListedAreRunning, AtWork, Closing
<1>3. a \in Agents /\ slot \in [Agents -> Loops] /\ slot[a] \in Loops
  BY <1>2, RecurringAssumption DEF RInv, DataShape
<1>4. e \in Loops
  BY <1>2, <1>3 DEF RestoreSnapshot, IsRun
<1>5. slot' \in [Agents -> Loops] /\ slot'[a] = e /\ \A b \in Agents : b # a => slot'[b] = slot[b]
  BY <1>1, <1>3, <1>4
<1>6. /\ DOMAIN eng' = EngFields /\ eng'.at = "closing" /\ eng'.task = w /\ eng'.run = r
      /\ eng'.closed = eng.closed /\ eng'.runs = eng.runs /\ eng'.todo = eng.todo
  BY <1>1, <1>2 DEF EngFields
<1>7. EngShape'
  BY <1>2, <1>6 DEF RInv, EngShape, AtWork, Sending, Closing
<1>8. DataShape'
  BY <1>1, <1>5 DEF RInv, DataShape
<1>9. OneRunEach' /\ NotYetRunning' /\ ListedAreRunning'
  <2>1. OneRunEach' /\ NotYetRunning'
    BY <1>1, <1>6 DEF RInv, OneRunEach, NotYetRunning, Sending
  <2>2. ListedAreRunning'
    BY <1>1, <1>2, <1>6 DEF RInv, ListedAreRunning, Deleted, InLog
  <2> QED BY <2>1, <2>2
<1>10. SlotsAreLent'
  <2>1. ASSUME NEW b \in Local, slot'[b].by = "recurring"
        PROVE  \E t \in Tasks : Agent[t] = b
    <3>1. CASE b = a
      BY <1>2, <3>1
    <3>2. CASE b # a
      BY <1>5, <2>1, <3>2 DEF RInv, SlotsAreLent, Local
    <3> QED BY <3>1, <3>2
  <2>2. ASSUME spent.restarts = 0, NEW t \in Tasks, Agent[t] \in Local, ~Deleted(t)'
        PROVE  Lent(t)'
    <3>1. Lent(t) /\ ~Deleted(t)
      BY <1>1, <2>2 DEF RInv, SlotsAreLent, Deleted
    <3>2. CASE t = w
      <4>1. ASSUME slot[a].by = "recurring"
            PROVE  /\ ~slot[a].active /\ slot[a].gen = r.loop /\ r.snap.by # "recurring"
        <5>1. Borrowed(t)
          BY <3>2, <4>1 DEF Borrowed
        <5>2. ~slot[a].active
          BY <1>1, <3>1, <3>2, <5>1 DEF Lent
        <5>3. PICK i \in DOMAIN log[t] : IsRunning(log[t][i]) /\ GivesBack(t, log[t][i])
          BY <1>1, <3>1, <5>1 DEF Lent
        <5>4. log[t][i] = r
          BY <1>2, <3>1, <3>2, <5>3 DEF InLog, RInv, OneRunEach
        <5> QED BY <3>2, <5>2, <5>3, <5>4 DEF GivesBack
      <4>2. e.by # "recurring"
        BY <4>1 DEF RestoreSnapshot
      <4>3. ~Borrowed(t)'
        BY <1>5, <3>2, <4>2 DEF Borrowed
      <4> QED BY <1>6, <4>3 DEF Lent
    <3>3. CASE t # w
      <4>1. slot'[Agent[t]] = slot[Agent[t]]
        BY <1>2, <1>5, <2>2, <3>3 DEF OneCardEach, Local
      <4>2. Borrowed(t) => \E i \in DOMAIN log[t] : IsRunning(log[t][i]) /\ GivesBack(t, log[t][i])
        BY <1>1, <3>1 DEF Lent
      <4>3. Borrowed(t)' => \E i \in DOMAIN log'[t] : IsRunning(log'[t][i]) /\ GivesBack(t, log[t][i])'
        BY <1>1, <4>1, <4>2 DEF Borrowed, GivesBack
      <4> QED BY <1>6, <3>3, <4>3 DEF Lent
    <3> QED BY <3>2, <3>3
  <2> QED BY <1>1, <2>1, <2>2 DEF SlotsAreLent
<1> QED BY <1>7, <1>8, <1>9, <1>10 DEF RInv

\* The record of the run that is over; by now its card borrows no slot.
LEMMA CloseInv ==
  ASSUME RInv, CloseRun
  PROVE  RInv'
<1> DEFINE w == eng.task
           l == log[w]
           m == Upsert(l, eng.run, eng.closed)
           pause == [AtHand("pausing") EXCEPT !.task = eng.task]
<1>1. /\ eng.at = "closing" /\ log' = [log EXCEPT ![w] = m]
      /\ eng' = pause \/ eng' = AtHand("advancing")
      /\ UNCHANGED <<card, slot, gen, reach, spent>>
  BY DEF CloseRun
<1>2. /\ w \in Tasks /\ eng.todo \subseteq Tasks /\ w \notin DOMAIN eng.runs
      /\ IsRun(eng.closed) /\ ~IsRunning(eng.closed) /\ EngShape
  BY <1>1 DEF RInv, EngShape, AtWork, Closing
<1>3. IsLog(l)
  BY <1>2 DEF RInv, DataShape
<1>4. /\ IsLog(m)
      /\ \A i \in DOMAIN m : m[i] = eng.closed \/ (i \in DOMAIN l /\ m[i] = l[i])
  BY <1>2, <1>3, UpsertRun
<1> HIDE DEF m
<1>5. DOMAIN log' = Tasks /\ log'[w] = m /\ \A u \in Tasks : u # w => log'[u] = log[u]
  BY <1>1, <1>2 DEF RInv, DataShape
<1>6. /\ DOMAIN eng' = EngFields /\ eng'.at \in {"pausing", "advancing"}
      /\ eng'.at = "pausing" => eng'.task = w
      /\ eng'.runs = eng.runs /\ eng'.todo = eng.todo
  <2>1. ASSUME NEW h, DOMAIN h = EngFields, h.at = "pausing", h.runs = eng.runs, h.todo = eng.todo
        PROVE  LET p == [h EXCEPT !.task = w] IN
               DOMAIN p = EngFields /\ p.at = "pausing" /\ p.task = w /\ p.runs = eng.runs /\ p.todo = eng.todo
    BY <2>1 DEF EngFields
  <2>2. \A at : /\ DOMAIN AtHand(at) = EngFields /\ AtHand(at).at = at
                /\ AtHand(at).runs = eng.runs /\ AtHand(at).todo = eng.todo
    BY <1>2, AtHandShape
  <2>3. DOMAIN pause = EngFields /\ pause.at = "pausing" /\ pause.task = w /\ pause.runs = eng.runs /\ pause.todo = eng.todo
    BY <2>1, <2>2
  <2> HIDE DEF pause
  <2> QED BY <1>1, <2>2, <2>3
<1>7. EngShape'
  BY <1>2, <1>6 DEF EngShape, AtWork, Sending, Closing
<1>8. DataShape'
  BY <1>1, <1>4, <1>5 DEF RInv, DataShape
<1>9. \A i \in DOMAIN m : IsRunning(m[i]) => i \in DOMAIN l /\ m[i] = l[i]
  BY <1>2, <1>4
<1>10. OneRunEach'
  BY <1>2, <1>5, <1>9 DEF RInv, OneRunEach
<1>11. NotYetRunning' /\ ListedAreRunning'
  <2>1. ASSUME NEW t \in DOMAIN eng.runs, ~Deleted(t)
        PROVE  InLog(t, eng.runs[t])'
    <3>1. InLog(t, eng.runs[t]) /\ t \in Tasks /\ t # w
      BY <1>2, <2>1 DEF RInv, ListedAreRunning, EngShape
    <3> QED BY <1>5, <1>6, <3>1 DEF InLog
  <2>2. NotYetRunning'
    BY <1>6 DEF NotYetRunning, Sending
  <2>3. ListedAreRunning'
    BY <1>1, <1>6, <2>1 DEF ListedAreRunning, Deleted, Closing
  <2> QED BY <2>2, <2>3
<1>12. SlotsAreLent'
  <2>1. ASSUME spent.restarts = 0, NEW t \in Tasks, Agent[t] \in Local, ~Deleted(t)'
        PROVE  Lent(t)'
    <3>1. Lent(t)
      BY <1>1, <2>1 DEF RInv, SlotsAreLent, Deleted
    <3>2. CASE t = w
      <4>1. ~Borrowed(t)'
        BY <1>1, <3>1, <3>2 DEF Lent, Borrowed
      <4> QED BY <1>6, <4>1 DEF Lent
    <3>3. CASE t # w
      <4>1. Borrowed(t)' => \E i \in DOMAIN log'[t] : IsRunning(log'[t][i]) /\ GivesBack(t, log[t][i])'
        BY <1>1, <1>5, <3>1, <3>3 DEF Lent, Borrowed, GivesBack
      <4> QED BY <1>6, <4>1 DEF Lent
    <3> QED BY <3>2, <3>3
  <2> QED BY <1>1, <2>1 DEF RInv, SlotsAreLent
<1> QED BY <1>7, <1>8, <1>10, <1>11, <1>12 DEF RInv

-----------------------------------------------------------------------------
\* Nothing is lent in the beginning.
LEMMA InitRInv == Init => RInv
<1> SUFFICES ASSUME Init PROVE RInv
  OBVIOUS
<1>1. eng = Idle /\ eng.at = "idle" /\ eng.at \notin AtWork /\ eng.at \notin Sending /\ eng.at \notin Closing
  BY IdleShape DEF Init, AtWork, Sending, Closing
<1>2. EngShape
  BY <1>1, IdleShape DEF EngShape
<1>3. \A t \in Tasks : log[t] = <<>> /\ IsLog(log[t]) /\ DOMAIN log[t] = {}
  <2>1. <<>> \in Seq({})
    BY EmptySeq
  <2>2. DOMAIN <<>> = {}
    OBVIOUS
  <2>3. IsLog(<<>>)
    BY <2>1, <2>2 DEF IsLog
  <2> QED BY <2>2, <2>3 DEF Init
<1>4. DOMAIN card = Tasks /\ \A t \in Tasks : "is" \in DOMAIN card[t]
  <2>1. "is" \in DOMAIN NoCard
    BY DEF NoCard
  <2>2. "is" \in DOMAIN NewCard(FirstSchedule, "goal", 1)
    BY <2>1 DEF NewCard, Anchored
  <2> QED BY <2>1, <2>2 DEF Init
<1>5. slot \in [Agents -> Loops] /\ \A a \in Agents : slot[a].by # "recurring"
  <2>1. NoLoop \in Loops /\ NoLoop.by # "recurring"
    BY DEF NoLoop, Loops
  <2> QED BY <2>1 DEF Init
<1>6. DataShape
  BY <1>3, <1>4, <1>5 DEF Init, DataShape, Local
<1>7. OneRunEach /\ NotYetRunning /\ ListedAreRunning
  BY <1>1, <1>3, IdleShape DEF OneRunEach, NotYetRunning, ListedAreRunning
<1>8. SlotsAreLent
  <2>1. \A t \in Tasks : Agent[t] \in Local => ~Borrowed(t)
    BY <1>5 DEF Borrowed, Local
  <2> QED BY <1>1, <1>5, <2>1 DEF SlotsAreLent, Lent, Local
<1> QED BY <1>2, <1>6, <1>7, <1>8 DEF RInv

\* Every step keeps the invariant.
LEMMA StepRInv ==
  ASSUME RInv, OneCardEach, [Next]_vars
  PROVE  RInv'
<1>1. CASE EngineStep
  BY <1>1, TickInv, ListingsInv, HandBackInv, CloseInv, CardStepInv, BorrowInv, StartInv, PeerInv,
     SendOnceInv, LogRunInv, AdvanceInv, DecideInv DEF EngineStep
<1>2. CASE Users
  <2>1. ASSUME NEW t \in Tasks, RunNow(t)
        PROVE  RInv'
    BY <2>1, RunNowInv
  <2> QED BY <1>2, <2>1, CommandsInv, LoopsInv, SurroundingsInv DEF Users
<1>3. CASE Surroundings
  BY <1>3, DeleteInv, LoopsInv, SurroundingsInv, RestartInv, PeerInv DEF Surroundings
<1>4. CASE UNCHANGED vars
  BY <1>4, SurroundingsInv
<1> QED BY <1>1, <1>2, <1>3, <1>4 DEF Next

\* The strengthened invariant: the engine's list and record agree with the logs, and a
\* borrowed slot belongs to a run that can give it back.
THEOREM LendingInvariance == ASSUME OneCardEach PROVE Spec => []RInv
<1>1. RInv /\ [Next]_vars => RInv'
  BY StepRInv
<1> QED BY <1>1, InitRInv, PTL DEF Spec

\* The slot a local agent lent to its card is handed back, in every order of ticks, commands,
\* deletions, stops and armings by the operator, for every card, schedule and bound.
THEOREM SlotIsAlwaysHandedBack == ASSUME OneCardEach PROVE Spec => []SlotIsHandedBack
<1>1. RInv => SlotIsHandedBack
  <2> SUFFICES ASSUME RInv, NEW a \in Local, eng.at = "idle", spent.restarts = 0, ~slot[a].active,
                      \A t \in Tasks : Agent[t] = a => card[t].is # "deleted" /\ ~Running(t),
                      slot[a].by = "recurring"
               PROVE  FALSE
    BY DEF SlotIsHandedBack
  <2>1. PICK t \in Tasks : Agent[t] = a
    BY DEF RInv, SlotsAreLent
  <2>2. ~Deleted(t) /\ ~Running(t) /\ Borrowed(t)
    BY <2>1 DEF Deleted, Borrowed
  <2>3. Lent(t)
    BY <2>1, <2>2 DEF RInv, SlotsAreLent
  <2> QED BY <2>2, <2>3 DEF Lent, Running
<1> QED BY <1>1, LendingInvariance, PTL

\* Handing back never removes a loop that somebody else armed.
THEOREM OnlyOwnLoopsAreEverReplaced == Spec => OnlyOwnLoopsAreReplaced
<1>1. ASSUME HandBack
      PROVE  \A a \in Agents : slot'[a] # slot[a] => slot[a].by = "recurring" /\ ~slot[a].active
  BY <1>1 DEF HandBack, RestoreSnapshot
<1> QED BY <1>1, PTL DEF Spec, OnlyOwnLoopsAreReplaced

-----------------------------------------------------------------------------
(* Arithmetic.                                                             *)

\* What division by a positive number gives, and that nothing else does.
LEMMA Division ==
  ASSUME NEW x \in Nat, NEW n \in Nat \ {0}
  PROVE  /\ x \div n \in Nat /\ x % n \in 0 .. n - 1
         /\ x = n * (x \div n) + (x % n)
<1>1. x \div n \in Nat  OBVIOUS
<1>2. x % n \in 0 .. n - 1  OBVIOUS
<1>3. x = n * (x \div n) + (x % n)  OBVIOUS
<1> QED BY <1>1, <1>2, <1>3

LEMMA Multiples ==
  ASSUME NEW n \in Nat \ {0}, NEW p \in Nat, NEW q \in Nat
  PROVE  /\ n * p \in Nat /\ n * (p + 1) = n * p + n
         /\ p <= q => n * p <= n * q
         /\ p < q => n * p + n <= n * q
<1>1. n * p \in Nat /\ n * (p + 1) = n * p + n  OBVIOUS
<1>2. ASSUME NEW d \in Nat PROVE n * (p + d) = n * p + n * d /\ n * d \in Nat
  OBVIOUS
<1>3. p <= q => n * p <= n * q
  <2> SUFFICES ASSUME p <= q PROVE n * p <= n * q  OBVIOUS
  <2> DEFINE d == q - p
  <2>1. d \in Nat /\ q = p + d  OBVIOUS
  <2> HIDE DEF d
  <2>2. n * q = n * p + n * d /\ n * d \in Nat  BY <1>2, <2>1
  <2> QED BY <1>1, <2>2
<1>4. p < q => n * p + n <= n * q
  <2> SUFFICES ASSUME p < q PROVE n * p + n <= n * q  OBVIOUS
  <2> DEFINE d == q - p - 1
  <2>1. d \in Nat /\ q = p + 1 + d  OBVIOUS
  <2> HIDE DEF d
  <2>2. p + 1 \in Nat  OBVIOUS
  <2>3. n * ((p + 1) + d) = n * (p + 1) + n * d /\ n * d \in Nat  BY <2>1, <2>2
  <2> QED BY <1>1, <2>1, <2>3
<1> QED BY <1>1, <1>3, <1>4

LEMMA DivisionIs ==
  ASSUME NEW n \in Nat \ {0}, NEW q \in Nat, NEW r \in 0 .. n - 1
  PROVE  LET x == n * q + r IN x \in Nat /\ x \div n = q /\ x % n = r
<1> DEFINE x == n * q + r
           p == x \div n
           m == x % n
<1>1. x \in Nat /\ n * q \in Nat /\ x = n * q + r  BY Multiples
<1> HIDE DEF x
<1>2. p \in Nat /\ m \in 0 .. n - 1 /\ x = n * p + m /\ n * p \in Nat  BY <1>1, Division, Multiples
<1> HIDE DEF p, m
<1>3. ~(p < q)
  <2> SUFFICES ASSUME p < q PROVE FALSE  OBVIOUS
  <2>1. n * p + n <= n * q  BY <1>2, Multiples
  <2> DEFINE u == n * p
             v == n * q
  <2>2. u \in Nat /\ v \in Nat /\ u + n <= v /\ x = v + r /\ x = u + m  BY <1>1, <1>2, <2>1
  <2> HIDE DEF u, v
  <2> QED BY <1>1, <1>2, <2>2
<1>4. ~(q < p)
  <2> SUFFICES ASSUME q < p PROVE FALSE  OBVIOUS
  <2>1. n * q + n <= n * p  BY <1>2, Multiples
  <2> DEFINE u == n * p
             v == n * q
  <2>2. u \in Nat /\ v \in Nat /\ v + n <= u /\ x = v + r /\ x = u + m  BY <1>1, <1>2, <2>1
  <2> HIDE DEF u, v
  <2> QED BY <1>1, <1>2, <2>2
<1>5. p = q  BY <1>2, <1>3, <1>4
<1>6. m = r
  <2> DEFINE v == n * q
  <2>1. x = v + r /\ x = v + m /\ v \in Nat  BY <1>1, <1>2, <1>5
  <2> HIDE DEF v
  <2> QED BY <1>1, <1>2, <2>1
<1> QED BY <1>1, <1>5, <1>6 DEF x, p, m

-----------------------------------------------------------------------------
(* The grid.                                                               *)

\* x is an occurrence of s after the anchor.
OnGrid(s, anchor, x) ==
  /\ x \in Nat /\ x > anchor
  /\ IF s.kind = "interval" THEN (x - anchor) % s.every = 0
     ELSE x % DayLength = s.at /\ (s.days = {} \/ (x \div DayLength) % Week \in s.days)

LEMMA OccurrencesAre ==
  ASSUME NEW s, NEW anchor \in Nat, NEW upto \in Nat
  PROVE  /\ \A x : x \in Occurrences(s, anchor, upto) <=> OnGrid(s, anchor, x) /\ x <= upto
         /\ IsFiniteSet(Occurrences(s, anchor, upto))
         /\ Occurrences(s, anchor, upto) \subseteq Nat
<1>1. \A x : x \in anchor + 1 .. upto <=> x \in Nat /\ x > anchor /\ x <= upto  OBVIOUS
<1>2. \A x : x \in Occurrences(s, anchor, upto) <=> OnGrid(s, anchor, x) /\ x <= upto
  BY <1>1 DEF Occurrences, OnGrid
<1>3. Occurrences(s, anchor, upto) \subseteq anchor + 1 .. upto  BY DEF Occurrences
<1>4. IsFiniteSet(anchor + 1 .. upto)  BY FS_Interval
<1> QED BY <1>1, <1>2, <1>3, <1>4, FS_Subset

\* The occurrences of an interval are the multiples of it.
LEMMA IntervalGrid ==
  ASSUME NEW s \in Schedules, s.kind = "interval", NEW anchor \in Nat
  PROVE  /\ s.every \in Nat \ {0}
         /\ \A k \in Nat \ {0} : OnGrid(s, anchor, anchor + s.every * k)
         /\ \A x : OnGrid(s, anchor, x) => \E k \in Nat \ {0} : x = anchor + s.every * k
<1> DEFINE e == s.every
<1>1. e \in Nat \ {0}  BY ScheduleAssumption
<1> HIDE DEF e
<1>2. ASSUME NEW k \in Nat \ {0} PROVE OnGrid(s, anchor, anchor + e * k)
  <2>1. e * k + 0 \in Nat /\ (e * k + 0) % e = 0  BY <1>1, DivisionIs
  <2>2. e * k >= e
    <3>1. e * 0 + e <= e * k  BY <1>1, Multiples
    <3> QED BY <1>1, <3>1
  <2> DEFINE m == e * k
  <2>3. m \in Nat /\ m % e = 0 /\ m > 0  BY <1>1, <2>1, <2>2
  <2> HIDE DEF m
  <2>4. anchor + m \in Nat /\ anchor + m > anchor /\ (anchor + m) - anchor = m  BY <2>3
  <2> QED BY <2>3, <2>4 DEF OnGrid, m, e
<1>3. ASSUME NEW x, OnGrid(s, anchor, x) PROVE \E k \in Nat \ {0} : x = anchor + e * k
  <2> DEFINE m == x - anchor
             k == m \div e
  <2>1. x \in Nat /\ m \in Nat /\ m > 0 /\ m % e = 0 /\ x = anchor + m  BY <1>3 DEF OnGrid, e
  <2> HIDE DEF m
  <2>2. k \in Nat /\ m = e * k + (m % e)  BY <1>1, <2>1, Division
  <2> HIDE DEF k
  <2>3. e * k \in Nat  BY <1>1, <2>2
  <2>4. m = e * k  BY <2>1, <2>2, <2>3
  <2>5. k # 0  BY <1>1, <2>1, <2>4
  <2> QED BY <2>1, <2>2, <2>4, <2>5
<1> QED BY <1>1, <1>2, <1>3 DEF e

\* A day of the schedule, and the occurrence on it.
LEMMA DailyGrid ==
  ASSUME NEW s \in Schedules, s.kind # "interval", NEW anchor \in Nat
  PROVE  /\ \A d \in Nat : LocalAt(s, d) \in Nat
         /\ \A d, f \in Nat : d <= f => LocalAt(s, d) <= LocalAt(s, f)
         /\ \A d \in Nat : DayAllowed(s, d) /\ LocalAt(s, d) > anchor => OnGrid(s, anchor, LocalAt(s, d))
         /\ \A x : OnGrid(s, anchor, x) =>
              \E d \in Nat : DayAllowed(s, d) /\ x = LocalAt(s, d)
<1> DEFINE L == DayLength
           a == s.at
<1>1. L \in Nat \ {0} /\ a \in 0 .. L - 1 /\ s.kind = "daily" /\ s.days \subseteq 0 .. Week - 1
  BY ScheduleAssumption, RecurrenceAssumption
<1>2. ASSUME NEW d \in Nat PROVE /\ LocalAt(s, d) = L * d + a /\ LocalAt(s, d) \in Nat
                                 /\ LocalAt(s, d) % L = a /\ LocalAt(s, d) \div L = d
  <2> HIDE DEF L, a
  <2>1. d * L = L * d  BY <1>1
  <2>2. LocalAt(s, d) = L * d + a  BY <2>1 DEF LocalAt, L, a
  <2> QED BY <1>1, <2>2, DivisionIs
<1> HIDE DEF L, a
<1>3. ASSUME NEW d \in Nat, NEW f \in Nat, d <= f PROVE LocalAt(s, d) <= LocalAt(s, f)
  <2>1. L * d <= L * f /\ L * d \in Nat /\ L * f \in Nat  BY <1>1, <1>3, Multiples
  <2>2. LocalAt(s, d) = L * d + a /\ LocalAt(s, f) = L * f + a  BY <1>2
  <2> DEFINE u == L * d
             v == L * f
  <2>3. u <= v /\ u \in Nat /\ v \in Nat /\ LocalAt(s, d) = u + a /\ LocalAt(s, f) = v + a  BY <2>1, <2>2
  <2> HIDE DEF u, v
  <2> QED BY <1>1, <2>3
<1>4. ASSUME NEW d \in Nat, DayAllowed(s, d), LocalAt(s, d) > anchor PROVE OnGrid(s, anchor, LocalAt(s, d))
  BY <1>1, <1>2, <1>4 DEF OnGrid, DayAllowed, L, a
<1>5. ASSUME NEW x, OnGrid(s, anchor, x) PROVE \E d \in Nat : DayAllowed(s, d) /\ x = LocalAt(s, d)
  <2> DEFINE d == x \div L
  <2>1. x \in Nat /\ x % L = a /\ DayAllowed(s, d)  BY <1>1, <1>5 DEF OnGrid, DayAllowed, L, a
  <2>2. d \in Nat /\ x = L * d + (x % L)  BY <1>1, <2>1, Division
  <2>3. LocalAt(s, d) = L * d + a  BY <1>2, <2>2
  <2> QED BY <2>1, <2>2, <2>3
<1> QED BY <1>2, <1>3, <1>4, <1>5

\* Among as many days as a week has, one is a day of the schedule.
LEMMA SomeDay ==
  ASSUME NEW s \in Schedules, s.kind # "interval", NEW b \in Nat
  PROVE  \E d \in b .. b + Week - 1 : DayAllowed(s, d)
<1> DEFINE W == Week
<1>1. W \in Nat \ {0} /\ s.days \subseteq 0 .. W - 1
  BY ScheduleAssumption, RecurrenceAssumption
<1> HIDE DEF W
<1>2. CASE s.days = {}
  <2>1. b \in b .. b + W - 1 /\ DayAllowed(s, b)  BY <1>1, <1>2 DEF DayAllowed
  <2> QED BY <2>1 DEF W
<1>3. CASE s.days # {}
  <2>1. PICK w \in s.days : TRUE  BY <1>3
  <2> DEFINE q == b \div W
             r == b % W
  <2>2. q \in Nat /\ r \in 0 .. W - 1 /\ b = W * q + r /\ w \in 0 .. W - 1  BY <1>1, <2>1, Division
  <2> HIDE DEF q, r
  <2>a. q + 1 \in Nat  BY <2>2
  <2>b. W * q \in Nat /\ W * (q + 1) = W * q + W  BY <1>1, <2>2, Multiples
  <2>c. W * q + w \in Nat /\ (W * q + w) % W = w  BY <1>1, <2>2, DivisionIs
  <2>d. W * (q + 1) + w \in Nat /\ (W * (q + 1) + w) % W = w  BY <1>1, <2>2, <2>a, DivisionIs
  <2>3. /\ W * q \in Nat /\ W * (q + 1) = W * q + W
        /\ W * q + w \in Nat /\ (W * q + w) % W = w
        /\ W * (q + 1) + w \in Nat /\ (W * (q + 1) + w) % W = w
    BY <2>b, <2>c, <2>d
  <2> DEFINE u == W * q
             v == W * (q + 1)
  <2>4. u \in Nat /\ v = u + W /\ b = u + r  BY <2>2, <2>3
  <2>5. u + w \in Nat /\ (u + w) % W = w /\ v + w \in Nat /\ (v + w) % W = w  BY <2>3
  <2> HIDE DEF u, v
  <2>6. CASE w >= r
    <3>1. u + w \in b .. b + W - 1  BY <1>1, <2>2, <2>4, <2>6
    <3>2. DayAllowed(s, u + w)  BY <2>1, <2>5 DEF DayAllowed, W
    <3> QED BY <3>1, <3>2 DEF W
  <2>7. CASE w < r
    <3>1. v + w \in b .. b + W - 1  BY <1>1, <2>2, <2>4, <2>7
    <3>2. DayAllowed(s, v + w)  BY <2>1, <2>5 DEF DayAllowed, W
    <3> QED BY <3>1, <3>2 DEF W
  <2> QED BY <2>2, <2>6, <2>7
<1> QED BY <1>2, <1>3

-----------------------------------------------------------------------------
\* Every set of naturals has a least member, and up to a bound a greatest.
LEMMA LessIsWellFounded == IsWellFoundedOn({ss \in Nat \X Nat : ss[1] < ss[2]}, Nat)
BY NatLessThanWellFounded DEF OpToRel

LEMMA Least ==
  ASSUME NEW T \in SUBSET Nat, T # {}
  PROVE  \E n \in T : \A m \in T : n <= m
<1> DEFINE R == {ss \in Nat \X Nat : ss[1] < ss[2]}
<1>1. IsWellFoundedOn(R, Nat)  BY LessIsWellFounded
<1> HIDE DEF R
<1>2. PICK n \in T : \A m \in T : <<m, n>> \notin R  BY <1>1, WFMin
<1>3. ASSUME NEW m \in T PROVE n <= m
  <2>1. <<m, n>> \in Nat \X Nat /\ <<m, n>>[1] = m /\ <<m, n>>[2] = n  OBVIOUS
  <2>2. ~(m < n)  BY <1>2, <2>1 DEF R
  <2> QED BY <2>2
<1> QED BY <1>3

LEMMA Greatest ==
  ASSUME NEW T \in SUBSET Nat, T # {}, NEW b \in Nat, \A m \in T : m <= b
  PROVE  \E n \in T : \A m \in T : m <= n
<1> DEFINE U == {b - m : m \in T}
<1>1. U \in SUBSET Nat /\ U # {}
  <2>1. \A m \in T : b - m \in Nat  OBVIOUS
  <2> QED BY <2>1
<1>2. PICK k \in U : \A m \in U : k <= m  BY <1>1, Least
<1>3. PICK n \in T : k = b - n  OBVIOUS
<1>4. \A m \in T : b - n <= b - m  BY <1>2, <1>3
<1> QED BY <1>4

LEMMA MinMax ==
  ASSUME NEW T \in SUBSET Nat, T # {}
  PROVE  /\ Min(T) \in T /\ \A m \in T : Min(T) <= m
         /\ \A b \in Nat : (\A m \in T : m <= b) => Max(T) \in T /\ \A m \in T : m <= Max(T)
<1>1. \E n \in T : \A m \in T : n =< m  BY Least
<1>2. Min(T) \in T /\ \A m \in T : Min(T) <= m  BY <1>1 DEF Min
<1>3. ASSUME NEW b \in Nat, \A m \in T : m <= b
      PROVE  Max(T) \in T /\ \A m \in T : m <= Max(T)
  <2>1. \E n \in T : \A m \in T : m <= n  BY <1>3, Greatest
  <2>2. \E n \in T : \A m \in T : n >= m  BY <2>1
  <2>3. Max(T) \in T /\ \A m \in T : Max(T) >= m  BY <2>2 DEF Max
  <2> QED BY <2>3
<1> QED BY <1>2, <1>3

\* The first occurrence after a time is that.
LEMMA NextIs ==
  ASSUME NEW s \in Schedules, NEW anchor \in Nat, NEW time \in Nat, time >= anchor
  PROVE  LET next == NextAfter(s, anchor, time) IN
         /\ OnGrid(s, anchor, next) /\ next > time
         /\ \A x : OnGrid(s, anchor, x) /\ x > time => x >= next
<1> DEFINE next == NextAfter(s, anchor, time)
<1>1. Max({time, anchor}) = time
  <2>1. Max({time, anchor}) \in {time, anchor} /\ Max({time, anchor}) >= time
    <3>1. \E x \in {time, anchor} : \A y \in {time, anchor} : x >= y  OBVIOUS
    <3> QED BY <3>1 DEF Max
  <2> QED BY <2>1
<1>2. CASE s.kind = "interval"
  <2> DEFINE e == s.every
             m == time - anchor
             k == m \div e
             r == m % e
  <2>1. /\ e \in Nat \ {0}
        /\ \A j \in Nat \ {0} : OnGrid(s, anchor, anchor + e * j)
        /\ \A x : OnGrid(s, anchor, x) => \E j \in Nat \ {0} : x = anchor + e * j
    BY <1>2, IntervalGrid
  <2>2. next = anchor + e * (k + 1)  BY <1>1, <1>2 DEF NextAfter
  <2> HIDE DEF next, e
  <2>3. m \in Nat /\ time = anchor + m  OBVIOUS
  <2> HIDE DEF m
  <2>4. k \in Nat /\ r \in 0 .. e - 1 /\ m = e * k + r  BY <2>1, <2>3, Division
  <2> HIDE DEF k, r
  <2>5. e * k \in Nat /\ e * (k + 1) = e * k + e  BY <2>1, <2>4, Multiples
  <2>6. next > time
    <3> DEFINE u == e * k
    <3>1. u \in Nat /\ next = anchor + (u + e) /\ time = anchor + (u + r)  BY <2>2, <2>3, <2>4, <2>5
    <3> HIDE DEF u
    <3>2. r \in Nat /\ e \in Nat /\ r < e  BY <2>1, <2>4
    <3> QED BY <3>1, <3>2
  <2>7. OnGrid(s, anchor, next)
    <3>1. k + 1 \in Nat \ {0}  BY <2>4
    <3>2. OnGrid(s, anchor, anchor + e * (k + 1))  BY <2>1, <3>1
    <3> QED BY <2>2, <3>2
  <2>8. ASSUME NEW x, OnGrid(s, anchor, x), x > time PROVE x >= next
    <3>1. PICK j \in Nat \ {0} : x = anchor + e * j  BY <2>1, <2>8
    <3>2. e * j \in Nat  BY <2>1, <3>1
    <3>3. ~(j <= k)
      <4> SUFFICES ASSUME j <= k PROVE FALSE  OBVIOUS
      <4>1. e * j <= e * k  BY <2>1, <2>4, Multiples
      <4> DEFINE u == e * k
                 v == e * j
      <4>2. u \in Nat /\ v \in Nat /\ v <= u /\ x = anchor + v /\ time = anchor + (u + r)
        BY <2>3, <2>4, <2>5, <3>1, <3>2, <4>1
      <4> HIDE DEF u, v
      <4> QED BY <2>1, <2>4, <2>8, <4>2
    <3>4. k + 1 <= j /\ k + 1 \in Nat  BY <2>4, <3>3
    <3>5. e * (k + 1) <= e * j  BY <2>1, <3>4, Multiples
    <3> DEFINE u == e * (k + 1)
               v == e * j
    <3>6. u \in Nat /\ v \in Nat /\ u <= v /\ x = anchor + v /\ next = anchor + u
      BY <2>1, <2>2, <2>5, <3>1, <3>2, <3>5
    <3> HIDE DEF u, v
    <3> QED BY <3>6
  <2> QED BY <2>6, <2>7, <2>8 DEF next
<1>3. CASE s.kind # "interval"
  <2> DEFINE L == DayLength
             W == Week
             today == time \div L
             r == time % L
             days == {d \in today .. today + 2 * W : DayAllowed(s, d) /\ LocalAt(s, d) > time}
             At(d) == LocalAt(s, d)
  <2>1. L \in Nat \ {0} /\ W \in Nat \ {0} /\ s.kind = "daily" /\ s.at \in 0 .. L - 1
    BY <1>3, ScheduleAssumption, RecurrenceAssumption
  <2>2. next = At(Min(days))  BY <1>1, <1>3 DEF NextAfter
  <2> HIDE DEF next, L, W
  <2>3. today \in Nat /\ r \in 0 .. L - 1 /\ time = L * today + r  BY <2>1, Division
  <2> HIDE DEF today, r
  <2>4. /\ \A d \in Nat : At(d) \in Nat
        /\ \A d, f \in Nat : d <= f => At(d) <= At(f)
        /\ \A d \in Nat : DayAllowed(s, d) /\ At(d) > anchor => OnGrid(s, anchor, At(d))
        /\ \A x : OnGrid(s, anchor, x) => \E d \in Nat : DayAllowed(s, d) /\ x = At(d)
    BY <1>3, DailyGrid
  <2>5. ASSUME NEW d \in Nat
        PROVE  /\ d >= today + 1 => At(d) > time
               /\ At(d) > time => d >= today
    <3>1. At(d) = L * d + s.at
      <4>1. d * L = L * d  BY <2>1
      <4> QED BY <4>1 DEF LocalAt, L
    <3>2. L * d \in Nat /\ L * today \in Nat  BY <2>1, <2>3, <2>5, Multiples
    <3>3. d >= today + 1 => L * today + L <= L * d  BY <2>1, <2>3, <2>5, Multiples
    <3>4. d < today => L * d + L <= L * today  BY <2>1, <2>3, <2>5, Multiples
    <3> DEFINE u == L * d
               v == L * today
               a == s.at
    <3>5. /\ u \in Nat /\ v \in Nat /\ a \in 0 .. L - 1 /\ At(d) = u + a /\ time = v + r
          /\ d >= today + 1 => v + L <= u
          /\ d < today => u + L <= v
      BY <2>1, <2>3, <3>1, <3>2, <3>3, <3>4
    <3> HIDE DEF u, v, a, At
    <3> QED BY <2>1, <2>3, <2>5, <3>5
  <2> HIDE DEF At
  <2>6. days \in SUBSET Nat  BY <2>1, <2>3
  <2>7. PICK d0 \in (today + 1) .. (today + 1) + W - 1 : DayAllowed(s, d0)
    <3>1. today + 1 \in Nat  BY <2>3
    <3> QED BY <1>3, <3>1, SomeDay DEF W
  <2>8. d0 \in Nat /\ d0 >= today + 1 /\ d0 \in today .. today + 2 * W  BY <2>1, <2>3, <2>7
  <2>9. d0 \in days
    <3>1. At(d0) > time  BY <2>5, <2>8
    <3> QED BY <2>7, <2>8, <3>1 DEF At
  <2> DEFINE n == Min(days)
  <2>10. n \in days /\ \A m \in days : n <= m  BY <2>6, <2>9, MinMax
  <2>11. n \in Nat /\ n <= today + 2 * W /\ DayAllowed(s, n) /\ At(n) > time /\ next = At(n)
    BY <2>1, <2>2, <2>3, <2>10 DEF At
  <2>12. OnGrid(s, anchor, next) /\ next > time  BY <2>4, <2>11
  <2>13. ASSUME NEW x, OnGrid(s, anchor, x), x > time PROVE x >= next
    <3>1. PICK d \in Nat : DayAllowed(s, d) /\ x = At(d)  BY <2>4, <2>13
    <3>2. d >= today  BY <2>5, <2>13, <3>1
    <3>3. n <= d
      <4>1. CASE d <= today + 2 * W
        <5>1. d \in today .. today + 2 * W  BY <2>1, <2>3, <3>1, <3>2, <4>1
        <5>2. d \in days  BY <2>13, <3>1, <5>1 DEF At
        <5> QED BY <2>10, <5>2
      <4>2. CASE ~(d <= today + 2 * W)  BY <2>1, <2>3, <2>11, <3>1, <4>2
      <4> QED BY <4>1, <4>2
    <3>4. At(n) <= At(d) /\ At(n) \in Nat /\ At(d) \in Nat  BY <2>4, <2>11, <3>1, <3>3
    <3> QED BY <2>11, <3>1, <3>4
  <2> QED BY <2>12, <2>13 DEF next
<1> QED BY <1>2, <1>3

\* The newest occurrence that is over is one, if there was one at all.
LEMMA LatestIs ==
  ASSUME NEW s \in Schedules, NEW anchor \in Nat, NEW time \in Nat,
         NEW first, OnGrid(s, anchor, first), first <= time
  PROVE  LET latest == LatestAtOrBefore(s, anchor, time) IN
         OnGrid(s, anchor, latest) /\ latest <= time /\ latest >= first /\ latest > 0
<1> DEFINE latest == LatestAtOrBefore(s, anchor, time)
<1>1. first \in Nat /\ first > anchor /\ time > anchor  BY DEF OnGrid
<1>2. CASE s.kind = "interval"
  <2> DEFINE e == s.every
             m == time - anchor
             k == m \div e
             r == m % e
  <2>1. /\ e \in Nat \ {0}
        /\ \A j \in Nat \ {0} : OnGrid(s, anchor, anchor + e * j)
        /\ \A x : OnGrid(s, anchor, x) => \E j \in Nat \ {0} : x = anchor + e * j
    BY <1>2, IntervalGrid
  <2>2. latest = IF k < 1 THEN 0 ELSE anchor + e * k  BY <1>1, <1>2 DEF LatestAtOrBefore
  <2> HIDE DEF latest, e
  <2>3. m \in Nat /\ time = anchor + m  BY <1>1
  <2> HIDE DEF m
  <2>4. k \in Nat /\ r \in 0 .. e - 1 /\ m = e * k + r  BY <2>1, <2>3, Division
  <2> HIDE DEF k, r
  <2>5. e * k \in Nat /\ r \in Nat /\ r < e /\ e \in Nat  BY <2>1, <2>4, Multiples
  <2>6. PICK j \in Nat \ {0} : first = anchor + e * j  BY <2>1
  <2>7. e * j \in Nat  BY <2>1, <2>6, Multiples
  <2>8. j <= k
    <3> SUFFICES ASSUME k < j PROVE FALSE  BY <2>4, <2>6
    <3>1. e * k + e <= e * j  BY <2>1, <2>4, Multiples
    <3> DEFINE u == e * k
               v == e * j
    <3>2. u \in Nat /\ v \in Nat /\ u + e <= v /\ first = anchor + v /\ time = anchor + (u + r)
      BY <2>3, <2>4, <2>5, <2>6, <2>7, <3>1
    <3> HIDE DEF u, v
    <3> QED BY <2>5, <3>2
  <2>9. k \in Nat \ {0} /\ latest = anchor + e * k  BY <2>2, <2>4, <2>6, <2>8
  <2>10. OnGrid(s, anchor, latest)  BY <2>1, <2>9
  <2>11. e * j <= e * k  BY <2>1, <2>8, <2>9, Multiples
  <2>12. latest <= time /\ latest >= first
    <3> DEFINE u == e * k
               v == e * j
    <3>1. u \in Nat /\ v \in Nat /\ v <= u /\ first = anchor + v /\ latest = anchor + u /\ time = anchor + (u + r)
      BY <2>3, <2>4, <2>5, <2>6, <2>7, <2>9, <2>11
    <3> HIDE DEF u, v
    <3> QED BY <2>5, <3>1
  <2>13. latest > 0  BY <1>1, <2>10, <2>12 DEF OnGrid
  <2> QED BY <2>10, <2>12, <2>13 DEF latest
<1>3. CASE s.kind # "interval"
  <2> DEFINE L == DayLength
             W == Week
             today == time \div L
             r == time % L
             back == IF today > 2 * W THEN today - 2 * W ELSE 0
             At(d) == LocalAt(s, d)
             days == {d \in back .. today : DayAllowed(s, d) /\ LocalAt(s, d) <= time}
             last == IF days = {} THEN 0 ELSE LocalAt(s, Max(days))
  <2>1. L \in Nat \ {0} /\ W \in Nat \ {0} /\ s.kind = "daily" /\ s.at \in 0 .. L - 1
    BY <1>3, ScheduleAssumption, RecurrenceAssumption
  <2>2. latest = IF last > anchor THEN last ELSE 0  BY <1>1, <1>3 DEF LatestAtOrBefore
  <2> HIDE DEF latest, L, W, last
  <2>3. today \in Nat /\ r \in 0 .. L - 1 /\ time = L * today + r  BY <2>1, Division
  <2> HIDE DEF today, r
  <2>4. /\ \A d \in Nat : At(d) \in Nat
        /\ \A d, f \in Nat : d <= f => At(d) <= At(f)
        /\ \A d \in Nat : DayAllowed(s, d) /\ At(d) > anchor => OnGrid(s, anchor, At(d))
        /\ \A x : OnGrid(s, anchor, x) => \E d \in Nat : DayAllowed(s, d) /\ x = At(d)
    BY <1>3, DailyGrid
  <2>5. ASSUME NEW d \in Nat
        PROVE  /\ At(d) <= time => d <= today
               /\ d < today => At(d) <= time
    <3>1. At(d) = L * d + s.at
      <4>1. d * L = L * d  BY <2>1
      <4> QED BY <4>1 DEF LocalAt, L
    <3>2. L * d \in Nat /\ L * today \in Nat  BY <2>1, <2>3, <2>5, Multiples
    <3>3. d > today => L * today + L <= L * d  BY <2>1, <2>3, <2>5, Multiples
    <3>4. d < today => L * d + L <= L * today  BY <2>1, <2>3, <2>5, Multiples
    <3> DEFINE u == L * d
               v == L * today
               a == s.at
    <3>5. /\ u \in Nat /\ v \in Nat /\ a \in 0 .. L - 1 /\ At(d) = u + a /\ time = v + r
          /\ d > today => v + L <= u
          /\ d < today => u + L <= v
      BY <2>1, <2>3, <3>1, <3>2, <3>3, <3>4
    <3> HIDE DEF u, v, a, At
    <3> QED BY <2>1, <2>3, <2>5, <3>5
  <2> HIDE DEF At
  <2>6. /\ back \in Nat /\ back <= today /\ days \in SUBSET Nat /\ \A d \in days : d <= today
        /\ \A d \in Nat : d < back => back = today - 2 * W
    BY <2>1, <2>3
  <2>7. PICK d0 \in Nat : DayAllowed(s, d0) /\ first = At(d0)  BY <2>4
  <2>8. d0 <= today  BY <2>5, <2>7
  <2>9. \E d \in days : d >= d0
    <3>1. CASE d0 >= back
      <4>1. d0 \in back .. today  BY <2>3, <2>6, <2>7, <2>8, <3>1
      <4>2. d0 \in days  BY <2>7, <4>1 DEF At
      <4> QED BY <2>7, <4>2
    <3>2. CASE d0 < back
      <4>1. back = today - 2 * W  BY <2>6, <2>7, <3>2
      <4>2. PICK d \in back .. back + W - 1 : DayAllowed(s, d)  BY <1>3, <2>6, SomeDay DEF W
      <4>3. d \in Nat /\ d >= d0 /\ d < today /\ d \in back .. today
        <5> HIDE DEF back
        <5> QED BY <2>1, <2>3, <2>6, <2>7, <3>2, <4>1, <4>2
      <4>4. At(d) <= time  BY <2>5, <4>3
      <4>5. d \in days  BY <4>2, <4>3, <4>4 DEF At
      <4> QED BY <4>3, <4>5
    <3> QED BY <2>6, <2>7, <3>1, <3>2
  <2> DEFINE n == Max(days)
  <2>10. n \in days /\ \A d \in days : d <= n
    <3>1. days # {}  BY <2>9
    <3> QED BY <2>3, <2>6, <3>1, MinMax
  <2>11. n \in Nat /\ DayAllowed(s, n) /\ At(n) <= time /\ last = At(n)
    <3>1. days # {}  BY <2>9
    <3> QED BY <2>6, <2>10, <3>1 DEF At, last
  <2>12. n >= d0  BY <2>6, <2>7, <2>9, <2>10
  <2>13. At(n) >= At(d0) /\ At(n) \in Nat /\ At(d0) \in Nat  BY <2>4, <2>7, <2>11, <2>12
  <2>14. last > anchor /\ latest = last /\ last >= first  BY <1>1, <2>2, <2>7, <2>11, <2>13
  <2>15. OnGrid(s, anchor, latest)  BY <2>4, <2>11, <2>14
  <2> QED BY <1>1, <2>11, <2>13, <2>14, <2>15 DEF latest
<1> QED BY <1>2, <1>3

\* The occurrences of (from, to].
Between(s, anchor, from, to) == {x \in Occurrences(s, anchor, to) : x > from}

LEMMA BetweenIs ==
  ASSUME NEW s, NEW anchor \in Nat, NEW from \in Nat, NEW to \in Nat
  PROVE  /\ IsFiniteSet(Between(s, anchor, from, to)) /\ Cardinality(Between(s, anchor, from, to)) \in Nat
         /\ \A x : x \in Between(s, anchor, from, to) <=> OnGrid(s, anchor, x) /\ from < x /\ x <= to
<1>1. IsFiniteSet(Occurrences(s, anchor, to))  BY OccurrencesAre
<1>2. Between(s, anchor, from, to) \subseteq Occurrences(s, anchor, to)  BY DEF Between
<1>3. IsFiniteSet(Between(s, anchor, from, to))  BY <1>1, <1>2, FS_Subset
<1>4. \A x : x \in Between(s, anchor, from, to) <=> OnGrid(s, anchor, x) /\ x <= to /\ x > from
  BY OccurrencesAre DEF Between
<1>5. \A x : OnGrid(s, anchor, x) => x \in Nat  BY DEF OnGrid
<1> QED BY <1>3, <1>4, <1>5, FS_CardinalityType

\* One occurrence fewer from the next one on.
LEMMA OneFewer ==
  ASSUME NEW s \in Schedules, NEW anchor \in Nat, NEW from \in Nat, NEW to \in Nat, from >= anchor
  PROVE  LET next == NextAfter(s, anchor, from) IN
         /\ next \in Nat /\ next > from
         /\ Cardinality(Between(s, anchor, from, to)) =
              IF next > to THEN 0 ELSE 1 + Cardinality(Between(s, anchor, next, to))
<1> DEFINE next == NextAfter(s, anchor, from)
           B(n) == Between(s, anchor, n, to)
<1>1. /\ OnGrid(s, anchor, next) /\ next > from
      /\ \A x : OnGrid(s, anchor, x) /\ x > from => x >= next
  BY NextIs
<1>2. next \in Nat  BY <1>1 DEF OnGrid
<1> HIDE DEF next
<1>3. ASSUME NEW n \in Nat
      PROVE  /\ IsFiniteSet(B(n)) /\ Cardinality(B(n)) \in Nat
             /\ \A x : x \in B(n) <=> OnGrid(s, anchor, x) /\ n < x /\ x <= to
  BY BetweenIs
<1>4. \A x : OnGrid(s, anchor, x) => x \in Nat  BY DEF OnGrid
<1> HIDE DEF B
<1>5. CASE next > to
  <2>1. B(from) = {}  BY <1>1, <1>2, <1>3, <1>4, <1>5
  <2> QED BY <1>1, <1>2, <1>5, <2>1, FS_EmptySet DEF next, B
<1>6. CASE next <= to
  <2>1. next \in B(from) /\ next \notin B(next)  BY <1>1, <1>2, <1>3, <1>6
  <2>2. ASSUME NEW x PROVE x \in B(from) <=> x \in B(next) \/ x = next
    <3>1. CASE OnGrid(s, anchor, x)
      <4>1. x \in Nat /\ (x > from => x >= next)  BY <1>1, <1>4, <3>1
      <4> QED BY <1>1, <1>2, <1>3, <1>6, <4>1
    <3>2. CASE ~OnGrid(s, anchor, x)  BY <1>2, <1>3, <2>1, <3>2
    <3> QED BY <3>1, <3>2
  <2>3. B(from) = B(next) \cup {next}  BY <2>2
  <2>4. Cardinality(B(from)) = Cardinality(B(next)) + 1  BY <1>2, <1>3, <2>1, <2>3, FS_AddElement
  <2>5. Cardinality(B(from)) = 1 + Cardinality(B(next))  BY <1>2, <1>3, <2>4
  <2> QED BY <1>1, <1>2, <1>6, <2>5 DEF next, B
<1> QED BY <1>2, <1>5, <1>6

\* The count is the number of occurrences.
LEMMA CountIs ==
  ASSUME NEW s \in Schedules, NEW anchor \in Nat, NEW from \in Nat, NEW to \in Nat, from >= anchor, from <= to
  PROVE  CountBetween(s, anchor, from, to) = Cardinality(Between(s, anchor, from, to))
<1> DEFINE N(at) == NextAfter(s, anchor, at)
           C(at) == Cardinality(Between(s, anchor, at, to))
           Body(f) == [at \in from .. to |-> IF N(at) > to THEN 0 ELSE 1 + f[N(at)]]
           count == CHOOSE f : f = Body(f)
<1>1. CountBetween(s, anchor, from, to) = count[from]  BY DEF CountBetween
<1>2. ASSUME NEW at \in from .. to
      PROVE  N(at) \in Nat /\ N(at) > at /\ C(at) = IF N(at) > to THEN 0 ELSE 1 + C(N(at))
  <2>1. at \in Nat /\ at >= anchor  OBVIOUS
  <2> QED BY <2>1, OneFewer
<1> HIDE DEF N, C
<1>3. \E f : f = Body(f)
  <2> DEFINE g == [at \in from .. to |-> C(at)]
  <2>1. ASSUME NEW at \in from .. to PROVE g[at] = IF N(at) > to THEN 0 ELSE 1 + g[N(at)]
    <3>1. CASE N(at) > to  BY <1>2, <3>1
    <3>2. CASE ~(N(at) > to)
      <4>1. N(at) \in from .. to  BY <1>2, <3>2
      <4> QED BY <1>2, <3>2, <4>1
    <3> QED BY <3>1, <3>2
  <2>2. g = Body(g)  BY <2>1
  <2> QED BY <2>2
<1>4. count = Body(count)  BY <1>3
<1> HIDE DEF count
<1>5. ASSUME NEW at \in from .. to PROVE count[at] = IF N(at) > to THEN 0 ELSE 1 + count[N(at)]
  BY <1>4
<1> DEFINE bad == {k \in Nat : \E at \in from .. to : k = to - at /\ count[at] # C(at)}
<1>6. bad = {}
  <2> SUFFICES ASSUME bad # {} PROVE FALSE  OBVIOUS
  <2>1. bad \in SUBSET Nat  OBVIOUS
  <2>2. PICK k \in bad : \A m \in bad : k <= m  BY <2>1, Least
  <2>3. PICK at \in from .. to : k = to - at /\ count[at] # C(at)  OBVIOUS
  <2>4. N(at) \in Nat /\ N(at) > at  BY <1>2
  <2>5. N(at) <= to  BY <1>2, <1>5, <2>3, <2>4
  <2>6. N(at) \in from .. to /\ to - N(at) \in Nat /\ to - N(at) < to - at  BY <2>4, <2>5
  <2>7. count[N(at)] # C(N(at))  BY <1>2, <1>5, <2>3, <2>5, <2>6
  <2>8. to - N(at) \in bad  BY <2>6, <2>7
  <2> QED BY <2>2, <2>3, <2>6, <2>8
<1>7. from \in from .. to /\ to - from \in Nat  OBVIOUS
<1>8. count[from] = C(from)  BY <1>6, <1>7
<1> QED BY <1>1, <1>8 DEF C

-----------------------------------------------------------------------------
(* The accounts of a card.                                                 *)

\* How many occurrences of a card's grid there are up to a time, and for how many a run stands.
Reached(c, upto) == Cardinality(Occurrences(c.sched, c.anchor, upto))
Weight(c, r)     == IF r.manual \/ r.due <= c.anchor THEN 0 ELSE r.missed + 1

SameGrid(c, d)  == c.sched = d.sched /\ c.anchor = d.anchor /\ c.handled = d.handled
SameTimes(r, s) == r.due = s.due /\ r.missed = s.missed /\ r.manual = s.manual

\* The engine has on record, but not yet marked on the card, what it decided about t.
Owing(t, e)  == e.task = t /\ e.at \in {"pausing", "marking"} /\ e.run # NoRun
InHand(t, e) == (e.task = t /\ e.at \in Sending) \/ Owing(t, e)
Owed(t, c, e) == IF Owing(t, e) THEN Weight(c, e.run) ELSE 0

\* The accounts of a card c with the log l, after k kills, while the engine is at e.
Accounts(t, c, l, k, e) ==
  /\ IsFiniteSet(Claims(c, l))
  /\ Cardinality(Claims(c, l)) >= Reached(c, c.handled) + Owed(t, c, e)
  /\ k = 0 => Cardinality(Claims(c, l)) = Reached(c, c.handled) + Owed(t, c, e)
  /\ InHand(t, e) /\ ~e.run.manual => Reached(c, e.run.due) = Reached(c, c.handled) + Weight(c, e.run)
  /\ t \in e.todo => SameGrid(c, e.cards[t]) \/ (c.anchor >= e.now /\ Reached(c, c.handled) = 0)

Scheduled(c)   == c \in Cards /\ c.sched \in Schedules
RunBy(r, time) == r \in Runs /\ r.due <= time
LogBy(l, time) == l \in Seq(Runs) /\ \A i \in DOMAIN l : l[i].due <= time
OnRecord(l, r) == \E i \in DOMAIN l : l[i] = r

Works(e, time) ==
  /\ DOMAIN e = EngFields /\ e.at \in AtWork \cup {"idle", "advancing", "deciding"}
  /\ e.now \in Nat /\ e.now <= time
  /\ e.todo \subseteq Tasks /\ \A t \in e.todo : Scheduled(e.cards[t])
  /\ DOMAIN e.runs \subseteq Tasks /\ \A t \in DOMAIN e.runs : RunBy(e.runs[t], time)
  /\ e.at \in AtWork => e.task \in Tasks /\ (e.run = NoRun \/ RunBy(e.run, time))
  /\ e.at \in AtWork \ {"pausing"} => e.run # NoRun
  /\ e.at \in Closing => RunBy(e.closed, time) /\ SameTimes(e.run, e.closed) /\ e.task \notin DOMAIN e.runs
  /\ e.at = "handing" => e.run.snap # NoRun

SurroundingsTyped ==
  /\ now \in 1 .. MaxTime /\ gate \in BOOLEAN /\ gen \in Nat /\ deleting \subseteq Tasks
  /\ slot \in [Agents -> Loops] /\ {busy, reach, dead} \subseteq [Agents -> BOOLEAN]
  /\ "restarts" \in DOMAIN spent /\ spent.restarts \in Nat

Filed ==
  /\ card \in [Tasks -> Cards] /\ DOMAIN log = Tasks
  /\ \A t \in Tasks : /\ Here(t) \/ card[t] \in {NoCard, Gone}
                      /\ Here(t) => Scheduled(card[t])
                      /\ LogBy(log[t], now)

\* What the engine advances and closes is on record, unless the card was deleted.
AdvancesWhatIsFiled ==
  /\ \A t \in DOMAIN eng.runs : ~Deleted(t) => OnRecord(log[t], eng.runs[t])
  /\ eng.at \in Closing /\ ~Deleted(eng.task) => OnRecord(log[eng.task], eng.run)

Balanced == \A t \in Tasks : Here(t) => Accounts(t, card[t], log[t], spent.restarts, eng)

Books == Filed /\ Works(eng, now) /\ AdvancesWhatIsFiled /\ Balanced

AInv == SurroundingsTyped /\ Books

-----------------------------------------------------------------------------
LEMMA ReachedIs ==
  ASSUME NEW c, c.anchor \in Nat, NEW upto \in Nat
  PROVE  /\ Reached(c, upto) \in Nat
         /\ upto <= c.anchor => Reached(c, upto) = 0
<1>1. IsFiniteSet(Occurrences(c.sched, c.anchor, upto))  BY OccurrencesAre
<1>2. Reached(c, upto) \in Nat  BY <1>1, FS_CardinalityType DEF Reached
<1>3. ASSUME upto <= c.anchor PROVE Reached(c, upto) = 0
  <2>1. c.anchor + 1 .. upto = {}  BY <1>3
  <2>2. Occurrences(c.sched, c.anchor, upto) = {}  BY <2>1 DEF Occurrences
  <2> QED BY <2>2, FS_EmptySet DEF Reached
<1> QED BY <1>2, <1>3

\* A cardinality that splits in two.
LEMMA ReachedSplits ==
  ASSUME NEW c, c.anchor \in Nat, NEW from \in Nat, NEW to \in Nat, from <= to
  PROVE  Reached(c, to) = Reached(c, from) + Cardinality(Between(c.sched, c.anchor, from, to))
<1> DEFINE A == Occurrences(c.sched, c.anchor, from)
           B == Between(c.sched, c.anchor, from, to)
           C == Occurrences(c.sched, c.anchor, to)
<1>1. /\ \A x : x \in A <=> OnGrid(c.sched, c.anchor, x) /\ x <= from
      /\ \A x : x \in C <=> OnGrid(c.sched, c.anchor, x) /\ x <= to
      /\ IsFiniteSet(A)
  BY OccurrencesAre
<1>2. /\ \A x : x \in B <=> OnGrid(c.sched, c.anchor, x) /\ from < x /\ x <= to
      /\ IsFiniteSet(B)
  BY BetweenIs
<1>3. \A x : OnGrid(c.sched, c.anchor, x) => x \in Nat  BY DEF OnGrid
<1> HIDE DEF A, B, C
<1>4. \A x : x \in C <=> x \in A \/ x \in B
  <2> SUFFICES ASSUME NEW x, OnGrid(c.sched, c.anchor, x) PROVE x \in C <=> x \in A \/ x \in B  BY <1>1, <1>2
  <2>1. x \in Nat  BY <1>3
  <2> QED BY <1>1, <1>2, <2>1
<1>5. C = A \cup B  BY <1>4
<1>6. A \cap B = {}  BY <1>1, <1>2, <1>3
<1>7. Cardinality(A \cap B) = 0  BY <1>6, FS_EmptySet
<1>8. Cardinality(A) \in Nat /\ Cardinality(B) \in Nat  BY <1>1, <1>2, FS_CardinalityType
<1>9. Cardinality(C) = Cardinality(A) + Cardinality(B) - Cardinality(A \cap B)  BY <1>1, <1>2, <1>5, FS_Union
<1>10. Cardinality(C) = Cardinality(A) + Cardinality(B)  BY <1>7, <1>8, <1>9
<1> QED BY <1>10 DEF Reached, A, B, C

\* What a card that is due is going to put behind itself: a newest occurrence that is over,
\* and with it all since the last one it handled (Recurrence.Decide).
LEMMA DueIs ==
  ASSUME NEW c, Scheduled(c), NEW time \in Nat, IsDue(c, time)
  PROVE  /\ Due(c, time) \in Nat /\ Due(c, time) <= time /\ Due(c, time) > c.anchor
         /\ Missed(c, time) \in Nat
         /\ Reached(c, Due(c, time)) = Reached(c, c.handled) + (Missed(c, time) + 1)
<1> DEFINE s == c.sched
           a == c.anchor
           h == c.handled
           from == SettledUntil(c)
           first == NextAfter(s, a, from)
           due == Due(c, time)
           B == Cardinality(Between(s, a, from, due))
<1>1. s \in Schedules /\ a \in Nat /\ h \in Nat  BY DEF Scheduled, Cards
<1>2. from \in Nat /\ from >= a /\ (from = h \/ (from = a /\ h <= a))  BY <1>1 DEF SettledUntil
<1>3. OnGrid(s, a, first) /\ first > from  BY <1>1, <1>2, NextIs
<1>4. first <= time  BY DEF IsDue
<1>5. first \in Nat  BY <1>3 DEF OnGrid
<1> DEFINE latest == LatestAtOrBefore(s, a, time)
<1>6. OnGrid(s, a, latest) /\ latest <= time /\ latest >= first /\ latest > 0  BY <1>1, <1>3, <1>4, LatestIs
<1>7. due = latest  BY <1>6 DEF Due
<1>8. Missed(c, time) = CountBetween(s, a, from, due) - 1  BY DEF Missed
<1> HIDE DEF from, first, due, latest
<1>9. due \in Nat /\ due <= time /\ due > from /\ due > a  BY <1>1, <1>2, <1>3, <1>5, <1>6, <1>7 DEF OnGrid
<1>10. CountBetween(s, a, from, due) = B  BY <1>1, <1>2, <1>9, CountIs
<1>11. B \in Nat \ {0}
  <2>1. /\ IsFiniteSet(Between(s, a, from, due)) /\ B \in Nat
        /\ \A x : x \in Between(s, a, from, due) <=> OnGrid(s, a, x) /\ from < x /\ x <= due
    BY <1>1, <1>2, <1>9, BetweenIs
  <2>2. due \in Between(s, a, from, due)  BY <1>2, <1>6, <1>7, <1>9, <2>1
  <2> QED BY <2>1, <2>2, FS_EmptySet
<1>12. Reached(c, due) = Reached(c, from) + B  BY <1>1, <1>2, <1>9, ReachedSplits
<1>13. Reached(c, from) = Reached(c, h) /\ Reached(c, h) \in Nat
  <2>1. Reached(c, h) \in Nat /\ (h <= a => Reached(c, h) = 0)  BY <1>1, ReachedIs
  <2>2. from = a => Reached(c, from) = 0  BY <1>1, <1>2, ReachedIs
  <2> QED BY <1>2, <2>1, <2>2
<1> HIDE DEF B
<1>14. Missed(c, time) \in Nat /\ Missed(c, time) + 1 = B  BY <1>8, <1>10, <1>11
<1> QED BY <1>9, <1>12, <1>13, <1>14 DEF due

-----------------------------------------------------------------------------
(* What a log claims.                                                      *)

\* The runs that stand for occurrences of the grid of c.
Counts(c, r) == ~r.manual /\ r.due > c.anchor

LEMMA ClaimsAre ==
  ASSUME NEW c, NEW l
  PROVE  \A x : x \in Claims(c, l) <=> \E i \in DOMAIN l : Counts(c, l[i]) /\ x \in {i} \X (0 .. l[i].missed)
BY DEF Claims, Counts

\* Records of the same times claim the same.
LEMMA SameClaims ==
  ASSUME NEW c, NEW d, c.anchor = d.anchor, NEW l, NEW m,
         DOMAIN m = DOMAIN l, \A i \in DOMAIN l : SameTimes(l[i], m[i])
  PROVE  Claims(d, m) = Claims(c, l)
<1>1. \A i \in DOMAIN l : (Counts(c, l[i]) <=> Counts(d, m[i])) /\ l[i].missed = m[i].missed
  BY DEF SameTimes, Counts
<1>2. \A x : x \in Claims(d, m) <=> x \in Claims(c, l)
  <2> SUFFICES ASSUME NEW x PROVE x \in Claims(d, m) <=> x \in Claims(c, l)  OBVIOUS
  <2>1. x \in Claims(c, l) <=> \E i \in DOMAIN l : Counts(c, l[i]) /\ x \in {i} \X (0 .. l[i].missed)  BY ClaimsAre
  <2>2. x \in Claims(d, m) <=> \E i \in DOMAIN m : Counts(d, m[i]) /\ x \in {i} \X (0 .. m[i].missed)  BY ClaimsAre
  <2> QED BY <1>1, <2>1, <2>2
<1> QED BY <1>2

\* One record more.
LEMMA OneClaimMore ==
  ASSUME NEW c, c.anchor \in Nat, NEW l \in Seq(Runs), NEW r \in Runs, IsFiniteSet(Claims(c, l))
  PROVE  /\ IsFiniteSet(Claims(c, Append(l, r)))
         /\ Cardinality(Claims(c, Append(l, r))) = Cardinality(Claims(c, l)) + Weight(c, r)
<1> DEFINE m == Append(l, r)
           n == Len(l) + 1
           A == Claims(c, l)
           M == Claims(c, m)
           N == {n} \X (0 .. r.missed)
<1>1. /\ Len(l) \in Nat /\ DOMAIN l = 1 .. Len(l) /\ DOMAIN m = 1 .. n
      /\ \A i \in DOMAIN l : m[i] = l[i]
      /\ m[n] = r
  BY AppendProperties
<1>2. r.missed \in Nat /\ r.due \in Nat /\ r.manual \in BOOLEAN  BY DEF Runs
<1>3. \A i : i \in DOMAIN m <=> i \in DOMAIN l \/ i = n  BY <1>1
<1>4. n \notin DOMAIN l  BY <1>1
<1> HIDE DEF m, n
<1>5. /\ \A x : x \in A <=> \E i \in DOMAIN l : Counts(c, l[i]) /\ x \in {i} \X (0 .. l[i].missed)
      /\ \A x : x \in M <=> \E i \in DOMAIN m : Counts(c, m[i]) /\ x \in {i} \X (0 .. m[i].missed)
  BY ClaimsAre
<1>6. \A x : x \in M <=> x \in A \/ (Counts(c, r) /\ x \in N)  BY <1>1, <1>3, <1>5
<1>7. A \cap N = {}
  <2> SUFFICES ASSUME NEW x \in A, x \in N PROVE FALSE  OBVIOUS
  <2>1. PICK i \in DOMAIN l : x \in {i} \X (0 .. l[i].missed)  BY <1>5
  <2>2. x[1] = i /\ x[1] = n  BY <2>1
  <2> QED BY <1>4, <2>1, <2>2
<1>8. IsFiniteSet(A) /\ Cardinality(A) \in Nat  BY FS_CardinalityType
<1> HIDE DEF A, M
<1>9. CASE Counts(c, r)
  <2>1. M = A \cup N  BY <1>6, <1>9
  <2>2. IsFiniteSet({n}) /\ Cardinality({n}) = 1  BY FS_Singleton
  <2>3. IsFiniteSet(0 .. r.missed) /\ Cardinality(0 .. r.missed) = r.missed + 1
    <3>1. 0 \in Int /\ r.missed \in Int /\ ~(0 > r.missed) /\ r.missed - 0 + 1 = r.missed + 1  BY <1>2
    <3> QED BY <3>1, FS_Interval
  <2>4. IsFiniteSet(N) /\ Cardinality(N) = 1 * (r.missed + 1)  BY <2>2, <2>3, FS_Product
  <2>5. Cardinality(N) = r.missed + 1  BY <1>2, <2>4
  <2>6. Cardinality(A \cap N) = 0  BY <1>7, FS_EmptySet
  <2>7. IsFiniteSet(M) /\ Cardinality(M) = Cardinality(A) + Cardinality(N) - Cardinality(A \cap N)
    BY <1>8, <2>1, <2>4, FS_Union
  <2>8. Weight(c, r) = r.missed + 1  BY <1>2, <1>9 DEF Weight, Counts
  <2>9. Cardinality(M) = Cardinality(A) + Weight(c, r)  BY <1>2, <1>8, <2>5, <2>6, <2>7, <2>8
  <2> QED BY <2>7, <2>9 DEF M, A, m
<1>10. CASE ~Counts(c, r)
  <2>1. M = A  BY <1>6, <1>10
  <2>2. Weight(c, r) = 0  BY <1>2, <1>10 DEF Weight, Counts
  <2>3. Cardinality(M) = Cardinality(A) + Weight(c, r)  BY <1>8, <2>1, <2>2
  <2> QED BY <1>8, <2>1, <2>3 DEF M, A, m
<1> QED BY <1>9, <1>10

-----------------------------------------------------------------------------
(* How the accounts of a card change.                                      *)

LEMMA WeightIs ==
  ASSUME NEW c, c.anchor \in Nat, NEW r \in Runs
  PROVE  /\ Weight(c, r) \in Nat
         /\ r.manual => Weight(c, r) = 0
         /\ r.due <= c.anchor => Weight(c, r) = 0
         /\ \A d, s : d.anchor = c.anchor /\ SameTimes(r, s) => Weight(d, s) = Weight(c, r)
<1>1. r.missed \in Nat /\ r.due \in Nat /\ r.manual \in BOOLEAN  BY DEF Runs
<1> QED BY <1>1 DEF Weight, SameTimes

\* The engine moves on without deciding, recording or marking an occurrence of t.
Moves(t, c, e, f) ==
  /\ t \in f.todo => \/ t \in e.todo /\ f.cards = e.cards /\ f.now = e.now
                     \/ f.cards[t] = c
  /\ Owing(t, f) <=> Owing(t, e)
  /\ InHand(t, f) => \/ InHand(t, e) /\ e.run \in Runs /\ SameTimes(e.run, f.run)
                     \/ f.run.manual /\ ~Owing(t, f)

LEMMA EngineMovesOn ==
  ASSUME NEW t, NEW c, NEW l, NEW k, NEW e, NEW f,
         Scheduled(c), Accounts(t, c, l, k, e), Moves(t, c, e, f)
  PROVE  Accounts(t, c, l, k, f)
<1>1. c.anchor \in Nat  BY DEF Scheduled, Cards
<1>2. InHand(t, e) /\ e.run \in Runs /\ SameTimes(e.run, f.run) => Weight(c, f.run) = Weight(c, e.run)  BY <1>1, WeightIs
<1>3. Owed(t, c, f) = Owed(t, c, e)  BY <1>2 DEF Owed, InHand, Moves
<1>4. InHand(t, f) /\ ~f.run.manual => Reached(c, f.run.due) = Reached(c, c.handled) + Weight(c, f.run)
  BY <1>2 DEF Accounts, SameTimes, Moves
<1>5. t \in f.todo => SameGrid(c, f.cards[t]) \/ (c.anchor >= f.now /\ Reached(c, c.handled) = 0)
  BY DEF Accounts, Moves, SameGrid
<1> QED BY <1>3, <1>4, <1>5 DEF Accounts

\* A change of the card, or of the record, that leaves its grid and its times alone.
LEMMA SameAccounts ==
  ASSUME NEW t, NEW c, NEW d, NEW l, NEW m, NEW k, NEW e,
         SameGrid(c, d), DOMAIN m = DOMAIN l, \A i \in DOMAIN l : SameTimes(l[i], m[i]),
         Accounts(t, c, l, k, e)
  PROVE  Accounts(t, d, m, k, e)
<1>1. c.sched = d.sched /\ c.anchor = d.anchor /\ c.handled = d.handled  BY DEF SameGrid
<1>2. Claims(d, m) = Claims(c, l)  BY <1>1, SameClaims
<1>3. Reached(d, d.handled) = Reached(c, c.handled) /\ \A x : Reached(d, x) = Reached(c, x)  BY <1>1 DEF Reached
<1>4. \A r : Weight(d, r) = Weight(c, r)  BY <1>1 DEF Weight
<1>5. Owed(t, d, e) = Owed(t, c, e)  BY <1>4 DEF Owed
<1>6. \A x : SameGrid(d, x) <=> SameGrid(c, x)  BY <1>1 DEF SameGrid
<1> QED BY <1>1, <1>2, <1>3, <1>4, <1>5, <1>6 DEF Accounts

\* A new grid owes nothing and claims nothing.
LEMMA NewGrid ==
  ASSUME NEW t, NEW c, NEW l, NEW k, NEW e, NEW time \in Nat,
         Scheduled(c), c.anchor = time, c.handled = 0, LogBy(l, time), Works(e, time)
  PROVE  Accounts(t, c, l, k, e)
<1>1. Reached(c, c.handled) = 0  BY ReachedIs
<1>2. Claims(c, l) = {}
  <2>1. \A i \in DOMAIN l : ~Counts(c, l[i])
    <3> SUFFICES ASSUME NEW i \in DOMAIN l PROVE ~Counts(c, l[i])  OBVIOUS
    <3>1. l[i] \in Runs /\ l[i].due <= time  BY DEF LogBy
    <3>2. l[i].due \in Nat  BY <3>1 DEF Runs
    <3> QED BY <3>1, <3>2 DEF Counts
  <2>2. \A x : x \notin Claims(c, l)  BY <2>1, ClaimsAre
  <2> QED BY <2>2
<1>3. IsFiniteSet(Claims(c, l)) /\ Cardinality(Claims(c, l)) = 0  BY <1>2, FS_EmptySet
<1>4. InHand(t, e) => e.run \in Runs /\ e.run.due \in Nat /\ e.run.due <= time
  <2>1. InHand(t, e) => e.at \in AtWork /\ e.run # NoRun  BY DEF InHand, Owing, Works, AtWork, Sending
  <2>2. InHand(t, e) => RunBy(e.run, time)  BY <2>1 DEF Works
  <2> QED BY <2>2 DEF RunBy, Runs
<1>5. InHand(t, e) => Weight(c, e.run) = 0 /\ Reached(c, e.run.due) = 0  BY <1>4, WeightIs, ReachedIs
<1>6. Owed(t, c, e) = 0  BY <1>5 DEF Owed, InHand
<1>7. c.anchor >= e.now  BY DEF Works
<1> QED BY <1>1, <1>3, <1>5, <1>6, <1>7 DEF Accounts

\* What the engine decides about a card that is due.
LEMMA DecidedIs ==
  ASSUME NEW t, NEW c, NEW l, NEW k, NEW e, NEW f, NEW time \in Nat,
         Scheduled(c), Accounts(t, c, l, k, e), t \in e.todo, Works(e, time),
         ~Owing(t, e), IsDue(e.cards[t], e.now),
         f.task = t, f.at = "arming", f.run = Occurrence(e.cards[t], e.now),
         f.todo = e.todo, f.cards = e.cards, f.now = e.now
  PROVE  /\ Accounts(t, c, l, k, f)
         /\ f.run \in Runs /\ f.run.due <= e.now
<1> DEFINE d == e.cards[t]
           r == f.run
<1>1. Scheduled(d) /\ e.now \in Nat  BY DEF Works
<1>2. c.anchor \in Nat /\ d.anchor \in Nat /\ c.handled \in Nat /\ d.mode \in Modes
  BY <1>1 DEF Scheduled, Cards
<1>3. /\ Due(d, e.now) \in Nat /\ Due(d, e.now) <= e.now /\ Due(d, e.now) > d.anchor
      /\ Missed(d, e.now) \in Nat
      /\ Reached(d, Due(d, e.now)) = Reached(d, d.handled) + (Missed(d, e.now) + 1)
  BY <1>1, DueIs
<1>4. r = NewRun(Due(d, e.now), Missed(d, e.now), FALSE, d.mode, e.now)  BY DEF Occurrence
<1>5. r.due = Due(d, e.now) /\ r.missed = Missed(d, e.now) /\ ~r.manual  BY <1>4 DEF NewRun
<1>6. r \in Runs  BY <1>1, <1>2, <1>3, <1>4 DEF NewRun, Runs
<1>7. r.due \in Nat /\ r.due <= e.now  BY <1>3, <1>5
<1> HIDE DEF r
<1>8. Reached(c, r.due) = Reached(c, c.handled) + Weight(c, r)
  <2>1. CASE SameGrid(c, d)
    <3>1. c.sched = d.sched /\ c.anchor = d.anchor /\ c.handled = d.handled  BY <2>1 DEF SameGrid
    <3>2. \A x : Reached(c, x) = Reached(d, x)  BY <3>1 DEF Reached
    <3>3. Weight(c, r) = r.missed + 1  BY <1>2, <1>3, <1>5, <1>7, <3>1 DEF Weight
    <3> HIDE DEF d
    <3> QED BY <1>3, <1>5, <3>1, <3>2, <3>3
  <2>2. CASE c.anchor >= e.now /\ Reached(c, c.handled) = 0
    <3>1. r.due <= c.anchor  BY <1>1, <1>2, <1>7, <2>2
    <3>2. Weight(c, r) = 0 /\ Reached(c, r.due) = 0  BY <1>2, <1>6, <1>7, <3>1, WeightIs, ReachedIs
    <3> QED BY <2>2, <3>2
  <2> QED BY <2>1, <2>2 DEF Accounts
<1>9. ~Owing(t, f) /\ InHand(t, f)  BY DEF Owing, InHand, Sending
<1>10. Owed(t, c, f) = Owed(t, c, e)  BY <1>9 DEF Owed
<1>11. Accounts(t, c, l, k, f)  BY <1>8, <1>10 DEF Accounts, r
<1> QED BY <1>6, <1>7, <1>11 DEF r

\* The run at hand goes on record.
LEMMA RecordedIs ==
  ASSUME NEW t, NEW c, NEW l \in Seq(Runs), NEW k, NEW e, NEW f, NEW r \in Runs,
         Scheduled(c), Accounts(t, c, l, k, e), InHand(t, e), ~Owing(t, e), Owing(t, f),
         e.run \in Runs, f.run = e.run, SameTimes(e.run, r),
         t \in f.todo => t \in e.todo /\ f.cards = e.cards /\ f.now = e.now
  PROVE  Accounts(t, c, Append(l, r), k, f)
<1>1. c.anchor \in Nat /\ c.handled \in Nat  BY DEF Scheduled, Cards
<1>2. IsFiniteSet(Claims(c, l))  BY DEF Accounts
<1>3. /\ IsFiniteSet(Claims(c, Append(l, r)))
      /\ Cardinality(Claims(c, Append(l, r))) = Cardinality(Claims(c, l)) + Weight(c, r)
  BY <1>1, <1>2, OneClaimMore
<1>4. Weight(c, r) = Weight(c, e.run) /\ Weight(c, e.run) \in Nat  BY <1>1, WeightIs
<1>5. Owed(t, c, e) = 0 /\ Owed(t, c, f) = Weight(c, e.run)  BY DEF Owed
<1>6. Reached(c, c.handled) \in Nat /\ Cardinality(Claims(c, l)) \in Nat  BY <1>1, <1>2, ReachedIs, FS_CardinalityType
<1>7. /\ Cardinality(Claims(c, l)) >= Reached(c, c.handled)
      /\ k = 0 => Cardinality(Claims(c, l)) = Reached(c, c.handled)
  BY <1>5, <1>6 DEF Accounts
<1>8. ~f.run.manual => Reached(c, f.run.due) = Reached(c, c.handled) + Weight(c, f.run)  BY DEF Accounts
<1>9. t \in f.todo => SameGrid(c, f.cards[t]) \/ (c.anchor >= f.now /\ Reached(c, c.handled) = 0)  BY DEF Accounts
<1>10. /\ Cardinality(Claims(c, Append(l, r))) >= Reached(c, c.handled) + Owed(t, c, f)
       /\ k = 0 => Cardinality(Claims(c, Append(l, r))) = Reached(c, c.handled) + Owed(t, c, f)
  BY <1>3, <1>4, <1>5, <1>6, <1>7
<1> QED BY <1>3, <1>8, <1>9, <1>10 DEF Accounts

\* The card is marked.
LEMMA MarkedIs ==
  ASSUME NEW t, NEW c, NEW l, NEW k, NEW e, NEW f,
         Scheduled(c), c.is = "here", Accounts(t, c, l, k, e), Owing(t, e), e.run \in Runs,
         ~InHand(t, f), t \notin f.todo
  PROVE  Accounts(t, Handled(c, e.run), l, k, f) /\ Scheduled(Handled(c, e.run))
<1> DEFINE r == e.run
           d == Handled(c, r)
<1>1. c \in Cards /\ c.sched \in Schedules /\ c.anchor \in Nat /\ c.handled \in Nat  BY DEF Scheduled, Cards
<1>2. r.due \in Nat /\ r.manual \in BOOLEAN  BY DEF Runs
<1>3. d \in Cards /\ d.sched = c.sched /\ d.anchor = c.anchor /\ d.handled = IF r.manual THEN c.handled ELSE r.due
  BY <1>1, <1>2 DEF Handled, Cards
<1> HIDE DEF d
<1>4. Claims(d, l) = Claims(c, l)
  <2>1. \A i \in DOMAIN l : SameTimes(l[i], l[i])  BY DEF SameTimes
  <2> QED BY <1>3, <2>1, SameClaims
<1>5. \A x : Reached(d, x) = Reached(c, x)  BY <1>3 DEF Reached
<1>6. Weight(c, r) \in Nat /\ (r.manual => Weight(c, r) = 0)  BY <1>1, WeightIs
<1>7. Owed(t, c, e) = Weight(c, r) /\ Owed(t, d, f) = 0  BY DEF Owed, InHand
<1>8. Reached(d, d.handled) = Reached(c, c.handled) + Weight(c, r)
  <2>1. CASE r.manual
    <3>1. Reached(c, c.handled) \in Nat  BY <1>1, ReachedIs
    <3> QED BY <1>3, <1>5, <1>6, <2>1, <3>1
  <2>2. CASE ~r.manual
    <3>1. Reached(c, r.due) = Reached(c, c.handled) + Weight(c, r)  BY <2>2 DEF Accounts, InHand
    <3> QED BY <1>3, <1>5, <2>2, <3>1
  <2> QED BY <2>1, <2>2
<1>9. Reached(d, d.handled) + 0 = Reached(d, d.handled)
  <2>1. d.handled \in Nat /\ d.anchor \in Nat  BY <1>1, <1>2, <1>3
  <2>2. Reached(d, d.handled) \in Nat  BY <2>1, ReachedIs
  <2> QED BY <2>2
<1>10. Accounts(t, d, l, k, f)  BY <1>4, <1>7, <1>8, <1>9 DEF Accounts
<1> QED BY <1>1, <1>3, <1>10 DEF Scheduled, d

\* A kill in between: what was recorded and not marked is recorded again.
LEMMA KilledIs ==
  ASSUME NEW t, NEW c, NEW l, NEW k \in Nat, NEW e, NEW f, NEW time \in Nat,
         Scheduled(c), Accounts(t, c, l, k, e), Works(e, time),
         ~InHand(t, f), t \notin f.todo
  PROVE  Accounts(t, c, l, k + 1, f)
<1>1. c.anchor \in Nat /\ c.handled \in Nat  BY DEF Scheduled, Cards
<1>2. Owing(t, e) => e.run \in Runs
  <2>1. Owing(t, e) => e.at \in AtWork /\ e.run # NoRun  BY DEF Owing, AtWork
  <2> QED BY <2>1 DEF Works, RunBy
<1>3. Owed(t, c, e) \in Nat  BY <1>1, <1>2, WeightIs DEF Owed
<1>4. Reached(c, c.handled) \in Nat /\ Cardinality(Claims(c, l)) \in Nat
  BY <1>1, ReachedIs, FS_CardinalityType DEF Accounts
<1>5. Owed(t, c, f) = 0  BY DEF Owed, InHand
<1>6. Cardinality(Claims(c, l)) >= Reached(c, c.handled) + Owed(t, c, e)  BY DEF Accounts
<1>7. Cardinality(Claims(c, l)) >= Reached(c, c.handled) + Owed(t, c, f)  BY <1>3, <1>4, <1>5, <1>6
<1>8. k + 1 # 0  OBVIOUS
<1> QED BY <1>7, <1>8 DEF Accounts

-----------------------------------------------------------------------------
(* Surroundings.                                                           *)

LEMMA SurroundingsAreKept ==
  ASSUME AInv, [Next]_vars
  PROVE  SurroundingsTyped'
<1>1. /\ now \in 1 .. MaxTime /\ gate \in BOOLEAN /\ gen \in Nat /\ deleting \subseteq Tasks
      /\ slot \in [Agents -> Loops]
      /\ busy \in [Agents -> BOOLEAN] /\ reach \in [Agents -> BOOLEAN] /\ dead \in [Agents -> BOOLEAN]
      /\ "restarts" \in DOMAIN spent /\ spent.restarts \in Nat
      /\ MaxTime \in Nat \ {0} /\ \A t \in Tasks : Agent[t] \in Agents
  BY RecurringAssumption DEF AInv, SurroundingsTyped
<1>2. ASSUME NEW by \in {"operator", "recurring"} PROVE Armed(gen + 1, by) \in Loops
  BY <1>1 DEF Armed, Loops
<1>3. ASSUME NEW a \in Agents PROVE Resolved(slot[a]) \in Loops
  BY <1>1 DEF Resolved, Loops
<1>4. eng.at \in AtWork => eng.task \in Tasks /\ Agent[eng.task] \in Agents
  BY <1>1 DEF AInv, Books, Works
<1> DEFINE Same == UNCHANGED <<now, gate, deleting, slot, gen, busy, reach, dead, spent>>
           Spent == "restarts" \in DOMAIN spent' /\ spent'.restarts \in Nat
<1>5. CASE Same  BY <1>1, <1>5 DEF SurroundingsTyped
<1>6. ASSUME NEW kind, Act(kind) PROVE Spent  BY <1>1, <1>6 DEF Act
<1>7. CASE EngineStep
  <2>1. CASE TickBegins \/ ListCards \/ CloseRun \/ PauseIfFailing \/ BorrowSlot \/ PeerGone \/ LogRun \/ MarkHandled \/ TickEnds
             \/ \E t \in Tasks : Advance(t) \/ DecideCard(t)
    <3>1. Same  BY <2>1 DEF TickBegins, ListCards, CloseRun, PauseIfFailing, BorrowSlot, PeerGone, LogRun, MarkHandled, TickEnds,
                             Advance, DecideCard
    <3> QED BY <1>5, <3>1
  <2>2. CASE HandBack
    <3> DEFINE a == Agent[eng.task]
               e == RestoreSnapshot(slot[a], eng.run.snap, eng.run.loop)
    <3>1. eng.at = "handing" /\ slot' = [slot EXCEPT ![a] = e]
          /\ UNCHANGED <<now, gate, deleting, gen, busy, reach, dead, spent>>  BY <2>2 DEF HandBack
    <3>2. eng.run \in Runs /\ eng.run.snap # NoRun  BY <3>1 DEF AInv, Books, Works, AtWork, RunBy
    <3>3. eng.run.snap \in Loops  BY <3>2 DEF Runs
    <3>4. a \in Agents  BY <1>4, <3>1 DEF AtWork
    <3>5. e \in Loops  BY <1>1, <3>3, <3>4 DEF RestoreSnapshot
    <3> HIDE DEF e
    <3>6. slot' \in [Agents -> Loops]  BY <1>1, <3>1, <3>4, <3>5
    <3> QED BY <1>1, <3>1, <3>6 DEF SurroundingsTyped
  <2>3. CASE StartLoop
    <3> DEFINE a == Agent[eng.task]
               e == Armed(gen + 1, "recurring")
    <3>1. /\ eng.at = "starting" /\ gen' = gen + 1
          /\ slot' = [slot EXCEPT ![a] = e] /\ dead' = [dead EXCEPT ![a] = FALSE]
          /\ UNCHANGED <<now, gate, deleting, busy, reach, spent>>  BY <2>3 DEF StartLoop
    <3>2. e \in Loops  BY <1>2
    <3> HIDE DEF e
    <3>3. a \in Agents  BY <1>4, <3>1 DEF AtWork
    <3>4. slot' \in [Agents -> Loops] /\ dead' \in [Agents -> BOOLEAN] /\ gen' \in Nat  BY <1>1, <3>1, <3>2, <3>3
    <3> QED BY <1>1, <3>1, <3>4 DEF SurroundingsTyped
  <2>4. CASE SendOnce
    <3> DEFINE a == Agent[eng.task]
    <3>1. /\ eng.at = "arming" /\ (busy' = busy \/ busy' = [busy EXCEPT ![a] = TRUE])
          /\ UNCHANGED <<now, gate, deleting, slot, gen, reach, dead, spent>>  BY <2>4 DEF SendOnce
    <3>2. busy' \in [Agents -> BOOLEAN]  BY <1>1, <3>1
    <3> QED BY <1>1, <3>1, <3>2 DEF SurroundingsTyped
  <2> QED BY <1>7, <2>1, <2>2, <2>3, <2>4 DEF EngineStep
<1>8. CASE Users
  <2>1. ASSUME NEW t \in Tasks, RunNow(t) PROVE SurroundingsTyped'
    <3>1. Act("run") /\ UNCHANGED <<now, gate, deleting, slot, gen, busy, reach, dead>>  BY <2>1 DEF RunNow
    <3>2. Spent  BY <1>6, <3>1
    <3> QED BY <1>1, <3>1, <3>2 DEF SurroundingsTyped
  <2>2. ASSUME NEW t \in Tasks, StopRun(t) PROVE SurroundingsTyped'
    <3> DEFINE a == Agent[t]
               e == IF slot[a].active THEN Resolved(slot[a]) ELSE slot[a]
    <3>1. /\ Act("stop") /\ slot' = [slot EXCEPT ![a] = e]
          /\ UNCHANGED <<now, gate, deleting, gen, busy, reach, dead>>  BY <2>2 DEF StopRun
    <3>2. Spent  BY <1>6, <3>1
    <3>3. a \in Agents /\ e \in Loops  BY <1>1, <1>3
    <3> HIDE DEF e
    <3>4. slot' \in [Agents -> Loops]  BY <1>1, <3>1, <3>3
    <3> QED BY <1>1, <3>1, <3>2, <3>4 DEF SurroundingsTyped
  <2>3. ASSUME NEW kind, NEW t \in Tasks, NEW c, Command(kind, t, c) PROVE SurroundingsTyped'
    <3>1. Act(kind) /\ UNCHANGED <<now, gate, deleting, slot, gen, busy, reach, dead>>  BY <2>3 DEF Command
    <3>2. Spent  BY <1>6, <3>1
    <3> QED BY <1>1, <3>1, <3>2 DEF SurroundingsTyped
  <2>4. ASSUME NEW t \in Tasks, DeleteLooks(t) PROVE SurroundingsTyped'
    <3>1. Act("delete") /\ deleting' = deleting \cup {t} /\ UNCHANGED <<now, gate, slot, gen, busy, reach, dead>>
      BY <2>4 DEF DeleteLooks
    <3>2. Spent  BY <1>6, <3>1
    <3> QED BY <1>1, <3>1, <3>2 DEF SurroundingsTyped
  <2>5. ASSUME NEW a \in Agents, OperatorArms(a) PROVE SurroundingsTyped'
    <3> DEFINE e == Armed(gen + 1, "operator")
    <3>1. /\ Act("arm") /\ gen' = gen + 1 /\ slot' = [slot EXCEPT ![a] = e] /\ dead' = [dead EXCEPT ![a] = FALSE]
          /\ UNCHANGED <<now, gate, deleting, busy, reach>>  BY <2>5 DEF OperatorArms
    <3>2. Spent  BY <1>6, <3>1
    <3>3. e \in Loops  BY <1>2
    <3> HIDE DEF e
    <3>4. slot' \in [Agents -> Loops] /\ dead' \in [Agents -> BOOLEAN] /\ gen' \in Nat  BY <1>1, <3>1, <3>3
    <3> QED BY <1>1, <3>1, <3>2, <3>4 DEF SurroundingsTyped
  <2>6. ASSUME NEW t \in Tasks, Pause(t) \/ Resume(t) PROVE SurroundingsTyped'
    BY <2>3, <2>6 DEF Pause, Resume
  <2>7. ASSUME NEW t \in Tasks, NEW s \in Schedules, NEW m \in Modes, Create(t, s, m) \/ \E on \in BOOLEAN : Edit(t, s, m, on)
        PROVE  SurroundingsTyped'
    BY <2>3, <2>7 DEF Create, Edit
  <2> QED BY <1>8, <2>1, <2>2, <2>4, <2>5, <2>6, <2>7 DEF Users
<1>9. CASE Surroundings
  <2>1. ASSUME NEW t \in Tasks, DeleteRemoves(t) PROVE SurroundingsTyped'
    <3>1. deleting' = deleting \ {t} /\ UNCHANGED <<now, gate, slot, gen, busy, reach, dead, spent>>  BY <2>1 DEF DeleteRemoves
    <3> QED BY <1>1, <3>1 DEF SurroundingsTyped
  <2>2. ASSUME NEW a \in Agents, LoopResolves(a) PROVE SurroundingsTyped'
    <3>1. slot' = [slot EXCEPT ![a] = Resolved(slot[a])] /\ UNCHANGED <<now, gate, deleting, gen, busy, reach, dead, spent>>
      BY <2>2 DEF LoopResolves
    <3>2. slot' \in [Agents -> Loops]  BY <1>1, <1>3, <3>1
    <3> QED BY <1>1, <3>1, <3>2 DEF SurroundingsTyped
  <2>3. ASSUME NEW a \in Agents, TurnStarts(a) \/ TurnEnds(a) PROVE SurroundingsTyped'
    <3>1. /\ busy' = [busy EXCEPT ![a] = TRUE] \/ busy' = [busy EXCEPT ![a] = FALSE]
          /\ spent' = spent \/ spent' = [spent EXCEPT !.turns = @ + 1]
          /\ UNCHANGED <<now, gate, deleting, slot, gen, reach, dead>>
      BY <2>3 DEF TurnStarts, TurnEnds
    <3>2. busy' \in [Agents -> BOOLEAN] /\ Spent  BY <1>1, <3>1
    <3> QED BY <1>1, <3>1, <3>2 DEF SurroundingsTyped
  <2>4. ASSUME NEW a \in Agents, PeerLeaves(a) \/ PeerReturns(a) PROVE SurroundingsTyped'
    <3>1. /\ reach' = [reach EXCEPT ![a] = TRUE] \/ reach' = [reach EXCEPT ![a] = FALSE]
          /\ spent' = spent \/ spent' = [spent EXCEPT !.outages = @ + 1]
          /\ UNCHANGED <<now, gate, deleting, slot, gen, busy, dead>>
      BY <2>4 DEF PeerLeaves, PeerReturns
    <3>2. reach' \in [Agents -> BOOLEAN] /\ Spent  BY <1>1, <3>1
    <3> QED BY <1>1, <3>1, <3>2 DEF SurroundingsTyped
  <2>5. CASE GateFlips
    <3>1. /\ gate' = ~gate /\ spent' = [spent EXCEPT !.gates = @ + 1]
          /\ UNCHANGED <<now, deleting, slot, gen, busy, reach, dead>>
      BY <2>5 DEF GateFlips
    <3>2. Spent  BY <1>1, <3>1
    <3>3. gate' \in BOOLEAN  BY <3>1
    <3> QED BY <1>1, <3>1, <3>2, <3>3 DEF SurroundingsTyped
  <2>6. CASE ClockTicks
    <3>1. now < MaxTime /\ now' = now + 1 /\ UNCHANGED <<gate, deleting, slot, gen, busy, reach, dead, spent>>  BY <2>6 DEF ClockTicks
    <3>2. now' \in 1 .. MaxTime  BY <1>1, <3>1
    <3> QED BY <1>1, <3>1, <3>2 DEF SurroundingsTyped
  <2>7. CASE Restart
    <3>1. /\ spent' = [spent EXCEPT !.restarts = @ + 1] /\ deleting' = {}
          /\ busy' = [a \in Agents |-> a \in Remote /\ busy[a]]
          /\ \E d : dead' = [a \in Agents |-> a \in d]
          /\ UNCHANGED <<now, gate, slot, gen, reach>>
      BY <2>7 DEF Restart
    <3>2. busy' \in [Agents -> BOOLEAN]  BY <3>1
    <3>3. dead' \in [Agents -> BOOLEAN]  BY <3>1
    <3>4. Spent  BY <1>1, <3>1
    <3> QED BY <1>1, <3>1, <3>2, <3>3, <3>4 DEF SurroundingsTyped
  <2>8. CASE AnswerLost
    <3> DEFINE a == Agent[eng.task]
               e == Armed(gen + 1, "recurring")
    <3>1. /\ eng.at = "starting" /\ gen' = gen + 1 /\ spent' = [spent EXCEPT !.outages = @ + 1]
          /\ slot' = [slot EXCEPT ![a] = e] /\ dead' = [dead EXCEPT ![a] = FALSE]
          /\ UNCHANGED <<now, gate, deleting, busy, reach>>  BY <2>8 DEF AnswerLost
    <3>2. e \in Loops  BY <1>2
    <3> HIDE DEF e
    <3>3. a \in Agents  BY <1>4, <3>1 DEF AtWork
    <3>4. slot' \in [Agents -> Loops] /\ dead' \in [Agents -> BOOLEAN] /\ gen' \in Nat /\ Spent  BY <1>1, <3>1, <3>2, <3>3
    <3> QED BY <1>1, <3>1, <3>4 DEF SurroundingsTyped
  <2> QED BY <1>9, <2>1, <2>2, <2>3, <2>4, <2>5, <2>6, <2>7, <2>8 DEF Surroundings
<1>10. CASE UNCHANGED vars  BY <1>1, <1>10 DEF vars, SurroundingsTyped
<1> QED BY <1>7, <1>8, <1>9, <1>10 DEF Next

-----------------------------------------------------------------------------
(* Steps outside the engine.                                               *)

LEMMA NowIs == ASSUME AInv PROVE now \in Nat /\ spent.restarts \in Nat
BY RecurringAssumption DEF AInv, SurroundingsTyped

\* A run stays dated, a log stays so and the engine's work too while the clock goes on.
LEMMA TimeGoesOn ==
  ASSUME NEW time \in Nat, NEW later \in Nat, time <= later
  PROVE  /\ \A r : RunBy(r, time) => RunBy(r, later)
         /\ \A l : LogBy(l, time) => LogBy(l, later)
         /\ \A e : Works(e, time) => Works(e, later)
<1>1. ASSUME NEW r \in Runs PROVE r.due \in Nat  BY DEF Runs
<1>2. ASSUME NEW r, RunBy(r, time) PROVE RunBy(r, later)  BY <1>1, <1>2 DEF RunBy
<1>3. ASSUME NEW l, LogBy(l, time) PROVE LogBy(l, later)
  <2>1. \A i \in DOMAIN l : l[i] \in Runs  BY <1>3 DEF LogBy
  <2> QED BY <1>1, <1>3, <2>1 DEF LogBy
<1>4. ASSUME NEW e, Works(e, time) PROVE Works(e, later)
  <2>1. e.now \in Nat /\ e.now <= later  BY <1>4 DEF Works
  <2> QED BY <1>2, <1>4, <2>1 DEF Works
<1> QED BY <1>2, <1>3, <1>4

LEMMA NothingIsBooked ==
  ASSUME AInv, UNCHANGED <<card, log, eng>>, spent'.restarts = spent.restarts,
         now' = now \/ (now' = now + 1)
  PROVE  Books'
<1>1. now \in Nat /\ now' \in Nat /\ now <= now'  BY NowIs
<1>2. Filed'  BY <1>1, TimeGoesOn DEF AInv, Books, Filed, Here
<1>3. Works(eng, now')  BY <1>1, TimeGoesOn DEF AInv, Books
<1>4. Works(eng, now)'  BY <1>3
<1>5. AdvancesWhatIsFiled'  BY DEF AInv, Books, AdvancesWhatIsFiled, Deleted
<1>6. Balanced'  BY DEF AInv, Books, Balanced, Here
<1> QED BY <1>2, <1>4, <1>5, <1>6 DEF Books

LEMMA LeavesTheBooks ==
  ASSUME AInv,
         \/ \E t \in Tasks : StopRun(t) \/ DeleteLooks(t)
         \/ \E a \in Agents : OperatorArms(a) \/ LoopResolves(a) \/ TurnStarts(a) \/ TurnEnds(a) \/ PeerLeaves(a) \/ PeerReturns(a)
         \/ GateFlips \/ ClockTicks \/ UNCHANGED vars
  PROVE  Books'
<1>1. "restarts" \in DOMAIN spent  BY DEF AInv, SurroundingsTyped
<1>2. ASSUME NEW kind, Act(kind) PROVE spent'.restarts = spent.restarts  BY <1>1, <1>2 DEF Act
<1>3. UNCHANGED <<card, log, eng>> /\ (now' = now \/ now' = now + 1)
  BY DEF StopRun, DeleteLooks, OperatorArms, LoopResolves, TurnStarts, TurnEnds, PeerLeaves, PeerReturns, GateFlips, ClockTicks, vars
<1>4. spent'.restarts = spent.restarts
  <2>1. CASE \/ \E t \in Tasks : StopRun(t) \/ DeleteLooks(t)
             \/ \E a \in Agents : OperatorArms(a)
    BY <1>2, <2>1 DEF StopRun, DeleteLooks, OperatorArms
  <2>2. CASE \/ \E a \in Agents : LoopResolves(a) \/ TurnStarts(a) \/ TurnEnds(a) \/ PeerLeaves(a) \/ PeerReturns(a)
             \/ GateFlips \/ ClockTicks \/ UNCHANGED vars
    BY <1>1, <2>2 DEF LoopResolves, TurnStarts, TurnEnds, PeerLeaves, PeerReturns, GateFlips, ClockTicks, vars
  <2> QED BY <2>1, <2>2
<1> QED BY <1>3, <1>4, NothingIsBooked

\* A change of one card that keeps its grid, or begins a new one.
LEMMA OneCardChanges ==
  ASSUME AInv, NEW t \in Tasks, NEW c, NEW kind, Command(kind, t, c),
         card[t].is \in {"unborn", "here"}, Scheduled(c), c.is = "here",
         \/ Here(t) /\ SameGrid(card[t], c)
         \/ c.anchor = now /\ c.handled = 0
  PROVE  Books'
<1>1. card' = [card EXCEPT ![t] = c] /\ Act(kind) /\ UNCHANGED <<now, log, eng>>  BY DEF Command
<1>2. spent'.restarts = spent.restarts
  <2>1. "restarts" \in DOMAIN spent  BY DEF AInv, SurroundingsTyped
  <2> QED BY <1>1, <2>1 DEF Act
<1>3. Filed /\ Works(eng, now) /\ AdvancesWhatIsFiled /\ Balanced /\ now \in Nat  BY NowIs DEF AInv, Books
<1>4. c \in Cards  BY DEF Scheduled
<1>5. /\ card' \in [Tasks -> Cards] /\ card'[t] = c
      /\ \A u \in Tasks : u # t => card'[u] = card[u]
  BY <1>1, <1>3, <1>4 DEF Filed
<1>6. Filed'
  <2>1. ASSUME NEW u \in Tasks
        PROVE  /\ Here(u)' \/ card'[u] \in {NoCard, Gone}
               /\ Here(u)' => Scheduled(card'[u])
               /\ LogBy(log'[u], now')
    <3>1. CASE u = t  BY <1>1, <1>3, <1>5, <3>1 DEF Filed, Here
    <3>2. CASE u # t  BY <1>1, <1>3, <1>5, <3>2 DEF Filed, Here
    <3> QED BY <3>1, <3>2
  <2> QED BY <1>1, <1>3, <1>5, <2>1 DEF Filed
<1>7. Works(eng, now)'  BY <1>1, <1>3
<1>8. AdvancesWhatIsFiled'
  <2>1. \A u \in Tasks : Deleted(u) => Deleted(u)'  BY <1>5 DEF Deleted
  <2>2. DOMAIN eng.runs \subseteq Tasks /\ (eng.at \in Closing => eng.task \in Tasks)
    BY <1>3 DEF Works, Closing, AtWork
  <2>3. \A u \in Tasks : ~Deleted(u)' => ~Deleted(u)  BY <2>1
  <2>4. eng' = eng /\ log' = log  BY <1>1
  <2>5. ASSUME NEW u \in DOMAIN eng.runs, ~Deleted(u)' PROVE OnRecord(log[u], eng.runs[u])
    BY <1>3, <2>2, <2>3, <2>5 DEF AdvancesWhatIsFiled
  <2>6. ASSUME eng.at \in Closing, ~Deleted(eng.task)' PROVE OnRecord(log[eng.task], eng.run)
    BY <1>3, <2>2, <2>3, <2>4, <2>6 DEF AdvancesWhatIsFiled, Deleted
  <2> QED BY <2>4, <2>5, <2>6 DEF AdvancesWhatIsFiled
<1>9. Accounts(t, c, log[t], spent.restarts, eng)
  <2>1. CASE Here(t) /\ SameGrid(card[t], c)
    <3>1. Accounts(t, card[t], log[t], spent.restarts, eng)  BY <1>3, <2>1 DEF Balanced
    <3>2. \A i \in DOMAIN log[t] : SameTimes(log[t][i], log[t][i])  BY DEF SameTimes
    <3> QED BY <2>1, <3>1, <3>2, SameAccounts
  <2>2. CASE c.anchor = now /\ c.handled = 0
    <3>1. LogBy(log[t], now)  BY <1>3 DEF Filed
    <3> QED BY <1>3, <2>2, <3>1, NewGrid
  <2> QED BY <2>1, <2>2
<1>10. Balanced'
  <2>1. ASSUME NEW u \in Tasks, Here(u)' PROVE Accounts(u, card'[u], log'[u], spent'.restarts, eng')
    <3>1. CASE u = t  BY <1>1, <1>2, <1>5, <1>9, <3>1
    <3>2. CASE u # t  BY <1>1, <1>2, <1>3, <1>5, <2>1, <3>2 DEF Balanced, Here
    <3> QED BY <3>1, <3>2
  <2> QED BY <2>1 DEF Balanced
<1> QED BY <1>6, <1>7, <1>8, <1>10 DEF Books

LEMMA AnchoredIs ==
  ASSUME NEW c \in Cards, NEW time \in Nat
  PROVE  LET d == Anchored(c, time) IN
         /\ d \in Cards /\ d.is = c.is /\ d.sched = c.sched
         /\ d.anchor = time /\ d.handled = 0
BY DEF Anchored, Cards

LEMMA CommandsKeepTheBooks ==
  ASSUME AInv, NEW t \in Tasks,
         \/ Pause(t) \/ Resume(t)
         \/ \E s \in Schedules, m \in Modes : Create(t, s, m) \/ \E on \in BOOLEAN : Edit(t, s, m, on)
  PROVE  Books'
<1> DEFINE c == card[t]
<1>1. c \in Cards /\ (c.is = "here" => c.sched \in Schedules) /\ now \in Nat  BY NowIs DEF AInv, Books, Filed, Here, Scheduled
<1>2. CASE Pause(t)
  <2> DEFINE d == Paused(c, "operator")
  <2>1. c.is = "here" /\ Command("pause", t, d)  BY <1>2 DEF Pause, Here
  <2>2. d \in Cards /\ d.is = "here" /\ d.sched = c.sched /\ SameGrid(c, d)
    BY <1>1, <2>1 DEF Paused, Cards, SameGrid
  <2> HIDE DEF d
  <2>3. Scheduled(d)  BY <1>1, <2>1, <2>2 DEF Scheduled
  <2> QED BY <2>1, <2>2, <2>3, OneCardChanges DEF Here
<1>3. CASE Resume(t)
  <2> DEFINE b == [c EXCEPT !.enabled = TRUE, !.why = "none"]
             d == Anchored(b, now)
  <2>1. c.is = "here" /\ Command("resume", t, d)  BY <1>3 DEF Resume, Here
  <2>2. b \in Cards /\ b.is = "here" /\ b.sched = c.sched  BY <1>1, <2>1 DEF Cards
  <2> HIDE DEF b
  <2>3. d \in Cards /\ d.is = "here" /\ d.sched = c.sched /\ d.anchor = now /\ d.handled = 0  BY <1>1, <2>2, AnchoredIs
  <2> HIDE DEF d
  <2>4. Scheduled(d)  BY <1>1, <2>1, <2>3 DEF Scheduled
  <2> QED BY <2>1, <2>3, <2>4, OneCardChanges
<1>4. ASSUME NEW s \in Schedules, NEW m \in Modes, Create(t, s, m) PROVE Books'
  <2> DEFINE b == [NoCard EXCEPT !.is = "here", !.enabled = TRUE, !.sched = s, !.mode = m]
             d == Anchored(b, now)
  <2>1. c.is = "unborn" /\ Command("create", t, d)  BY <1>4 DEF Create, NewCard
  <2>2. b \in Cards /\ b.is = "here" /\ b.sched = s  BY DEF NoCard, Cards
  <2> HIDE DEF b
  <2>3. d \in Cards /\ d.is = "here" /\ d.sched = s /\ d.anchor = now /\ d.handled = 0  BY <1>1, <2>2, AnchoredIs
  <2> HIDE DEF d
  <2>4. Scheduled(d)  BY <2>3 DEF Scheduled
  <2> QED BY <2>1, <2>3, <2>4, OneCardChanges
<1>5. ASSUME NEW s \in Schedules, NEW m \in Modes, NEW on \in BOOLEAN, Edit(t, s, m, on) PROVE Books'
  <2> DEFINE why == IF on = c.enabled THEN c.why ELSE IF on THEN "none" ELSE "operator"
             b == [c EXCEPT !.sched = s, !.mode = m, !.enabled = on, !.why = why]
             fresh == s # c.sched \/ (on /\ ~c.enabled)
             d == IF fresh THEN Anchored(b, now) ELSE b
  <2>1. c.is = "here" /\ Command("edit", t, d)  BY <1>5 DEF Edit, Here
  <2>2. why \in {"none", "operator", "auto"}  BY <1>1 DEF Cards
  <2> HIDE DEF why
  <2>3. b \in Cards /\ b.is = "here" /\ b.sched = s /\ b.anchor = c.anchor /\ b.handled = c.handled
    BY <1>1, <2>1, <2>2 DEF Cards
  <2> HIDE DEF b, fresh
  <2>4. CASE fresh
    <3>1. d = Anchored(b, now)  BY <2>4
    <3>2. d \in Cards /\ d.is = "here" /\ d.sched = s /\ d.anchor = now /\ d.handled = 0  BY <1>1, <2>3, <3>1, AnchoredIs
    <3> HIDE DEF d
    <3>3. Scheduled(d)  BY <3>2 DEF Scheduled
    <3> QED BY <2>1, <3>2, <3>3, OneCardChanges
  <2>5. CASE ~fresh
    <3>1. d = b /\ s = c.sched  BY <2>5 DEF fresh
    <3>2. Scheduled(b) /\ SameGrid(c, b)  BY <2>3, <3>1 DEF Scheduled, SameGrid
    <3> HIDE DEF d
    <3> QED BY <2>1, <2>3, <3>1, <3>2, OneCardChanges DEF Here
  <2> QED BY <2>4, <2>5
<1> QED BY <1>2, <1>3, <1>4, <1>5

LEMMA GoneIs == NoCard \in Cards /\ Gone \in Cards /\ Gone.is = "deleted" /\ NoCard.is = "unborn"
<1>1. NoCard \in Cards /\ NoCard.is = "unborn"  BY RecurringAssumption DEF NoCard, Cards
<1>2. Gone \in Cards /\ Gone.is = "deleted"  BY <1>1 DEF Gone, Cards
<1> QED BY <1>1, <1>2

LEMMA DeletingKeepsTheBooks ==
  ASSUME AInv, NEW t \in Tasks, DeleteRemoves(t)
  PROVE  Books'
<1>1. card' = [card EXCEPT ![t] = Gone] /\ log' = [log EXCEPT ![t] = <<>>] /\ UNCHANGED <<now, eng, spent>>
  BY DEF DeleteRemoves
<1>2. Filed /\ Works(eng, now) /\ AdvancesWhatIsFiled /\ Balanced  BY DEF AInv, Books
<1>3. /\ card' \in [Tasks -> Cards] /\ card'[t] = Gone /\ \A u \in Tasks : u # t => card'[u] = card[u]
      /\ DOMAIN log' = Tasks /\ log'[t] = <<>> /\ \A u \in Tasks : u # t => log'[u] = log[u]
  BY <1>1, <1>2, GoneIs DEF Filed
<1>4. LogBy(<<>>, now)
  <2>1. <<>> \in Seq(Runs)  BY EmptySeq
  <2>2. DOMAIN <<>> = {}  OBVIOUS
  <2> QED BY <2>1, <2>2 DEF LogBy
<1>5. ~Here(t)' /\ Deleted(t)'  BY <1>3, GoneIs DEF Here, Deleted
<1>6. Filed'
  <2>1. ASSUME NEW u \in Tasks
        PROVE  /\ Here(u)' \/ card'[u] \in {NoCard, Gone}
               /\ Here(u)' => Scheduled(card'[u])
               /\ LogBy(log'[u], now')
    <3>1. CASE u = t  BY <1>1, <1>3, <1>4, <1>5, <3>1
    <3>2. CASE u # t  BY <1>1, <1>2, <1>3, <3>2 DEF Filed, Here
    <3> QED BY <3>1, <3>2
  <2> QED BY <1>3, <2>1 DEF Filed
<1>7. AdvancesWhatIsFiled'
  <2>1. DOMAIN eng.runs \subseteq Tasks /\ (eng.at \in Closing => eng.task \in Tasks)
    BY <1>2 DEF Works, Closing, AtWork
  <2>2. \A u \in Tasks : ~Deleted(u)' => ~Deleted(u) /\ log'[u] = log[u]  BY <1>3, <1>5 DEF Deleted
  <2>3. eng' = eng  BY <1>1
  <2>4. ASSUME NEW u \in DOMAIN eng.runs, ~Deleted(u)' PROVE OnRecord(log'[u], eng.runs[u])
    BY <1>2, <2>1, <2>2, <2>4 DEF AdvancesWhatIsFiled
  <2>5. ASSUME eng.at \in Closing, ~Deleted(eng.task)' PROVE OnRecord(log'[eng.task], eng.run)
    BY <1>2, <2>1, <2>2, <2>3, <2>5 DEF AdvancesWhatIsFiled, Deleted
  <2> QED BY <2>3, <2>4, <2>5 DEF AdvancesWhatIsFiled
<1>8. Balanced'
  <2>1. ASSUME NEW u \in Tasks, Here(u)' PROVE Accounts(u, card'[u], log'[u], spent'.restarts, eng')
    <3>1. u # t  BY <1>5, <2>1
    <3> QED BY <1>1, <1>2, <1>3, <2>1, <3>1 DEF Balanced, Here
  <2> QED BY <2>1 DEF Balanced
<1>9. Works(eng, now)'  BY <1>1, <1>2
<1> QED BY <1>6, <1>7, <1>8, <1>9 DEF Books

LEMMA IdleIs ==
  ASSUME NEW time \in Nat
  PROVE  /\ Works(Idle, time) /\ Idle.at = "idle" /\ Idle.todo = {} /\ DOMAIN Idle.runs = {} /\ DOMAIN Idle = EngFields
         /\ Idle.now = 0
         /\ \A t : ~InHand(t, Idle) /\ ~Owing(t, Idle)
<1>1. Idle.at = "idle" /\ Idle.now = 0  BY DEF Idle
<1>2. \A t : ~InHand(t, Idle) /\ ~Owing(t, Idle)  BY <1>1 DEF InHand, Owing, Sending
<1>3. Works(Idle, time)  BY <1>1, IdleShape DEF Works, AtWork, Closing
<1> QED BY <1>1, <1>2, <1>3, IdleShape

LEMMA KillKeepsTheBooks ==
  ASSUME AInv, Restart
  PROVE  Books'
<1>1. spent' = [spent EXCEPT !.restarts = @ + 1] /\ eng' = Idle /\ UNCHANGED <<now, card, log>>  BY DEF Restart
<1>2. spent'.restarts = spent.restarts + 1 /\ spent.restarts \in Nat  BY <1>1 DEF AInv, SurroundingsTyped
<1>3. Filed /\ Works(eng, now) /\ AdvancesWhatIsFiled /\ Balanced /\ now \in Nat  BY NowIs DEF AInv, Books
<1>4. Filed'  BY <1>1, <1>3 DEF Filed, Here
<1>5. Works(eng, now)'  BY <1>1, <1>3, IdleIs
<1>6. AdvancesWhatIsFiled'  BY <1>1, <1>3, IdleIs DEF AdvancesWhatIsFiled, Closing
<1>7. Balanced'
  <2>1. ASSUME NEW t \in Tasks, Here(t) PROVE Accounts(t, card[t], log[t], spent.restarts + 1, Idle)
    <3>1. Accounts(t, card[t], log[t], spent.restarts, eng) /\ Scheduled(card[t])  BY <1>3, <2>1 DEF Balanced, Filed
    <3>2. ~InHand(t, Idle) /\ t \notin Idle.todo  BY <1>3, IdleIs
    <3> QED BY <1>2, <1>3, <3>1, <3>2, KilledIs
  <2> QED BY <1>1, <1>2, <2>1 DEF Balanced, Here
<1> QED BY <1>4, <1>5, <1>6, <1>7 DEF Books

-----------------------------------------------------------------------------
(* Steps of the engine.                                                    *)

LEMMA BooksSay ==
  ASSUME AInv
  PROVE  /\ Filed /\ Works(eng, now) /\ AdvancesWhatIsFiled /\ Balanced
         /\ now \in Nat /\ spent.restarts \in Nat
         /\ DOMAIN eng = EngFields
         /\ eng.at \in AtWork => eng.task \in Tasks
         /\ eng.at \in AtWork /\ eng.run # NoRun => eng.run \in Runs /\ RunBy(eng.run, now)
         /\ eng.at \in AtWork \ {"pausing"} => eng.run # NoRun
<1>1. Filed /\ Works(eng, now) /\ AdvancesWhatIsFiled /\ Balanced  BY DEF AInv, Books
<1> QED BY <1>1, NowIs DEF Works, RunBy

\* The engine goes on with what it has listed, or with less of it.
LEMMA StillWorks ==
  ASSUME NEW time, NEW e, NEW f, Works(e, time),
         DOMAIN f = EngFields, f.at \in (AtWork \ Closing) \cup {"idle", "advancing", "deciding"},
         f.now = e.now, f.todo \subseteq e.todo, f.cards = e.cards,
         DOMAIN f.runs \subseteq DOMAIN e.runs, \A t \in DOMAIN f.runs : f.runs[t] = e.runs[t],
         f.at \in AtWork => f.task \in Tasks /\ (RunBy(f.run, time) \/ (f.at = "pausing" /\ f.run = NoRun))
  PROVE  Works(f, time)
<1>1. \A r : RunBy(r, time) => r # NoRun  BY NoRunAssumption DEF RunBy
<1>2. f.at \notin Closing /\ f.at # "handing"  BY DEF Closing, AtWork
<1>3. f.todo \subseteq Tasks /\ \A t \in f.todo : Scheduled(f.cards[t])  BY DEF Works
<1>4. DOMAIN f.runs \subseteq Tasks /\ \A t \in DOMAIN f.runs : RunBy(f.runs[t], time)  BY DEF Works
<1>5. f.now \in Nat /\ f.now <= time  BY DEF Works
<1>6. f.at \in AtWork \cup {"idle", "advancing", "deciding"}  OBVIOUS
<1>7. f.at \in AtWork => f.task \in Tasks /\ (f.run = NoRun \/ RunBy(f.run, time))  OBVIOUS
<1>8. f.at \in AtWork \ {"pausing"} => f.run # NoRun  BY <1>1
<1> QED BY <1>2, <1>3, <1>4, <1>5, <1>6, <1>7, <1>8 DEF Works

\* A card the engine has not at hand, before the step and after it.
LEMMA OthersMoveOn ==
  ASSUME NEW t, NEW c, NEW e, NEW f, ~InHand(t, e), ~InHand(t, f),
         f.todo = {} \/ (f.todo \subseteq e.todo /\ f.cards = e.cards /\ f.now = e.now)
  PROVE  Moves(t, c, e, f)
BY DEF Moves, InHand

\* A step of the engine alone.
LEMMA EngineAlone ==
  ASSUME AInv, UNCHANGED <<now, card, log>>, spent'.restarts = spent.restarts, Works(eng', now),
         \A t \in DOMAIN eng'.runs : ~Deleted(t) => OnRecord(log[t], eng'.runs[t]),
         eng'.at \in Closing => (~Deleted(eng'.task) => OnRecord(log[eng'.task], eng'.run)),
         \A t \in Tasks : Here(t) => Moves(t, card[t], eng, eng')
  PROVE  Books'
<1>1. Filed /\ AdvancesWhatIsFiled /\ Balanced  BY BooksSay
<1>2. Filed'  BY <1>1 DEF Filed, Here
<1>3. AdvancesWhatIsFiled'  BY DEF AdvancesWhatIsFiled, Deleted
<1>4. Balanced'
  <2>1. ASSUME NEW t \in Tasks, Here(t) PROVE Accounts(t, card[t], log[t], spent.restarts, eng')
    <3>1. Accounts(t, card[t], log[t], spent.restarts, eng) /\ Scheduled(card[t])  BY <1>1, <2>1 DEF Balanced, Filed
    <3>2. Moves(t, card[t], eng, eng')  BY <2>1
    <3> QED BY <3>1, <3>2, EngineMovesOn
  <2> QED BY <2>1 DEF Balanced, Here
<1>5. Works(eng, now)'  OBVIOUS
<1> QED BY <1>2, <1>3, <1>4, <1>5 DEF Books

\* A step of the engine with the card and the log of one task.
LEMMA OneTaskStep ==
  ASSUME AInv, NEW t \in Tasks, NEW c, NEW l, now' = now, spent'.restarts = spent.restarts,
         card' = [card EXCEPT ![t] = c], log' = [log EXCEPT ![t] = l] \/ (log' = log /\ l = log[t]),
         LogBy(l, now), IF Here(t) THEN Scheduled(c) /\ c.is = "here" ELSE c = card[t],
         Works(eng', now), eng'.at \notin Closing,
         \A u \in DOMAIN eng'.runs : u \in DOMAIN eng.runs /\ eng'.runs[u] = eng.runs[u],
         t \in DOMAIN eng'.runs => (OnRecord(log[t], eng.runs[t]) => OnRecord(l, eng.runs[t])),
         Here(t) => Accounts(t, c, l, spent.restarts, eng'),
         \A u \in Tasks : u # t => ~InHand(u, eng) /\ ~InHand(u, eng'),
         eng'.todo = {} \/ (eng'.todo \subseteq eng.todo /\ eng'.cards = eng.cards /\ eng'.now = eng.now)
  PROVE  Books'
<1>1. Filed /\ AdvancesWhatIsFiled /\ Balanced /\ Works(eng, now)  BY BooksSay
<1>2. c \in Cards /\ c.is = card[t].is
  <2>1. CASE Here(t)  BY <2>1 DEF Scheduled, Here
  <2>2. CASE ~Here(t)  BY <1>1, <2>2 DEF Filed
  <2> QED BY <2>1, <2>2
<1>3. /\ card' \in [Tasks -> Cards] /\ card'[t] = c /\ \A u \in Tasks : u # t => card'[u] = card[u]
      /\ DOMAIN log' = Tasks /\ log'[t] = l /\ \A u \in Tasks : u # t => log'[u] = log[u]
  BY <1>1, <1>2 DEF Filed
<1>4. \A u \in Tasks : (Here(u)' <=> Here(u)) /\ (Deleted(u)' <=> Deleted(u))  BY <1>2, <1>3 DEF Here, Deleted
<1>5. Filed'
  <2>1. ASSUME NEW u \in Tasks
        PROVE  /\ Here(u)' \/ card'[u] \in {NoCard, Gone}
               /\ Here(u)' => Scheduled(card'[u])
               /\ LogBy(log'[u], now')
    <3>1. CASE u = t  BY <1>1, <1>3, <1>4, <3>1 DEF Filed
    <3>2. CASE u # t  BY <1>1, <1>3, <1>4, <3>2 DEF Filed
    <3> QED BY <3>1, <3>2
  <2> QED BY <1>3, <2>1 DEF Filed
<1>6. AdvancesWhatIsFiled'
  <2>1. ASSUME NEW u \in DOMAIN eng'.runs, ~Deleted(u)' PROVE OnRecord(log'[u], eng'.runs[u])
    <3>1. u \in DOMAIN eng.runs /\ eng'.runs[u] = eng.runs[u] /\ u \in Tasks  BY <1>1 DEF Works
    <3>2. OnRecord(log[u], eng.runs[u])  BY <1>1, <1>4, <2>1, <3>1 DEF AdvancesWhatIsFiled
    <3>3. CASE u = t  BY <1>3, <3>1, <3>2, <3>3
    <3>4. CASE u # t  BY <1>3, <3>1, <3>2, <3>4
    <3> QED BY <3>3, <3>4
  <2> QED BY <2>1 DEF AdvancesWhatIsFiled
<1>7. Balanced'
  <2>1. ASSUME NEW u \in Tasks, Here(u) PROVE Accounts(u, card'[u], log'[u], spent.restarts, eng')
    <3>1. CASE u = t  BY <1>3, <2>1, <3>1
    <3>2. CASE u # t
      <4>1. Accounts(u, card[u], log[u], spent.restarts, eng) /\ Scheduled(card[u])  BY <1>1, <2>1 DEF Balanced, Filed
      <4>2. Moves(u, card[u], eng, eng')  BY <3>2, OthersMoveOn
      <4>3. Accounts(u, card[u], log[u], spent.restarts, eng')  BY <4>1, <4>2, EngineMovesOn
      <4> QED BY <1>3, <3>2, <4>3
    <3> QED BY <3>1, <3>2
  <2> QED BY <1>4, <2>1 DEF Balanced
<1>8. Works(eng, now)'  OBVIOUS
<1> QED BY <1>5, <1>6, <1>7, <1>8 DEF Books

\* The engine is done with the card at hand.
LEMMA Next1Is ==
  ASSUME AInv, eng.at \in AtWork
  PROVE  /\ Works(Next1, now) /\ Next1.at \in {"idle", "deciding"}
         /\ \A t : ~InHand(t, Next1)
         /\ eng.task \notin Next1.todo
         /\ Next1.todo = {} \/ (Next1.todo \subseteq eng.todo /\ Next1.cards = eng.cards /\ Next1.now = eng.now)
         /\ \A u \in DOMAIN Next1.runs : u \in DOMAIN eng.runs /\ Next1.runs[u] = eng.runs[u]
<1>1. Works(eng, now) /\ DOMAIN eng = EngFields /\ now \in Nat  BY BooksSay
<1>2. CASE eng.manual
  <2>1. Next1 = Idle  BY <1>2 DEF Next1
  <2> QED BY <1>1, <2>1, IdleIs
<1>3. CASE ~eng.manual
  <2> DEFINE h == AtHand("deciding")
             f == [h EXCEPT !.todo = h.todo \ {eng.task}]
  <2>1. Next1 = f  BY <1>3 DEF Next1
  <2>2. /\ DOMAIN h = EngFields /\ h.at = "deciding" /\ h.now = eng.now /\ h.runs = eng.runs
        /\ h.cards = eng.cards /\ h.todo = eng.todo
    BY <1>1 DEF AtHand, EngFields
  <2> HIDE DEF h
  <2>3. /\ DOMAIN f = EngFields /\ f.at = "deciding" /\ f.now = eng.now /\ f.runs = eng.runs
        /\ f.cards = eng.cards /\ f.todo = eng.todo \ {eng.task}
    BY <2>2 DEF EngFields
  <2> HIDE DEF f
  <2>4. f.at \notin AtWork  BY <2>3 DEF AtWork
  <2>5. Works(f, now)  BY <1>1, <2>3, <2>4, StillWorks
  <2>6. \A t : ~InHand(t, f)  BY <2>3 DEF InHand, Owing, Sending
  <2> QED BY <2>1, <2>3, <2>5, <2>6
<1> QED BY <1>2, <1>3

-----------------------------------------------------------------------------

LEMMA RunningIsFiled ==
  ASSUME NEW t, Running(t)
  PROVE  OnRecord(log[t], RunningOf(t))
<1>1. PICK i \in DOMAIN log[t] : IsRunning(log[t][i])  BY DEF Running
<1> DEFINE j == CHOOSE n \in DOMAIN log[t] : IsRunning(log[t][n])
<1>2. j \in DOMAIN log[t]  BY <1>1
<1> QED BY <1>2 DEF RunningOf, OnRecord

LEMMA TickBeginsBooks == ASSUME AInv, TickBegins PROVE Books'
<1> DEFINE rs == [t \in {u \in Tasks : Running(u)} |-> RunningOf(t)]
           f == [Idle EXCEPT !.at = "advancing", !.now = now, !.runs = rs]
<1>1. eng.at = "idle" /\ eng' = f /\ UNCHANGED <<now, card, log, spent>>  BY DEF TickBegins
<1>2. /\ DOMAIN f = EngFields /\ f.at = "advancing" /\ f.now = now /\ f.runs = rs /\ f.todo = {}
  BY DEF Idle, EngFields
<1>3. /\ DOMAIN rs \subseteq Tasks /\ \A t \in DOMAIN rs : OnRecord(log[t], rs[t])
  BY RunningIsFiled
<1> HIDE DEF f, rs
<1>4. Filed /\ now \in Nat  BY BooksSay
<1>5. \A t \in DOMAIN rs : RunBy(rs[t], now)  BY <1>3, <1>4 DEF Filed, LogBy, OnRecord, RunBy
<1>6. Works(f, now)  BY <1>2, <1>3, <1>4, <1>5 DEF Works, AtWork, Closing
<1>7. \A t : ~InHand(t, f) /\ ~InHand(t, eng)  BY <1>1, <1>2 DEF InHand, Owing, Sending
<1>8. \A t : Moves(t, card[t], eng, f)  BY <1>2, <1>7, OthersMoveOn
<1> QED BY <1>1, <1>2, <1>3, <1>6, <1>8, EngineAlone DEF Closing

LEMMA ListCardsBooks == ASSUME AInv, ListCards PROVE Books'
<1> DEFINE f == [eng EXCEPT !.at = "deciding", !.cards = card, !.todo = {t \in Tasks : Here(t)}]
<1>1. eng.at = "advancing" /\ eng' = f /\ DOMAIN eng.runs = {} /\ UNCHANGED <<now, card, log, spent>>  BY DEF ListCards
<1>2. Filed /\ Works(eng, now) /\ DOMAIN eng = EngFields  BY BooksSay
<1>3. /\ DOMAIN f = EngFields /\ f.at = "deciding" /\ f.now = eng.now /\ f.runs = eng.runs
      /\ f.cards = card /\ f.todo = {t \in Tasks : Here(t)}
  BY <1>2 DEF EngFields
<1> HIDE DEF f
<1>4. \A t \in f.todo : Scheduled(f.cards[t])  BY <1>2, <1>3 DEF Filed
<1>5. Works(f, now)  BY <1>1, <1>2, <1>3, <1>4 DEF Works, AtWork, Closing
<1>6. \A t : ~InHand(t, f) /\ ~InHand(t, eng)  BY <1>1, <1>3 DEF InHand, Owing, Sending
<1>7. \A t : Moves(t, card[t], eng, f)  BY <1>3, <1>6 DEF Moves, InHand
<1> QED BY <1>1, <1>3, <1>5, <1>7, EngineAlone DEF Closing

LEMMA TickEndsBooks == ASSUME AInv, TickEnds PROVE Books'
<1>1. eng.at = "deciding" /\ eng' = Idle /\ UNCHANGED <<now, card, log, spent>>  BY DEF TickEnds
<1>2. now \in Nat  BY BooksSay
<1>3. \A t : ~InHand(t, eng)  BY <1>1 DEF InHand, Owing, Sending
<1>4. \A t : Moves(t, card[t], eng, Idle)  BY <1>2, <1>3, IdleIs, OthersMoveOn
<1> QED BY <1>1, <1>2, <1>4, IdleIs, EngineAlone DEF Closing

\* A run made by hand stands for no occurrence.
LEMMA RunNowBooks == ASSUME AInv, NEW t \in Tasks, RunNow(t) PROVE Books'
<1> DEFINE r == ManualRun(card[t], now)
           f == [Idle EXCEPT !.at = "arming", !.now = now, !.manual = TRUE, !.task = t, !.run = r]
<1>1. eng.at = "idle" /\ eng' = f /\ Here(t) /\ UNCHANGED <<now, card, log>> /\ Act("run")  BY DEF RunNow
<1>2. Filed /\ now \in Nat  BY BooksSay
<1>3. card[t].mode \in Modes  BY <1>2 DEF Filed, Cards
<1>4. r \in Runs /\ r.due = now /\ r.manual  BY <1>2, <1>3 DEF ManualRun, NewRun, Runs
<1> HIDE DEF r
<1>5. /\ DOMAIN f = EngFields /\ f.at = "arming" /\ f.now = now /\ DOMAIN f.runs = {} /\ f.todo = {} /\ f.task = t /\ f.run = r
  BY IdleShape DEF Idle, EngFields
<1> HIDE DEF f
<1>6. RunBy(r, now) /\ r # NoRun  BY <1>2, <1>4, NoRunAssumption DEF RunBy
<1>7. Works(f, now)  BY <1>2, <1>5, <1>6 DEF Works, AtWork, Closing
<1>8. \A u : ~InHand(u, eng) /\ ~Owing(u, eng)  BY <1>1 DEF InHand, Owing, Sending
<1>9. \A u : ~Owing(u, f)  BY <1>5 DEF Owing
<1>10. \A u : Moves(u, card[u], eng, f)  BY <1>4, <1>5, <1>8, <1>9 DEF Moves
<1>11. spent'.restarts = spent.restarts  BY <1>1 DEF Act, AInv, SurroundingsTyped
<1> QED BY <1>1, <1>5, <1>7, <1>10, <1>11, EngineAlone DEF Closing

LEMMA AdvanceBooks == ASSUME AInv, NEW t \in Tasks, Advance(t) PROVE Books'
<1> DEFINE r    == eng.runs[t]
           rest == [u \in DOMAIN eng.runs \ {t} |-> eng.runs[u]]
<1>1. /\ eng.at = "advancing" /\ t \in DOMAIN eng.runs /\ UNCHANGED <<now, card, log, spent>>
      /\ \/ eng' = [eng EXCEPT !.runs = rest]
         \/ \E c \in Endings(t, r) :
              eng' = [eng EXCEPT !.runs = rest, !.task = t, !.run = r, !.closed = c,
                                 !.at = IF HandsBack(t, r) THEN "handing" ELSE "closing"]
  BY DEF Advance
<1>2. Works(eng, now) /\ DOMAIN eng = EngFields /\ AdvancesWhatIsFiled /\ now \in Nat  BY BooksSay
<1>3. RunBy(r, now) /\ (~Deleted(t) => OnRecord(log[t], r))  BY <1>1, <1>2 DEF Works, AdvancesWhatIsFiled
<1>4. /\ DOMAIN rest = DOMAIN eng.runs \ {t} /\ \A u \in DOMAIN rest : rest[u] = eng.runs[u]  OBVIOUS
<1>5. \A u \in DOMAIN rest : ~Deleted(u) => OnRecord(log[u], rest[u])  BY <1>2, <1>4 DEF AdvancesWhatIsFiled
<1>6. \A u : ~InHand(u, eng)  BY <1>1 DEF InHand, Owing, Sending
<1> HIDE DEF rest
<1>7. CASE eng' = [eng EXCEPT !.runs = rest]
  <2> DEFINE f == [eng EXCEPT !.runs = rest]
  <2>1. /\ DOMAIN f = EngFields /\ f.at = "advancing" /\ f.now = eng.now /\ f.runs = rest /\ f.todo = eng.todo /\ f.cards = eng.cards
    BY <1>1, <1>2 DEF EngFields
  <2> HIDE DEF f
  <2>2. f.at \notin AtWork /\ f.at \notin Closing  BY <2>1 DEF AtWork, Closing
  <2>3. Works(f, now)  BY <1>2, <1>4, <2>1, <2>2, StillWorks
  <2>4. \A u : ~InHand(u, f)  BY <2>1 DEF InHand, Owing, Sending
  <2>5. \A u : Moves(u, card[u], eng, f)  BY <1>6, <2>1, <2>4, OthersMoveOn
  <2>6. eng' = f  BY <1>7 DEF f
  <2> QED BY <1>1, <1>5, <2>1, <2>2, <2>3, <2>5, <2>6, EngineAlone
<1>8. ASSUME NEW c \in Endings(t, r),
             eng' = [eng EXCEPT !.runs = rest, !.task = t, !.run = r, !.closed = c,
                                !.at = IF HandsBack(t, r) THEN "handing" ELSE "closing"]
      PROVE  Books'
  <2> DEFINE at == IF HandsBack(t, r) THEN "handing" ELSE "closing"
             f == [eng EXCEPT !.runs = rest, !.task = t, !.run = r, !.closed = c, !.at = at]
  <2>1. at \in Closing /\ (at = "handing" => r.snap # NoRun)  BY DEF HandsBack, Closing
  <2>2. r \in Runs /\ r.due <= now  BY <1>3 DEF RunBy
  <2>3. c = Closed(r, "ended") \/ c = Closed(r, "failed")  BY <1>8 DEF Endings
  <2> HIDE DEF at, r
  <2>4. RunBy(c, now) /\ SameTimes(r, c)
    <3> DEFINE d(status) == Closed(r, status)
    <3>1. ASSUME NEW status \in {"ended", "failed"} PROVE RunBy(d(status), now) /\ SameTimes(r, d(status))
      BY <2>2 DEF Closed, Runs, RunBy, SameTimes
    <3> HIDE DEF d
    <3>2. c = d("ended") \/ c = d("failed")  BY <2>3 DEF d
    <3> QED BY <3>1, <3>2
  <2>5. /\ DOMAIN f = EngFields /\ f.at = at /\ f.now = eng.now /\ f.runs = rest /\ f.todo = eng.todo /\ f.cards = eng.cards
        /\ f.task = t /\ f.run = r /\ f.closed = c
    BY <1>2 DEF EngFields
  <2>6. eng' = f  BY <1>8 DEF at
  <2> HIDE DEF f
  <2>7. r # NoRun  BY <2>2, NoRunAssumption
  <2>8. at \in AtWork  BY <2>1 DEF AtWork, Closing
  <2>9. /\ DOMAIN f.runs \subseteq Tasks /\ \A u \in DOMAIN f.runs : RunBy(f.runs[u], now)
        /\ f.todo \subseteq Tasks /\ \A u \in f.todo : Scheduled(f.cards[u])
        /\ f.now \in Nat /\ f.now <= now
        /\ t \notin DOMAIN f.runs
    BY <1>2, <1>4, <2>5 DEF Works
  <2>10. Works(f, now)  BY <1>3, <2>1, <2>4, <2>5, <2>7, <2>8, <2>9 DEF Works
  <2>11. \A u : ~InHand(u, f)  BY <2>1, <2>5 DEF InHand, Owing, Sending, Closing
  <2>12. \A u : Moves(u, card[u], eng, f)  BY <1>6, <2>5, <2>11, OthersMoveOn
  <2> QED BY <1>1, <1>3, <1>5, <2>5, <2>6, <2>10, <2>12, EngineAlone
<1> QED BY <1>1, <1>7, <1>8

LEMMA HandBackBooks == ASSUME AInv, HandBack PROVE Books'
<1> DEFINE f == [eng EXCEPT !.at = "closing"]
<1>1. eng.at = "handing" /\ eng' = f /\ UNCHANGED <<now, card, log, spent>>  BY DEF HandBack
<1>2. Works(eng, now) /\ DOMAIN eng = EngFields /\ AdvancesWhatIsFiled  BY BooksSay
<1>3. /\ DOMAIN f = EngFields /\ f.at = "closing" /\ f.now = eng.now /\ f.runs = eng.runs /\ f.todo = eng.todo
      /\ f.cards = eng.cards /\ f.task = eng.task /\ f.run = eng.run /\ f.closed = eng.closed
  BY <1>2 DEF EngFields
<1> HIDE DEF f
<1>4. Works(f, now)  BY <1>1, <1>2, <1>3 DEF Works, AtWork, Closing
<1>5. \A u : ~InHand(u, f) /\ ~InHand(u, eng)  BY <1>1, <1>3 DEF InHand, Owing, Sending
<1>6. \A u : Moves(u, card[u], eng, f)  BY <1>3, <1>5, OthersMoveOn
<1>7. \A t \in DOMAIN f.runs : ~Deleted(t) => OnRecord(log[t], f.runs[t])  BY <1>2, <1>3 DEF AdvancesWhatIsFiled
<1>8. ~Deleted(f.task) => OnRecord(log[f.task], f.run)  BY <1>1, <1>2, <1>3 DEF AdvancesWhatIsFiled, Closing
<1> QED BY <1>1, <1>4, <1>6, <1>7, <1>8, EngineAlone

-----------------------------------------------------------------------------

\* A run at hand changes in what is not its time.
LEMMA SendingGoesOn ==
  ASSUME AInv, eng.at \in Sending, NEW f, eng' = f,
         DOMAIN f = EngFields, f.at \in Sending, f.task = eng.task, f.now = eng.now, f.runs = eng.runs,
         f.todo = eng.todo, f.cards = eng.cards, f.run \in Runs, SameTimes(eng.run, f.run),
         UNCHANGED <<now, card, log>>, spent'.restarts = spent.restarts
  PROVE  Books'
<1>1. /\ Works(eng, now) /\ AdvancesWhatIsFiled /\ now \in Nat /\ eng.task \in Tasks /\ eng.run \in Runs /\ eng.run.due <= now
  BY BooksSay DEF Sending, AtWork, RunBy
<1>2. RunBy(f.run, now)  BY <1>1 DEF RunBy, SameTimes
<1>3. f.at \in AtWork \ Closing  BY DEF Sending, AtWork, Closing
<1>4. Works(f, now)  BY <1>1, <1>2, <1>3, StillWorks
<1>5. \A t : (InHand(t, f) <=> InHand(t, eng)) /\ ~Owing(t, f) /\ ~Owing(t, eng)  BY DEF InHand, Owing, Sending
<1>6. \A t : Moves(t, card[t], eng, f)  BY <1>1, <1>5 DEF Moves
<1>7. \A t \in DOMAIN f.runs : ~Deleted(t) => OnRecord(log[t], f.runs[t])  BY <1>1 DEF AdvancesWhatIsFiled
<1> QED BY <1>3, <1>4, <1>6, <1>7, EngineAlone

\* Nothing came of the run at hand.
LEMMA PassedOver ==
  ASSUME AInv, eng.at \in Sending, eng' = Next1, UNCHANGED <<now, card, log>>, spent'.restarts = spent.restarts
  PROVE  Books'
<1>1. /\ eng.at \in AtWork /\ AdvancesWhatIsFiled  BY BooksSay DEF Sending, AtWork
<1> DEFINE f == Next1
<1>2. /\ Works(f, now) /\ f.at \in {"idle", "deciding"}
      /\ \A t : ~InHand(t, f)
      /\ eng.task \notin f.todo
      /\ f.todo = {} \/ (f.todo \subseteq eng.todo /\ f.cards = eng.cards /\ f.now = eng.now)
      /\ \A u \in DOMAIN f.runs : u \in DOMAIN eng.runs /\ f.runs[u] = eng.runs[u]
  BY <1>1, Next1Is
<1> HIDE DEF f
<1>3. \A t : ~Owing(t, f) /\ ~Owing(t, eng)  BY <1>2 DEF InHand, Owing, Sending
<1>4. \A t : Moves(t, card[t], eng, f)  BY <1>2, <1>3 DEF Moves
<1>5. \A t \in DOMAIN f.runs : ~Deleted(t) => OnRecord(log[t], f.runs[t])  BY <1>1, <1>2 DEF AdvancesWhatIsFiled
<1>6. f.at \notin Closing  BY <1>2 DEF Closing
<1>7. eng' = f  BY DEF f
<1> QED BY <1>2, <1>4, <1>5, <1>6, <1>7, EngineAlone

LEMMA AppendedIs ==
  ASSUME NEW l, NEW time, LogBy(l, time), NEW r, RunBy(r, time)
  PROVE  /\ l \in Seq(Runs) /\ LogBy(Append(l, r), time)
         /\ \A x : OnRecord(l, x) => OnRecord(Append(l, r), x)
<1>1. l \in Seq(Runs) /\ r \in Runs /\ r.due <= time  BY DEF LogBy, RunBy
<1>2. /\ Len(l) \in Nat /\ DOMAIN l = 1 .. Len(l) /\ DOMAIN Append(l, r) = 1 .. Len(l) + 1
      /\ \A i \in DOMAIN l : Append(l, r)[i] = l[i]
      /\ Append(l, r)[Len(l) + 1] = r
      /\ Append(l, r) \in Seq(Runs)
  BY <1>1, AppendProperties
<1>3. \A i \in DOMAIN Append(l, r) : i \in DOMAIN l \/ i = Len(l) + 1  BY <1>2
<1>4. \A i \in DOMAIN Append(l, r) : Append(l, r)[i].due <= time  BY <1>1, <1>2, <1>3 DEF LogBy
<1>5. \A i \in DOMAIN l : i \in DOMAIN Append(l, r)  BY <1>2
<1> QED BY <1>1, <1>2, <1>4, <1>5 DEF LogBy, OnRecord

\* The run at hand is recorded, as it is or refused.
LEMMA RecordingBooks ==
  ASSUME AInv, eng.at \in Sending, NEW f, eng' = f, NEW r, RunBy(r, now), SameTimes(eng.run, r),
         DOMAIN f = EngFields, f.at \in {"pausing", "marking"}, f.task = eng.task, f.run = eng.run, f.now = eng.now,
         f.runs = eng.runs, f.todo = eng.todo, f.cards = eng.cards,
         log' = [log EXCEPT ![eng.task] = Append(@, r)], UNCHANGED <<now, card>>, spent'.restarts = spent.restarts
  PROVE  Books'
<1> DEFINE t == eng.task
           l == Append(log[t], r)
<1>1. /\ Filed /\ Works(eng, now) /\ Balanced /\ t \in Tasks /\ RunBy(eng.run, now) /\ eng.run # NoRun
  BY BooksSay DEF Sending, AtWork
<1>2. LogBy(log[t], now) /\ card[t] \in Cards  BY <1>1 DEF Filed
<1>3. /\ LogBy(l, now) /\ log[t] \in Seq(Runs) /\ \A x : OnRecord(log[t], x) => OnRecord(l, x)  BY <1>2, AppendedIs
<1>4. card' = [card EXCEPT ![t] = card[t]]  BY <1>1 DEF Filed
<1>5. f.at \in AtWork \ Closing  BY DEF AtWork, Closing
<1>6. Works(f, now)  BY <1>1, <1>5, StillWorks
<1>7. InHand(t, eng) /\ ~Owing(t, eng) /\ Owing(t, f)  BY <1>1 DEF InHand, Owing, Sending
<1>8. ASSUME Here(t) PROVE Accounts(t, card[t], l, spent.restarts, f) /\ Scheduled(card[t])
  <2>1. Accounts(t, card[t], log[t], spent.restarts, eng) /\ Scheduled(card[t])  BY <1>1, <1>8 DEF Balanced, Filed
  <2>2. eng.run \in Runs /\ r \in Runs  BY <1>1 DEF RunBy
  <2> QED BY <1>3, <1>7, <2>1, <2>2, RecordedIs
<1>9. \A u : u # t => ~InHand(u, eng) /\ ~InHand(u, f)  BY DEF InHand, Owing
<1>10. log' = [log EXCEPT ![t] = l]  OBVIOUS
<1> HIDE DEF t, l
<1>11. IF Here(t) THEN Scheduled(card[t]) /\ card[t].is = "here" ELSE card[t] = card[t]  BY <1>8 DEF Here
<1> QED BY <1>1, <1>3, <1>4, <1>5, <1>6, <1>8, <1>9, <1>10, <1>11, OneTaskStep

LEMMA ClosedIs ==
  ASSUME NEW r, NEW time, RunBy(r, time), NEW status \in {"refused", "skipped", "failed", "ended"}
  PROVE  RunBy(Closed(r, status), time) /\ SameTimes(r, Closed(r, status))
BY DEF Closed, Runs, RunBy, SameTimes

LEMMA RefuseBooks ==
  ASSUME AInv, eng.at \in Sending, Refuse, UNCHANGED <<now, card>>, spent'.restarts = spent.restarts
  PROVE  Books'
<1> DEFINE f == [eng EXCEPT !.at = "pausing"]
           r == Closed(eng.run, "refused")
<1>1. eng' = f /\ log' = [log EXCEPT ![eng.task] = Append(@, r)]  BY DEF Refuse
<1>2. DOMAIN eng = EngFields /\ RunBy(eng.run, now)  BY BooksSay DEF Sending, AtWork
<1>3. RunBy(r, now) /\ SameTimes(eng.run, r)  BY <1>2, ClosedIs
<1>4. /\ DOMAIN f = EngFields /\ f.at = "pausing" /\ f.task = eng.task /\ f.run = eng.run /\ f.now = eng.now
      /\ f.runs = eng.runs /\ f.todo = eng.todo /\ f.cards = eng.cards
  BY <1>2 DEF EngFields
<1> HIDE DEF f, r
<1> QED BY <1>1, <1>3, <1>4, RecordingBooks

LEMMA LogRunBooks == ASSUME AInv, LogRun PROVE Books'
<1> DEFINE f == [eng EXCEPT !.at = "marking"]
<1>1. eng.at \in Sending /\ eng' = f /\ log' = [log EXCEPT ![eng.task] = Append(@, eng.run)] /\ UNCHANGED <<now, card, spent>>
  BY DEF LogRun, Sending
<1>2. DOMAIN eng = EngFields /\ RunBy(eng.run, now)  BY <1>1, BooksSay DEF Sending, AtWork
<1>3. SameTimes(eng.run, eng.run)  BY DEF SameTimes
<1>4. /\ DOMAIN f = EngFields /\ f.at = "marking" /\ f.task = eng.task /\ f.run = eng.run /\ f.now = eng.now
      /\ f.runs = eng.runs /\ f.todo = eng.todo /\ f.cards = eng.cards
  BY <1>2 DEF EngFields
<1> HIDE DEF f
<1> QED BY <1>1, <1>2, <1>3, <1>4, RecordingBooks

LEMMA BorrowSlotBooks == ASSUME AInv, BorrowSlot PROVE Books'
<1> DEFINE a == Agent[eng.task]
<1>1. eng.at \in Sending /\ UNCHANGED <<now, card, spent>>  BY DEF BorrowSlot, Sending
<1>2. /\ DOMAIN eng = EngFields /\ eng.run \in Runs /\ eng.task \in Tasks  BY <1>1, BooksSay DEF Sending, AtWork
<1>3. \/ Refuse
      \/ eng' = Next1 /\ UNCHANGED log
      \/ eng' = [eng EXCEPT !.at = "starting", !.run.snap = slot[a]] /\ UNCHANGED log
      \/ eng' = [eng EXCEPT !.at = "starting"] /\ UNCHANGED log
  BY DEF BorrowSlot
<1>4. CASE Refuse  BY <1>1, <1>4, RefuseBooks
<1>5. CASE eng' = Next1 /\ UNCHANGED log  BY <1>1, <1>5, PassedOver
<1>6. CASE eng' = [eng EXCEPT !.at = "starting", !.run.snap = slot[a]] /\ UNCHANGED log
  <2> DEFINE f == [eng EXCEPT !.at = "starting", !.run.snap = slot[a]]
             r == [eng.run EXCEPT !.snap = slot[a]]
  <2>1. slot[a] \in Loops  BY <1>2, RecurringAssumption DEF AInv, SurroundingsTyped
  <2>2. r \in Runs /\ SameTimes(eng.run, r)  BY <1>2, <2>1 DEF Runs, SameTimes
  <2>3. /\ DOMAIN f = EngFields /\ f.at = "starting" /\ f.task = eng.task /\ f.run = r /\ f.now = eng.now
        /\ f.runs = eng.runs /\ f.todo = eng.todo /\ f.cards = eng.cards
    BY <1>2 DEF EngFields
  <2>4. f.at \in Sending  BY <2>3 DEF Sending
  <2>5. eng' = f  BY <1>6
  <2> HIDE DEF f, r
  <2> QED BY <1>1, <1>6, <2>2, <2>3, <2>4, <2>5, SendingGoesOn
<1>7. CASE eng' = [eng EXCEPT !.at = "starting"] /\ UNCHANGED log
  <2> DEFINE f == [eng EXCEPT !.at = "starting"]
  <2>1. SameTimes(eng.run, eng.run)  BY DEF SameTimes
  <2>2. /\ DOMAIN f = EngFields /\ f.at = "starting" /\ f.task = eng.task /\ f.run = eng.run /\ f.now = eng.now
        /\ f.runs = eng.runs /\ f.todo = eng.todo /\ f.cards = eng.cards
    BY <1>2 DEF EngFields
  <2>3. f.at \in Sending  BY <2>2 DEF Sending
  <2>4. eng' = f  BY <1>7
  <2> HIDE DEF f
  <2> QED BY <1>1, <1>2, <1>7, <2>1, <2>2, <2>3, <2>4, SendingGoesOn
<1> QED BY <1>3, <1>4, <1>5, <1>6, <1>7

LEMMA StartLoopBooks == ASSUME AInv, StartLoop PROVE Books'
<1> DEFINE f == [eng EXCEPT !.at = "logging", !.run.loop = gen + 1]
           r == [eng.run EXCEPT !.loop = gen + 1]
<1>1. eng.at \in Sending /\ eng' = f /\ UNCHANGED <<now, card, log, spent>>  BY DEF StartLoop, Sending
<1>2. DOMAIN eng = EngFields /\ eng.run \in Runs  BY <1>1, BooksSay DEF Sending, AtWork
<1>3. gen + 1 \in Nat  BY DEF AInv, SurroundingsTyped
<1>4. r \in Runs /\ SameTimes(eng.run, r)  BY <1>2, <1>3 DEF Runs, SameTimes
<1>5. /\ DOMAIN f = EngFields /\ f.at = "logging" /\ f.task = eng.task /\ f.run = r /\ f.now = eng.now
      /\ f.runs = eng.runs /\ f.todo = eng.todo /\ f.cards = eng.cards
  BY <1>2 DEF EngFields
<1>6. f.at \in Sending  BY <1>5 DEF Sending
<1> HIDE DEF f, r
<1> QED BY <1>1, <1>4, <1>5, <1>6, SendingGoesOn

LEMMA PeerBooks == ASSUME AInv, PeerGone \/ AnswerLost PROVE Books'
<1>1. eng.at \in Sending /\ Refuse /\ UNCHANGED <<now, card>>  BY DEF PeerGone, AnswerLost, Sending
<1>2. spent'.restarts = spent.restarts  BY DEF PeerGone, AnswerLost, AInv, SurroundingsTyped
<1> QED BY <1>1, <1>2, RefuseBooks

LEMMA SendOnceBooks == ASSUME AInv, SendOnce PROVE Books'
<1>1. eng.at \in Sending /\ UNCHANGED <<now, card, spent>>  BY DEF SendOnce, Sending
<1>2. DOMAIN eng = EngFields /\ eng.run \in Runs  BY <1>1, BooksSay DEF Sending, AtWork
<1>3. \/ Refuse
      \/ eng' = Next1 /\ UNCHANGED log
      \/ eng' = [eng EXCEPT !.at = "logging"] /\ UNCHANGED log
  BY DEF SendOnce
<1>4. CASE Refuse  BY <1>1, <1>4, RefuseBooks
<1>5. CASE eng' = Next1 /\ UNCHANGED log  BY <1>1, <1>5, PassedOver
<1>6. CASE eng' = [eng EXCEPT !.at = "logging"] /\ UNCHANGED log
  <2> DEFINE f == [eng EXCEPT !.at = "logging"]
  <2>1. SameTimes(eng.run, eng.run)  BY DEF SameTimes
  <2>2. /\ DOMAIN f = EngFields /\ f.at = "logging" /\ f.task = eng.task /\ f.run = eng.run /\ f.now = eng.now
        /\ f.runs = eng.runs /\ f.todo = eng.todo /\ f.cards = eng.cards
    BY <1>2 DEF EngFields
  <2>3. f.at \in Sending  BY <2>2 DEF Sending
  <2>4. eng' = f  BY <1>6
  <2> HIDE DEF f
  <2> QED BY <1>1, <1>2, <1>6, <2>1, <2>2, <2>3, <2>4, SendingGoesOn
<1> QED BY <1>3, <1>4, <1>5, <1>6

-----------------------------------------------------------------------------

\* What is decided for a card is dated.
LEMMA OccurrenceIs ==
  ASSUME NEW c, Scheduled(c), NEW time \in Nat, IsDue(c, time)
  PROVE  Occurrence(c, time) \in Runs /\ Occurrence(c, time).due <= time
<1>1. Due(c, time) \in Nat /\ Due(c, time) <= time /\ Missed(c, time) \in Nat  BY DueIs
<1>2. c.mode \in Modes  BY DEF Scheduled, Cards
<1> QED BY <1>1, <1>2 DEF Occurrence, NewRun, Runs

LEMMA DecideBooks == ASSUME AInv, NEW t \in Tasks, DecideCard(t) PROVE Books'
<1> DEFINE d == eng.cards[t]
           r == Occurrence(d, eng.now)
           e == [eng EXCEPT !.at = "arming", !.task = t, !.run = r]
           k == spent.restarts
<1>1. eng.at = "deciding" /\ t \in eng.todo /\ UNCHANGED <<now, card, spent>>  BY DEF DecideCard
<1>2. /\ Filed /\ Works(eng, now) /\ AdvancesWhatIsFiled /\ Balanced /\ DOMAIN eng = EngFields /\ now \in Nat
  BY BooksSay
<1>3. eng.now \in Nat /\ eng.now <= now /\ Scheduled(d)  BY <1>1, <1>2 DEF Works
<1>4. \A u : ~InHand(u, eng) /\ ~Owing(u, eng)  BY <1>1 DEF InHand, Owing, Sending
<1>5. /\ DOMAIN e = EngFields /\ e.at = "arming" /\ e.task = t /\ e.run = r /\ e.now = eng.now
      /\ e.runs = eng.runs /\ e.todo = eng.todo /\ e.cards = eng.cards
  BY <1>2 DEF EngFields
<1>6. card' = [card EXCEPT ![t] = card[t]]  BY <1>1, <1>2 DEF Filed
<1>7. \/ IsDue(d, eng.now) /\ \E status \in {"skipped", "refused"} : RecordNotArmed(t, r, status)
      \/ IsDue(d, eng.now) /\ eng' = e /\ UNCHANGED log
      \/ eng' = [eng EXCEPT !.todo = eng.todo \ {t}] /\ UNCHANGED log
  BY DEF DecideCard, Decide
<1> HIDE DEF d, r, e, k
<1>8. CASE eng' = [eng EXCEPT !.todo = eng.todo \ {t}] /\ UNCHANGED log
  <2> DEFINE f == [eng EXCEPT !.todo = eng.todo \ {t}]
  <2>1. /\ DOMAIN f = EngFields /\ f.at = "deciding" /\ f.now = eng.now
        /\ f.runs = eng.runs /\ f.todo = eng.todo \ {t} /\ f.cards = eng.cards
    BY <1>1, <1>2 DEF EngFields
  <2>2. eng' = f  BY <1>8
  <2> HIDE DEF f
  <2>3. f.at \notin AtWork /\ f.at \notin Closing  BY <2>1 DEF AtWork, Closing
  <2>4. Works(f, now)  BY <1>2, <2>1, <2>3, StillWorks
  <2>5. \A u : ~InHand(u, f)  BY <2>1 DEF InHand, Owing, Sending
  <2>6. \A u : Moves(u, card[u], eng, f)  BY <1>4, <2>1, <2>5, OthersMoveOn
  <2>7. \A u \in DOMAIN f.runs : ~Deleted(u) => OnRecord(log[u], f.runs[u])  BY <1>2, <2>1 DEF AdvancesWhatIsFiled
  <2> QED BY <1>1, <1>8, <2>2, <2>3, <2>4, <2>6, <2>7, EngineAlone
<1>9. ASSUME IsDue(d, eng.now)
      PROVE  /\ r \in Runs /\ RunBy(r, now) /\ Works(e, now)
             /\ Here(t) => Accounts(t, card[t], log[t], k, e) /\ Scheduled(card[t]) /\ card[t].is = "here"
  <2>1. r \in Runs /\ r.due <= eng.now  BY <1>3, <1>9, OccurrenceIs DEF r
  <2>2. r.due \in Nat  BY <2>1 DEF Runs
  <2>3. RunBy(r, now)  BY <1>2, <1>3, <2>1, <2>2 DEF RunBy
  <2>4. e.at \in AtWork \ Closing  BY <1>5 DEF AtWork, Closing
  <2>5. Works(e, now)  BY <1>2, <1>5, <2>3, <2>4, StillWorks
  <2>6. ASSUME Here(t) PROVE Accounts(t, card[t], log[t], k, e) /\ Scheduled(card[t])
    <3>1. Accounts(t, card[t], log[t], k, eng) /\ Scheduled(card[t])  BY <1>2, <2>6 DEF Balanced, Filed, k
    <3>2. IsDue(eng.cards[t], eng.now) /\ e.run = Occurrence(eng.cards[t], eng.now)  BY <1>5, <1>9 DEF d, r
    <3> QED BY <1>1, <1>2, <1>4, <1>5, <3>1, <3>2, DecidedIs
  <2> QED BY <2>1, <2>3, <2>5, <2>6 DEF Here
<1>10. CASE IsDue(d, eng.now) /\ eng' = e /\ UNCHANGED log
  <2>1. Works(eng', now)  BY <1>9, <1>10
  <2>2. LogBy(log[t], now)  BY <1>2 DEF Filed
  <2>3. log' = log  BY <1>10
  <2>4. \A u : u # t => ~InHand(u, e)  BY <1>5 DEF InHand, Owing
  <2>5. e.at \notin Closing  BY <1>5 DEF Closing
  <2>6. Here(t) => Accounts(t, card[t], log[t], spent.restarts, e)  BY <1>9, <1>10 DEF k
  <2>7. IF Here(t) THEN Scheduled(card[t]) /\ card[t].is = "here" ELSE card[t] = card[t]  BY <1>9, <1>10
  <2>8. eng' = e  BY <1>10
  <2> QED BY <1>1, <1>4, <1>5, <1>6, <2>1, <2>2, <2>3, <2>4, <2>5, <2>6, <2>7, <2>8, OneTaskStep
<1>11. ASSUME IsDue(d, eng.now), NEW status \in {"skipped", "refused"}, RecordNotArmed(t, r, status) PROVE Books'
  <2> DEFINE at == IF status = "refused" THEN "pausing" ELSE "marking"
             f == [eng EXCEPT !.at = at, !.task = t, !.run = r]
             s == Closed(r, status)
             l == Append(log[t], s)
  <2>1. /\ DOMAIN f = EngFields /\ f.at = at /\ f.task = t /\ f.run = r /\ f.now = eng.now
        /\ f.runs = eng.runs /\ f.todo = eng.todo /\ f.cards = eng.cards
    BY <1>2 DEF EngFields
  <2>2. eng' = f /\ log' = [log EXCEPT ![t] = l]  BY <1>11 DEF RecordNotArmed
  <2>3. at \in {"pausing", "marking"}  OBVIOUS
  <2>4. r \in Runs /\ RunBy(r, now) /\ Works(e, now)  BY <1>9, <1>11
  <2>5. RunBy(s, now) /\ SameTimes(r, s)  BY <2>4, ClosedIs
  <2>6. LogBy(log[t], now)  BY <1>2 DEF Filed
  <2> HIDE DEF f, at, s
  <2>7. log[t] \in Seq(Runs) /\ LogBy(l, now) /\ \A x : OnRecord(log[t], x) => OnRecord(l, x)  BY <2>5, <2>6, AppendedIs
  <2>8. f.at \in AtWork \ Closing  BY <2>1, <2>3 DEF AtWork, Closing
  <2>9. Works(f, now)  BY <1>2, <2>1, <2>4, <2>8, StillWorks
  <2>10. ASSUME Here(t) PROVE Accounts(t, card[t], l, k, f) /\ Scheduled(card[t]) /\ card[t].is = "here"
    <3>1. Accounts(t, card[t], log[t], k, e) /\ Scheduled(card[t]) /\ card[t].is = "here"  BY <1>9, <1>11, <2>10
    <3>2. r # NoRun  BY <2>4, NoRunAssumption
    <3>3. InHand(t, e) /\ ~Owing(t, e) /\ Owing(t, f)  BY <1>5, <2>1, <2>3, <3>2 DEF InHand, Owing, Sending
    <3>4. s \in Runs  BY <2>5 DEF RunBy
    <3>5. /\ e.run \in Runs /\ f.run = e.run /\ SameTimes(e.run, s)
          /\ f.cards = e.cards /\ f.now = e.now /\ f.todo = e.todo
      BY <1>5, <2>1, <2>4, <2>5
    <3>6. Accounts(t, card[t], l, k, f)  BY <2>7, <3>1, <3>3, <3>4, <3>5, RecordedIs
    <3> QED BY <3>1, <3>6
  <2> HIDE DEF l
  <2>11. \A u : u # t => ~InHand(u, f)  BY <2>1 DEF InHand, Owing
  <2>12. Here(t) => Accounts(t, card[t], l, spent.restarts, f)  BY <2>10 DEF k
  <2>13. IF Here(t) THEN Scheduled(card[t]) /\ card[t].is = "here" ELSE card[t] = card[t]  BY <2>10
  <2>14. /\ f.at \notin Closing
         /\ \A u \in DOMAIN f.runs : u \in DOMAIN eng.runs /\ f.runs[u] = eng.runs[u]
         /\ f.todo \subseteq eng.todo /\ f.cards = eng.cards /\ f.now = eng.now
    BY <2>1, <2>8
  <2>15. t \in DOMAIN f.runs => (OnRecord(log[t], eng.runs[t]) => OnRecord(l, eng.runs[t]))  BY <2>7
  <2> QED BY <1>1, <1>4, <1>6, <2>2, <2>7, <2>9, <2>11, <2>12, <2>13, <2>14, <2>15, OneTaskStep
<1> QED BY <1>7, <1>8, <1>10, <1>11

\* A record that takes the place of one of the same times.
LEMMA UpsertedIs ==
  ASSUME NEW l, NEW time, LogBy(l, time), NEW old, NEW new, RunBy(new, time), SameTimes(old, new)
  PROVE  /\ LogBy(Upsert(l, old, new), time)
         /\ OnRecord(l, old) => /\ DOMAIN Upsert(l, old, new) = DOMAIN l
                                /\ \A i \in DOMAIN l : SameTimes(l[i], Upsert(l, old, new)[i])
<1> DEFINE g == [i \in DOMAIN l |-> IF l[i] = old THEN new ELSE l[i]]
<1>1. CASE OnRecord(l, old)
  <2>1. Upsert(l, old, new) = g  BY <1>1 DEF Upsert, OnRecord
  <2>2. Len(l) \in Nat /\ DOMAIN l = 1 .. Len(l) /\ \A i \in DOMAIN l : l[i] \in Runs /\ l[i].due <= time
    BY DEF LogBy
  <2>3. \A i \in DOMAIN l : g[i] \in Runs /\ g[i].due <= time  BY <2>2 DEF RunBy
  <2>4. g \in Seq(Runs)  BY <2>2, <2>3, IsASeq
  <2>5. LogBy(g, time)  BY <2>3, <2>4 DEF LogBy
  <2>6. \A i \in DOMAIN l : SameTimes(l[i], g[i])  BY DEF SameTimes
  <2> QED BY <2>1, <2>5, <2>6
<1>2. CASE ~OnRecord(l, old)
  <2>1. Upsert(l, old, new) = Append(l, new)  BY <1>2 DEF Upsert, OnRecord
  <2> QED BY <1>2, <2>1, AppendedIs
<1> QED BY <1>1, <1>2

LEMMA AtHandIs ==
  ASSUME AInv, NEW at
  PROVE  /\ DOMAIN AtHand(at) = EngFields /\ AtHand(at).at = at /\ AtHand(at).run = NoRun /\ AtHand(at).now = eng.now
         /\ AtHand(at).runs = eng.runs /\ AtHand(at).todo = eng.todo /\ AtHand(at).cards = eng.cards
<1>1. DOMAIN eng = EngFields  BY BooksSay
<1> QED BY <1>1 DEF AtHand, EngFields

LEMMA CloseRunBooks == ASSUME AInv, CloseRun PROVE Books'
<1> DEFINE t == eng.task
           l == Upsert(log[t], eng.run, eng.closed)
           h == AtHand("pausing")
           g == [h EXCEPT !.task = t]
           f == IF eng.closed.status = "failed" /\ Here(t) THEN g ELSE AtHand("advancing")
           k == spent.restarts
<1>1. /\ eng.at = "closing" /\ eng' = f /\ UNCHANGED <<now, card, spent>>
      /\ log' = [log EXCEPT ![t] = l]
  BY DEF CloseRun
<1>2. /\ Filed /\ Works(eng, now) /\ AdvancesWhatIsFiled /\ Balanced /\ DOMAIN eng = EngFields
  BY BooksSay
<1>3. /\ t \in Tasks /\ RunBy(eng.closed, now) /\ SameTimes(eng.run, eng.closed) /\ t \notin DOMAIN eng.runs
      /\ ~Deleted(t) => OnRecord(log[t], eng.run)
  BY <1>1, <1>2 DEF Works, Closing, AtWork, AdvancesWhatIsFiled
<1>4. LogBy(log[t], now)  BY <1>2, <1>3 DEF Filed
<1>5. /\ LogBy(l, now)
      /\ OnRecord(log[t], eng.run) => DOMAIN l = DOMAIN log[t] /\ \A i \in DOMAIN log[t] : SameTimes(log[t][i], l[i])
  BY <1>3, <1>4, UpsertedIs
<1>6. /\ DOMAIN h = EngFields /\ h.at = "pausing" /\ h.run = NoRun /\ h.now = eng.now
      /\ h.runs = eng.runs /\ h.todo = eng.todo /\ h.cards = eng.cards
  BY AtHandIs
<1> HIDE DEF h, l
<1>7. /\ DOMAIN g = EngFields /\ g.at = "pausing" /\ g.task = t /\ g.run = NoRun /\ g.now = eng.now
      /\ g.runs = eng.runs /\ g.todo = eng.todo /\ g.cards = eng.cards
  BY <1>6 DEF EngFields
<1> HIDE DEF g, t
<1>8. /\ DOMAIN f = EngFields /\ ((f.at = "pausing" /\ f.task = t) \/ f.at = "advancing") /\ f.run = NoRun /\ f.now = eng.now
      /\ f.runs = eng.runs /\ f.todo = eng.todo /\ f.cards = eng.cards
  BY <1>7, AtHandIs
<1> HIDE DEF f
<1>9. f.at \in (AtWork \ Closing) \cup {"idle", "advancing", "deciding"} /\ f.at \notin Closing
      /\ (f.at \in AtWork => f.at = "pausing")
  BY <1>8 DEF AtWork, Closing
<1>10. Works(f, now)  BY <1>2, <1>3, <1>8, <1>9, StillWorks
<1>11. \A u : ~InHand(u, f) /\ ~InHand(u, eng)  BY <1>1, <1>8 DEF InHand, Owing, Sending
<1>12. ASSUME Here(t) PROVE Accounts(t, card[t], l, k, f) /\ Scheduled(card[t]) /\ card[t].is = "here"
  <2>1. Accounts(t, card[t], log[t], k, eng) /\ Scheduled(card[t]) /\ card[t].is = "here"
    BY <1>2, <1>3, <1>12 DEF Balanced, Filed, Here
  <2>2. OnRecord(log[t], eng.run)  BY <1>3, <2>1 DEF Deleted
  <2>3. SameGrid(card[t], card[t])  BY DEF SameGrid
  <2>4. DOMAIN l = DOMAIN log[t] /\ \A i \in DOMAIN log[t] : SameTimes(log[t][i], l[i])  BY <1>5, <2>2
  <2>5. Accounts(t, card[t], l, k, eng)  BY <2>1, <2>3, <2>4, SameAccounts
  <2>6. Moves(t, card[t], eng, f)  BY <1>8, <1>11, OthersMoveOn
  <2> QED BY <2>1, <2>5, <2>6, EngineMovesOn
<1>13. card' = [card EXCEPT ![t] = card[t]]  BY <1>1, <1>2 DEF Filed
<1>14. IF Here(t) THEN Scheduled(card[t]) /\ card[t].is = "here" ELSE card[t] = card[t]  BY <1>12
<1>15. Here(t) => Accounts(t, card[t], l, spent.restarts, f)  BY <1>12 DEF k
<1>16. t \notin DOMAIN f.runs  BY <1>3, <1>8
<1> QED BY <1>1, <1>3, <1>5, <1>8, <1>9, <1>10, <1>11, <1>13, <1>14, <1>15, <1>16, OneTaskStep

-----------------------------------------------------------------------------

LEMMA PauseBooks == ASSUME AInv, PauseIfFailing PROVE Books'
<1> DEFINE t == eng.task
           c == IF ShouldAutoPause(log[t]) THEN Paused(card[t], "auto") ELSE card[t]
           g == [eng EXCEPT !.at = "marking"]
           f == IF eng.run # NoRun THEN g ELSE AtHand("advancing")
           k == spent.restarts
<1>1. eng.at = "pausing" /\ eng' = f /\ card' = [card EXCEPT ![t] = c] /\ UNCHANGED <<now, log, spent>>
  BY DEF PauseIfFailing
<1>2. /\ Filed /\ Works(eng, now) /\ AdvancesWhatIsFiled /\ Balanced /\ DOMAIN eng = EngFields
      /\ t \in Tasks /\ (eng.run # NoRun => eng.run \in Runs /\ RunBy(eng.run, now))
  BY <1>1, BooksSay DEF AtWork
<1>3. card[t] \in Cards /\ LogBy(log[t], now) /\ (Here(t) => Scheduled(card[t]))  BY <1>2 DEF Filed
<1>4. IF Here(t) THEN Scheduled(c) /\ c.is = "here" /\ SameGrid(card[t], c) ELSE c = card[t]
  <2>1. CASE ~Here(t)  BY <2>1 DEF Here, Paused
  <2>2. CASE Here(t)
    <3> DEFINE p == Paused(card[t], "auto")
    <3>1. card[t].is = "here" /\ Scheduled(card[t])  BY <1>3, <2>2 DEF Here
    <3>2. p \in Cards /\ p.is = "here" /\ p.sched = card[t].sched /\ SameGrid(card[t], p)
      BY <1>3, <3>1 DEF Paused, Cards, SameGrid
    <3>3. SameGrid(card[t], card[t])  BY DEF SameGrid
    <3> HIDE DEF p
    <3>4. Scheduled(p)  BY <3>1, <3>2 DEF Scheduled
    <3>5. c = p \/ c = card[t]  BY DEF p
    <3> HIDE DEF c
    <3> QED BY <2>2, <3>1, <3>2, <3>3, <3>4, <3>5
  <2> QED BY <2>1, <2>2
<1>5. /\ DOMAIN g = EngFields /\ g.at = "marking" /\ g.task = t /\ g.run = eng.run /\ g.now = eng.now
      /\ g.runs = eng.runs /\ g.todo = eng.todo /\ g.cards = eng.cards
  BY <1>2 DEF EngFields
<1> HIDE DEF g, t, c
<1>6. /\ DOMAIN f = EngFields /\ f.run = eng.run /\ f.now = eng.now
      /\ f.runs = eng.runs /\ f.todo = eng.todo /\ f.cards = eng.cards
      /\ IF eng.run # NoRun THEN f.at = "marking" /\ f.task = t ELSE f.at = "advancing"
  BY <1>5, AtHandIs
<1> HIDE DEF f
<1>7. /\ f.at \in (AtWork \ Closing) \cup {"idle", "advancing", "deciding"} /\ f.at \notin Closing
      /\ f.at \in AtWork => f.task \in Tasks /\ RunBy(f.run, now)
  BY <1>2, <1>6 DEF AtWork, Closing
<1>8. Works(f, now)  BY <1>2, <1>6, <1>7, StillWorks
<1>9. /\ Owing(t, f) <=> Owing(t, eng)
      /\ InHand(t, f) => InHand(t, eng) /\ eng.run \in Runs /\ SameTimes(eng.run, f.run)
  BY <1>1, <1>2, <1>6 DEF InHand, Owing, Sending, SameTimes, t
<1>10. ASSUME Here(t) PROVE Accounts(t, c, log[t], k, f)
  <2>1. Accounts(t, card[t], log[t], k, eng)  BY <1>2, <1>10 DEF Balanced
  <2>2. \A i \in DOMAIN log[t] : SameTimes(log[t][i], log[t][i])  BY DEF SameTimes
  <2>3. Accounts(t, c, log[t], k, eng)  BY <1>4, <1>10, <2>1, <2>2, SameAccounts
  <2>4. t \in f.todo => t \in eng.todo /\ f.cards = eng.cards /\ f.now = eng.now  BY <1>6
  <2>5. Moves(t, c, eng, f)  BY <1>9, <2>4 DEF Moves
  <2> QED BY <1>4, <1>10, <2>3, <2>5, EngineMovesOn
<1>11. \A u : u # t => ~InHand(u, eng) /\ ~InHand(u, f)
  BY <1>1, <1>6 DEF InHand, Owing, Sending, t
<1>12. Here(t) => Accounts(t, c, log[t], spent.restarts, f)  BY <1>10 DEF k
<1> QED BY <1>1, <1>2, <1>3, <1>4, <1>6, <1>7, <1>8, <1>11, <1>12, OneTaskStep

LEMMA MarkHandledBooks == ASSUME AInv, MarkHandled PROVE Books'
<1> DEFINE t == eng.task
           c == Handled(card[t], eng.run)
           f == Next1
           k == spent.restarts
<1>1. eng.at = "marking" /\ eng' = f /\ card' = [card EXCEPT ![t] = c] /\ UNCHANGED <<now, log, spent>>
  BY DEF MarkHandled
<1>2. /\ Filed /\ Balanced /\ t \in Tasks /\ eng.run \in Runs /\ eng.run # NoRun /\ eng.at \in AtWork
  BY <1>1, BooksSay DEF AtWork
<1>3. card[t] \in Cards /\ LogBy(log[t], now)  BY <1>2 DEF Filed
<1>4. /\ Works(f, now) /\ f.at \in {"idle", "deciding"}
      /\ \A u : ~InHand(u, f)
      /\ t \notin f.todo
      /\ f.todo = {} \/ (f.todo \subseteq eng.todo /\ f.cards = eng.cards /\ f.now = eng.now)
      /\ \A u \in DOMAIN f.runs : u \in DOMAIN eng.runs /\ f.runs[u] = eng.runs[u]
  BY <1>2, Next1Is
<1>5. Owing(t, eng)  BY <1>1, <1>2 DEF Owing
<1> HIDE DEF f
<1>6. ASSUME Here(t) PROVE Accounts(t, c, log[t], k, f) /\ Scheduled(c) /\ c.is = "here"
  <2>1. Accounts(t, card[t], log[t], k, eng) /\ Scheduled(card[t]) /\ card[t].is = "here"
    BY <1>2, <1>6 DEF Balanced, Filed, Here
  <2>2. Accounts(t, c, log[t], k, f) /\ Scheduled(c)  BY <1>2, <1>4, <1>5, <2>1, MarkedIs
  <2>3. c.is = "here"  BY <1>3, <2>1 DEF Handled, Cards
  <2> QED BY <2>2, <2>3
<1>7. ~Here(t) => c = card[t]  BY DEF Here, Handled
<1>8. \A u : u # t => ~InHand(u, eng)  BY DEF InHand, Owing
<1>9. f.at \notin Closing  BY <1>4 DEF Closing
<1> HIDE DEF c, t
<1>10. IF Here(t) THEN Scheduled(c) /\ c.is = "here" ELSE c = card[t]  BY <1>6, <1>7
<1>11. Here(t) => Accounts(t, c, log[t], spent.restarts, f)  BY <1>6 DEF k
<1> QED BY <1>1, <1>2, <1>3, <1>4, <1>8, <1>9, <1>10, <1>11, OneTaskStep

LEMMA EngineKeepsTheBooks == ASSUME AInv, EngineStep \/ AnswerLost PROVE Books'
BY TickBeginsBooks, ListCardsBooks, HandBackBooks, CloseRunBooks, PauseBooks, BorrowSlotBooks, StartLoopBooks, PeerBooks,
   SendOnceBooks, LogRunBooks, MarkHandledBooks, TickEndsBooks, AdvanceBooks, DecideBooks
DEF EngineStep

-----------------------------------------------------------------------------

LEMMA InitAInv == Init => AInv
<1> SUFFICES ASSUME Init PROVE AInv  OBVIOUS
<1>1. /\ now = 1 /\ gate = TRUE /\ gen = 0 /\ eng = Idle /\ deleting = {} /\ log = [t \in Tasks |-> <<>>]
      /\ card = [t \in Tasks |-> IF t \in Started THEN NewCard(FirstSchedule, "goal", 1) ELSE NoCard]
      /\ slot = [a \in Agents |-> NoLoop] /\ spent = [acts |-> 0, gates |-> 0, turns |-> 0, outages |-> 0, restarts |-> 0]
      /\ busy = [a \in Agents |-> FALSE] /\ reach = [a \in Agents |-> TRUE] /\ dead = [a \in Agents |-> FALSE]
  BY DEF Init
<1>2. MaxTime \in Nat \ {0} /\ FirstSchedule \in Schedules /\ "goal" \in Modes  BY RecurringAssumption
<1>3. NoLoop \in Loops  BY DEF NoLoop, Loops
<1>4. SurroundingsTyped
  <2>1. now \in 1 .. MaxTime  BY <1>1, <1>2
  <2>2. "restarts" \in DOMAIN spent /\ spent.restarts \in Nat  BY <1>1
  <2>3. slot \in [Agents -> Loops]  BY <1>1, <1>3
  <2>4. {busy, reach, dead} \subseteq [Agents -> BOOLEAN]  BY <1>1
  <2> QED BY <1>1, <2>1, <2>2, <2>3, <2>4 DEF SurroundingsTyped
<1>5. Works(eng, now)  BY <1>1, IdleIs
<1>6. LogBy(<<>>, 1)
  <2>1. <<>> \in Seq(Runs)  BY EmptySeq
  <2>2. DOMAIN <<>> = {}  OBVIOUS
  <2> QED BY <2>1, <2>2 DEF LogBy
<1>7. LET c == NewCard(FirstSchedule, "goal", 1) IN Scheduled(c) /\ c.is = "here" /\ c.anchor = 1 /\ c.handled = 0
  <2> DEFINE b == [NoCard EXCEPT !.is = "here", !.enabled = TRUE, !.sched = FirstSchedule, !.mode = "goal"]
             d == Anchored(b, 1)
  <2>1. b \in Cards /\ b.is = "here" /\ b.sched = FirstSchedule  BY <1>2 DEF NoCard, Cards
  <2> HIDE DEF b
  <2>2. d \in Cards /\ d.is = "here" /\ d.sched = FirstSchedule /\ d.anchor = 1 /\ d.handled = 0  BY <2>1, AnchoredIs
  <2>3. NewCard(FirstSchedule, "goal", 1) = d  BY DEF NewCard, b
  <2> HIDE DEF d
  <2>4. Scheduled(d)  BY <1>2, <2>2 DEF Scheduled
  <2> QED BY <2>2, <2>3, <2>4
<1> DEFINE first == NewCard(FirstSchedule, "goal", 1)
<1>8. Scheduled(first) /\ first.is = "here" /\ first.anchor = 1 /\ first.handled = 0 /\ first \in Cards  BY <1>7 DEF Scheduled
<1>9. card = [t \in Tasks |-> IF t \in Started THEN first ELSE NoCard]  BY <1>1
<1> HIDE DEF first
<1>10. Filed
  <2>1. card \in [Tasks -> Cards]  BY <1>8, <1>9, GoneIs
  <2>2. ASSUME NEW t \in Tasks
        PROVE  (Here(t) \/ card[t] \in {NoCard, Gone}) /\ (Here(t) => Scheduled(card[t])) /\ LogBy(log[t], now)
    BY <1>1, <1>6, <1>8, <1>9, GoneIs DEF Here
  <2> QED BY <1>1, <2>1, <2>2 DEF Filed
<1>11. AdvancesWhatIsFiled  BY <1>1, IdleIs DEF AdvancesWhatIsFiled, Closing
<1>12. Balanced
  <2>1. ASSUME NEW t \in Tasks, Here(t) PROVE Accounts(t, card[t], log[t], spent.restarts, eng)
    <3>1. card[t] = first  BY <1>9, <2>1, GoneIs DEF Here
    <3>2. LogBy(log[t], 1) /\ Works(eng, 1) /\ 1 \in Nat  BY <1>1, <1>5, <1>6
    <3> QED BY <1>8, <3>1, <3>2, NewGrid
  <2> QED BY <2>1 DEF Balanced
<1> QED BY <1>4, <1>5, <1>10, <1>11, <1>12 DEF AInv, Books

LEMMA StepAInv == AInv /\ [Next]_vars => AInv'
<1> SUFFICES ASSUME AInv, [Next]_vars PROVE AInv'  OBVIOUS
<1>1. Books'
  <2>1. CASE EngineStep  BY <2>1, EngineKeepsTheBooks
  <2>2. CASE Users  BY <2>2, RunNowBooks, LeavesTheBooks, CommandsKeepTheBooks DEF Users
  <2>3. CASE Surroundings
    BY <2>3, DeletingKeepsTheBooks, LeavesTheBooks, KillKeepsTheBooks, EngineKeepsTheBooks DEF Surroundings
  <2>4. CASE UNCHANGED vars  BY <2>4, LeavesTheBooks
  <2> QED BY <2>1, <2>2, <2>3, <2>4 DEF Next
<1> QED BY <1>1, SurroundingsAreKept DEF AInv

\* The books balance in every state.
THEOREM AccountsInvariance == Spec => []AInv
<1>1. Init => AInv  BY InitAInv
<1>2. AInv /\ [Next]_vars => AInv'  BY StepAInv
<1> QED BY <1>1, <1>2, PTL DEF Spec

\* Every variable keeps to its type, the times of runs and cards among them.
THEOREM RecurringTypeCorrect == Spec => []TypeOK
<1>1. AInv => TypeOK
  <2> SUFFICES ASSUME AInv PROVE TypeOK  OBVIOUS
  <2>1. \A t \in Tasks : \A i \in DOMAIN log[t] : log[t][i] \in Runs  BY DEF AInv, Books, Filed, LogBy
  <2> QED BY <2>1 DEF AInv, Books, Filed, SurroundingsTyped, TypeOK
<1> QED BY <1>1, AccountsInvariance, PTL

\* Every occurrence a card has put behind itself is covered by a run on record, and, when
\* no kill came between a record and its mark, covered once.
THEOREM OccurrencesAreAlwaysAccounted == Spec => []OccurrencesAreAccounted
<1>1. AInv => OccurrencesAreAccounted
  <2> SUFFICES ASSUME AInv, NEW t \in Tasks, Here(t)
               PROVE  /\ Covered(t) >= Settled(t)
                      /\ eng.at = "idle" /\ spent.restarts = 0 => Covered(t) = Settled(t)
    BY DEF OccurrencesAreAccounted
  <2> DEFINE c == card[t]
             n == Cardinality(Claims(c, log[t]))
             m == Reached(c, c.handled)
             o == Owed(t, c, eng)
  <2>1. Covered(t) = n /\ Settled(t) = m  BY DEF Covered, Settled, Reached
  <2>2. Accounts(t, c, log[t], spent.restarts, eng) /\ Scheduled(c)  BY BooksSay DEF Balanced, Filed
  <2>3. IsFiniteSet(Claims(c, log[t])) /\ n >= m + o /\ (spent.restarts = 0 => n = m + o)  BY <2>2 DEF Accounts
  <2>4. c.anchor \in Nat /\ c.handled \in Nat  BY <2>2 DEF Scheduled, Cards
  <2>5. n \in Nat /\ m \in Nat  BY <2>3, <2>4, ReachedIs, FS_CardinalityType
  <2>6. o \in Nat
    <3>1. Owing(t, eng) => eng.run \in Runs  BY BooksSay DEF Owing, AtWork
    <3> QED BY <2>4, <3>1, WeightIs DEF Owed
  <2>7. eng.at = "idle" => o = 0  BY DEF Owed, Owing
  <2> HIDE DEF n, m, o, c
  <2> QED BY <2>1, <2>3, <2>5, <2>6, <2>7
<1> QED BY <1>1, AccountsInvariance, PTL

-----------------------------------------------------------------------------
(* Cards that keep failing.                                                *)

\* Where the last record of a card has still to be looked at.
Lately == {"pausing", "marking"}

\* The next run of the card would be one too many.
Failing(c, l) ==
  \E k \in OnGridAt(c, l) :
    /\ Len(l) < k + AutoPauseWindow
    /\ AllFailed(l, {j \in OnGridAt(c, l) : k <= j}, AutoPauseAfter)

\* A run in progress is the last one of a log, and the runs of the grid come last.
Orderly(c, l) ==
  /\ \A i \in DOMAIN l : IsRunning(l[i]) => i = Len(l)
  /\ \A i, j \in DOMAIN l : i < j /\ l[i].due > c.anchor => l[j].due > c.anchor

NeverOneTooMany(c, l) ==
  \A i, k \in OnGridAt(c, l) : ~l[i].manual /\ i <= k + AutoPauseWindow => ~FailedBefore(c, l, i, k)

\* What the engine has at hand about t, for a log that it found at rest.
Dated(l, e) == e.at # "idle" => \A i \in DOMAIN l : l[i].due <= e.now
AtRest(l)   == \A i \in DOMAIN l : ~IsRunning(l[i])
Sends(t, c, l, e) ==
  e.at \in Sending /\ e.task = t =>
    /\ AtRest(l) /\ IsRunning(e.run)
    /\ e.run.due <= e.now /\ (e.run.due > c.anchor \/ c.anchor >= e.now)
Closes(t, e) ==
  /\ e.at \in Closing /\ e.task = t => IsRunning(e.run) /\ e.closed.status \in {"failed", "ended"}
  /\ t \in DOMAIN e.runs => IsRunning(e.runs[t])

Prepared(t, c, l, e) == Dated(l, e) /\ Sends(t, c, l, e) /\ Closes(t, e)

\* A card that is failing is paused, or about to be, and no run of its own is at hand.
Heeds(t, c, l, e) ==
  Failing(c, l) =>
    /\ ~c.enabled \/ (e.at = "pausing" /\ e.task = t)
    /\ t \in e.todo /\ e.cards[t].enabled => e.task = t /\ e.at \in Lately
    /\ e.at \in Sending /\ e.task = t => e.run.manual

Pauses(t, c, l, k, e) ==
  /\ Orderly(c, l) /\ Prepared(t, c, l, e)
  /\ k = 0 => NeverOneTooMany(c, l) /\ Heeds(t, c, l, e)

\* Nothing has been done with a card that is not created.
Apart(t, e) == t \notin e.todo /\ t \notin DOMAIN e.runs /\ (e.at \in AtWork => e.task # t)

\* No card waits to be decided while runs are advanced.
Rests(e) == e.at \in {"idle", "advancing"} \cup Closing \/ (e.at = "pausing" /\ e.run = NoRun) => e.todo = {}

PInv ==
  /\ Rests(eng)
  /\ \A t \in Tasks : card[t].is = "unborn" => log[t] = <<>> /\ Apart(t, eng)
  /\ \A t \in Tasks : Here(t) => Pauses(t, card[t], log[t], spent.restarts, eng)

-----------------------------------------------------------------------------
(* Rows of failures.                                                       *)

\* There is no row without a run.
LEMMA NoRow ==
  ASSUME NEW l, NEW places, places = {}
  PROVE  ~AllFailed(l, places, AutoPauseAfter)
<1>1. Cardinality(places) = 0  BY FS_EmptySet
<1>2. AutoPauseAfter # 0  BY RecurrenceAssumption
<1> QED BY <1>1, <1>2 DEF AllFailed

LEMMA SameRow ==
  ASSUME NEW l, NEW m, NEW places, \A i \in places : m[i] = l[i], NEW n
  PROVE  AllFailed(m, places, n) <=> AllFailed(l, places, n)
BY DEF AllFailed

\* Of the card only the anchor counts.
LEMMA SameStanding ==
  ASSUME NEW c, NEW d, d.anchor = c.anchor, NEW l
  PROVE  /\ Orderly(d, l) <=> Orderly(c, l)
         /\ NeverOneTooMany(d, l) <=> NeverOneTooMany(c, l)
         /\ Failing(d, l) <=> Failing(c, l)
         /\ \A t, e : Prepared(t, d, l, e) <=> Prepared(t, c, l, e)
<1>1. OnGridAt(d, l) = OnGridAt(c, l)  BY DEF OnGridAt
<1>2. \A i, k : FailedBefore(d, l, i, k) <=> FailedBefore(c, l, i, k)  BY <1>1 DEF FailedBefore
<1>3. Orderly(d, l) <=> Orderly(c, l)  BY DEF Orderly
<1>4. NeverOneTooMany(d, l) <=> NeverOneTooMany(c, l)  BY <1>1, <1>2 DEF NeverOneTooMany
<1>5. Failing(d, l) <=> Failing(c, l)  BY <1>1 DEF Failing
<1>6. \A t, e : Prepared(t, d, l, e) <=> Prepared(t, c, l, e)  BY DEF Prepared, Sends
<1> QED BY <1>3, <1>4, <1>5, <1>6

\* A card on a new grid has no run on it.
LEMMA EmptyGrid ==
  ASSUME NEW c, NEW l, NEW time \in Nat, LogBy(l, time), c.anchor = time
  PROVE  /\ Orderly(c, l) <=> \A i \in DOMAIN l : IsRunning(l[i]) => i = Len(l)
         /\ NeverOneTooMany(c, l) /\ ~Failing(c, l)
<1>1. \A i \in DOMAIN l : ~(l[i].due > c.anchor)
  <2> SUFFICES ASSUME NEW i \in DOMAIN l PROVE ~(l[i].due > c.anchor)  OBVIOUS
  <2>1. l[i] \in Runs /\ l[i].due <= time  BY DEF LogBy
  <2>2. l[i].due \in Nat  BY <2>1 DEF Runs
  <2> QED BY <2>1, <2>2
<1>2. OnGridAt(c, l) = {}  BY <1>1 DEF OnGridAt
<1> QED BY <1>1, <1>2 DEF Orderly, NeverOneTooMany, Failing

\* One record more.
LEMMA OneRecordMore ==
  ASSUME NEW c, c.anchor \in Nat, NEW l \in Seq(Runs), NEW r \in Runs, AtRest(l), Orderly(c, l),
         NEW time \in Nat, \A i \in DOMAIN l : l[i].due <= time,
         r.due > c.anchor \/ c.anchor >= time
  PROVE  /\ Orderly(c, Append(l, r))
         /\ NeverOneTooMany(c, l) /\ (r.manual \/ ~Failing(c, l)) => NeverOneTooMany(c, Append(l, r))
         /\ Failing(c, Append(l, r)) => Failure(r) \/ (r.status = "skipped" /\ Failing(c, l))
<1> DEFINE m == Append(l, r)
           n == Len(l) + 1
           L == OnGridAt(c, l)
           M == OnGridAt(c, m)
<1>1. /\ Len(l) \in Nat /\ DOMAIN l = 1 .. Len(l) /\ DOMAIN m = 1 .. n /\ Len(m) = n
      /\ \A i \in DOMAIN l : m[i] = l[i]
      /\ m[n] = r
  BY AppendProperties
<1>2. \A i \in DOMAIN l : l[i] \in Runs /\ l[i].due \in Nat
  <2>1. \A i \in DOMAIN l : l[i] \in Runs  BY <1>1
  <2>2. \A x \in Runs : x.due \in Nat  BY DEF Runs
  <2> QED BY <2>1, <2>2
<1>3. r.due \in Nat  BY DEF Runs
<1>4. \A i : i \in DOMAIN m <=> i \in DOMAIN l \/ i = n  BY <1>1
<1>5. n \notin DOMAIN l /\ n \in Nat /\ \A i \in DOMAIN l : i \in Nat /\ i < n  BY <1>1
<1> HIDE DEF m, n
<1>6. /\ \A i : i \in L <=> i \in DOMAIN l /\ l[i].due > c.anchor /\ l[i].status # "skipped"
      /\ \A i : i \in M <=> i \in DOMAIN m /\ m[i].due > c.anchor /\ m[i].status # "skipped"
  BY DEF OnGridAt
<1>7. /\ \A i : i \in M <=> i \in L \/ (i = n /\ r.due > c.anchor /\ r.status # "skipped")
      /\ \A i \in L : i \in DOMAIN l /\ i \in Nat /\ i < n /\ m[i] = l[i]
  BY <1>1, <1>4, <1>5, <1>6
<1>8. \A i \in L : r.due > c.anchor  BY <1>2, <1>6
<1> DEFINE lb(i, k) == {j \in L : k <= j /\ j < i}
           mb(i, k) == {j \in M : k <= j /\ j < i}
<1>9. /\ \A i, k : FailedBefore(c, l, i, k) <=> AllFailed(l, lb(i, k), AutoPauseAfter)
      /\ \A i, k : FailedBefore(c, m, i, k) <=> AllFailed(m, mb(i, k), AutoPauseAfter)
  BY DEF FailedBefore
<1>10. /\ Failing(c, l) <=> \E k \in L : Len(l) < k + AutoPauseWindow /\ AllFailed(l, {j \in L : k <= j}, AutoPauseAfter)
       /\ Failing(c, m) <=> \E k \in M : n < k + AutoPauseWindow /\ AllFailed(m, {j \in M : k <= j}, AutoPauseAfter)
  BY <1>1 DEF Failing
<1>11. NeverOneTooMany(c, l) <=>
         \A i, k \in L : ~l[i].manual /\ i <= k + AutoPauseWindow => ~FailedBefore(c, l, i, k)
  BY DEF NeverOneTooMany
<1>12. NeverOneTooMany(c, m) <=>
         \A i, k \in M : ~m[i].manual /\ i <= k + AutoPauseWindow => ~FailedBefore(c, m, i, k)
  BY DEF NeverOneTooMany
<1>13. Orderly(c, m)
  <2>1. \A i \in DOMAIN m : IsRunning(m[i]) => i = Len(m)  BY <1>1, <1>4 DEF AtRest
  <2>2. ASSUME NEW i \in DOMAIN m, NEW j \in DOMAIN m, i < j, m[i].due > c.anchor PROVE m[j].due > c.anchor
    <3>1. i \in DOMAIN l /\ l[i].due > c.anchor  BY <1>1, <1>4, <1>5, <2>2
    <3>2. CASE j = n  BY <1>1, <1>2, <2>2, <3>1, <3>2
    <3>3. CASE j \in DOMAIN l  BY <1>1, <2>2, <3>1, <3>3 DEF Orderly
    <3> QED BY <1>4, <3>2, <3>3
  <2> QED BY <2>1, <2>2 DEF Orderly
<1> HIDE DEF L, M
<1>14. ASSUME NeverOneTooMany(c, l), r.manual \/ ~Failing(c, l) PROVE NeverOneTooMany(c, m)
  <2> SUFFICES ASSUME NEW i \in M, NEW k \in M, ~m[i].manual, i <= k + AutoPauseWindow,
                      AllFailed(m, mb(i, k), AutoPauseAfter)
               PROVE  FALSE
    BY <1>9, <1>12
  <2>1. mb(i, k) # {}  BY NoRow
  <2>2. PICK j \in M : k <= j /\ j < i  BY <2>1
  <2>3. k \in Nat /\ j \in Nat /\ i \in Nat /\ k < i /\ i <= n  BY <1>5, <1>7, <2>2
  <2>4. k \in L  BY <1>5, <1>7, <2>3
  <2>5. mb(i, k) = lb(i, k)
    <3>1. \A x \in M : x < i => x \in L  BY <1>5, <1>7, <2>3
    <3>2. \A x \in L : x \in M  BY <1>7
    <3> QED BY <3>1, <3>2
  <2>6. AllFailed(l, lb(i, k), AutoPauseAfter)
    <3>1. \A x \in lb(i, k) : m[x] = l[x]  BY <1>7
    <3> QED BY <2>5, <3>1, SameRow
  <2>7. CASE i \in L
    <3>1. m[i] = l[i]  BY <1>7, <2>7
    <3> QED BY <1>9, <1>11, <1>14, <2>4, <2>6, <2>7, <3>1
  <2>8. CASE i = n
    <3>1. lb(i, k) = {x \in L : k <= x}  BY <1>7, <2>8
    <3>2. Len(l) < k + AutoPauseWindow  BY <1>1, <2>3, <2>8, RecurrenceAssumption DEF n
    <3>3. Failing(c, l)  BY <1>10, <2>4, <2>6, <3>1, <3>2
    <3> QED BY <1>1, <1>14, <2>8, <3>3
  <2> QED BY <1>7, <2>7, <2>8
<1>15. ASSUME Failing(c, m), ~Failure(r) PROVE r.status = "skipped" /\ Failing(c, l)
  <2>1. PICK k \in M : n < k + AutoPauseWindow /\ AllFailed(m, {j \in M : k <= j}, AutoPauseAfter)  BY <1>10, <1>15
  <2>2. k \in Nat /\ k <= n  BY <1>5, <1>7
  <2>3. n \notin M
    <3>1. n \in M => Failure(m[n])  BY <2>1, <2>2 DEF AllFailed
    <3> QED BY <1>1, <1>15, <3>1
  <2>4. k \in L  BY <1>7, <2>3
  <2>5. r.status = "skipped"  BY <1>7, <1>8, <2>3, <2>4
  <2>6. {j \in M : k <= j} = {j \in L : k <= j}  BY <1>7, <2>3
  <2>7. AllFailed(l, {j \in L : k <= j}, AutoPauseAfter)
    <3>1. \A x \in {j \in L : k <= j} : m[x] = l[x]  BY <1>7
    <3> QED BY <2>1, <2>6, <3>1, SameRow
  <2>8. Len(l) < k + AutoPauseWindow  BY <1>1, <2>1, <2>2, RecurrenceAssumption DEF n
  <2> QED BY <1>10, <2>4, <2>5, <2>7, <2>8
<1> QED BY <1>13, <1>14, <1>15 DEF m

-----------------------------------------------------------------------------
(* How the standing of a card changes.                                     *)

\* The engine turns from e to f without a record, a mark or a decision about t.
Turns(t, e, f) ==
  /\ f.at # "idle" => e.at # "idle" /\ f.now = e.now
  /\ f.at \in Sending /\ f.task = t => /\ e.at \in Sending /\ e.task = t
                                       /\ SameTimes(e.run, f.run) /\ f.run.status = e.run.status
  /\ f.at \in Closing /\ f.task = t => e.at \in Closing /\ e.task = t /\ f.run = e.run /\ f.closed = e.closed
  /\ t \in DOMAIN f.runs => t \in DOMAIN e.runs /\ f.runs[t] = e.runs[t]
  /\ e.at = "pausing" /\ e.task = t => f.at = "pausing" /\ f.task = t
  /\ t \in f.todo => /\ t \in e.todo /\ f.cards = e.cards
                     /\ e.task = t /\ e.at \in Lately => f.task = t /\ f.at \in Lately

\* A card that has the same grid, and is not switched on.
LEMMA StillPauses ==
  ASSUME NEW t, NEW c, NEW d, NEW l, NEW k, NEW e, NEW f,
         Pauses(t, c, l, k, e), Turns(t, e, f), d.anchor = c.anchor, d.enabled => c.enabled
  PROVE  Pauses(t, d, l, k, f)
<1>1. /\ Orderly(d, l) <=> Orderly(c, l)
      /\ NeverOneTooMany(d, l) <=> NeverOneTooMany(c, l)
      /\ Failing(d, l) <=> Failing(c, l)
  BY SameStanding
<1>2. Dated(l, f)  BY DEF Pauses, Prepared, Dated, Turns
<1>3. Sends(t, d, l, f)
  <2> SUFFICES ASSUME f.at \in Sending, f.task = t
               PROVE  /\ AtRest(l) /\ IsRunning(f.run)
                      /\ f.run.due <= f.now /\ (f.run.due > d.anchor \/ d.anchor >= f.now)
    BY DEF Sends
  <2>1. /\ e.at \in Sending /\ e.task = t /\ f.run.due = e.run.due /\ f.run.status = e.run.status /\ f.now = e.now
    BY DEF Turns, SameTimes, Sending
  <2>2. /\ AtRest(l) /\ IsRunning(e.run)
        /\ e.run.due <= e.now /\ (e.run.due > c.anchor \/ c.anchor >= e.now)
    BY <2>1 DEF Pauses, Prepared, Sends
  <2>3. IsRunning(f.run)  BY <2>1, <2>2 DEF IsRunning
  <2> QED BY <2>1, <2>2, <2>3
<1>4. Closes(t, f)  BY DEF Pauses, Prepared, Closes, Turns
<1>5. Heeds(t, c, l, e) => Heeds(t, d, l, f)
  <2> SUFFICES ASSUME Heeds(t, c, l, e), Failing(d, l)
               PROVE  /\ ~d.enabled \/ (f.at = "pausing" /\ f.task = t)
                      /\ t \in f.todo /\ f.cards[t].enabled => f.task = t /\ f.at \in Lately
                      /\ f.at \in Sending /\ f.task = t => f.run.manual
    BY DEF Heeds
  <2>1. /\ ~c.enabled \/ (e.at = "pausing" /\ e.task = t)
        /\ t \in e.todo /\ e.cards[t].enabled => e.task = t /\ e.at \in Lately
        /\ e.at \in Sending /\ e.task = t => e.run.manual
    BY <1>1 DEF Heeds
  <2>2. ~d.enabled \/ (f.at = "pausing" /\ f.task = t)  BY <2>1 DEF Turns
  <2>3. t \in f.todo /\ f.cards[t].enabled => f.task = t /\ f.at \in Lately  BY <2>1 DEF Turns
  <2>4. f.at \in Sending /\ f.task = t => f.run.manual  BY <2>1 DEF Turns, SameTimes
  <2> QED BY <2>2, <2>3, <2>4
<1> QED BY <1>1, <1>2, <1>3, <1>4, <1>5 DEF Pauses, Prepared

\* Of a card that is not failing the engine may do anything.
LEMMA NothingToHeed ==
  ASSUME NEW t, NEW c, NEW l, NEW e, ~Failing(c, l)
  PROVE  Heeds(t, c, l, e)
BY DEF Heeds

\* A new grid.
LEMMA NewGridPauses ==
  ASSUME NEW t, NEW d, NEW l, NEW k, NEW e, NEW time \in Nat, LogBy(l, time), Works(e, time), d.anchor = time,
         \A i \in DOMAIN l : IsRunning(l[i]) => i = Len(l),
         Dated(l, e), Closes(t, e),
         e.at \in Sending /\ e.task = t => AtRest(l) /\ IsRunning(e.run) /\ e.run.due <= e.now
  PROVE  Pauses(t, d, l, k, e)
<1>1. Orderly(d, l) /\ NeverOneTooMany(d, l) /\ ~Failing(d, l)  BY EmptyGrid
<1>2. d.anchor >= e.now  BY DEF Works
<1>3. Sends(t, d, l, e)  BY <1>2 DEF Sends
<1> QED BY <1>1, <1>3, NothingToHeed DEF Pauses, Prepared

\* What the engine decides about a card that is due.
LEMMA DecidedPauses ==
  ASSUME NEW t, NEW c, NEW l, NEW k, NEW e, NEW f, NEW time \in Nat,
         Pauses(t, c, l, k, e), e.at = "deciding", t \in e.todo, e.cards[t].enabled, AtRest(l),
         Scheduled(c), Accounts(t, c, l, k, e), Works(e, time), IsDue(e.cards[t], e.now),
         f.at = "arming", f.task = t, f.run = Occurrence(e.cards[t], e.now),
         f.now = e.now, f.runs = e.runs, f.todo = e.todo, f.cards = e.cards
  PROVE  Pauses(t, c, l, k, f) /\ ~f.run.manual /\ f.run.due <= e.now
<1> DEFINE d == e.cards[t]
<1>1. Scheduled(d) /\ e.now \in Nat  BY DEF Works
<1>2. Due(d, e.now) \in Nat /\ Due(d, e.now) <= e.now /\ Due(d, e.now) > d.anchor  BY <1>1, DueIs
<1>3. f.run.due = Due(d, e.now) /\ ~f.run.manual /\ IsRunning(f.run)  BY DEF Occurrence, NewRun, IsRunning
<1>4. d.anchor = c.anchor \/ c.anchor >= e.now  BY DEF Accounts, SameGrid
<1>5. Sends(t, c, l, f)  BY <1>2, <1>3, <1>4 DEF Sends
<1>6. f.at \notin Closing  BY DEF Closing
<1>7. Dated(l, f) /\ Closes(t, f)  BY <1>6 DEF Pauses, Prepared, Dated, Closes
<1>8. k = 0 => ~Failing(c, l)  BY DEF Pauses, Heeds, Lately
<1> QED BY <1>2, <1>3, <1>5, <1>7, <1>8, NothingToHeed DEF Pauses, Prepared

\* The run at hand goes on record, skipped, refused or as it is.
LEMMA RecordedPauses ==
  ASSUME NEW t, NEW c, NEW l, NEW k, NEW e, NEW f, NEW r \in Runs,
         Pauses(t, c, l, k, e), e.at \in Sending, e.task = t, c.anchor \in Nat, l \in Seq(Runs), e.now \in Nat,
         SameTimes(e.run, r), f.task = t, f.now = e.now, f.runs = e.runs, f.todo = e.todo, f.cards = e.cards,
         \/ f.at = "pausing" /\ r.status = "refused"
         \/ f.at = "marking" /\ r.status = "running"
         \/ f.at = "marking" /\ r.status = "skipped" /\ ~e.run.manual
  PROVE  Pauses(t, c, Append(l, r), k, f)
<1> DEFINE m == Append(l, r)
<1>1. /\ AtRest(l) /\ Orderly(c, l) /\ e.run.due <= e.now /\ (e.run.due > c.anchor \/ c.anchor >= e.now)
      /\ k = 0 => NeverOneTooMany(c, l) /\ (Failing(c, l) => e.run.manual)
  BY DEF Pauses, Prepared, Sends, Heeds
<1>2. r.due = e.run.due /\ r.manual = e.run.manual  BY DEF SameTimes
<1>3. \A i \in DOMAIN l : l[i].due <= e.now  BY DEF Pauses, Prepared, Dated, Sending
<1>4. /\ Orderly(c, m)
      /\ NeverOneTooMany(c, l) /\ (r.manual \/ ~Failing(c, l)) => NeverOneTooMany(c, m)
      /\ Failing(c, m) => Failure(r) \/ (r.status = "skipped" /\ Failing(c, l))
  BY <1>1, <1>2, <1>3, OneRecordMore
<1>5. \A i \in DOMAIN m : m[i].due <= e.now
  <2>1. /\ Len(l) \in Nat /\ DOMAIN l = 1 .. Len(l) /\ DOMAIN m = 1 .. Len(l) + 1
        /\ \A i \in DOMAIN l : m[i] = l[i]
        /\ m[Len(l) + 1] = r
    BY AppendProperties
  <2>2. \A i \in DOMAIN m : i \in DOMAIN l \/ i = Len(l) + 1  BY <2>1
  <2> QED BY <1>1, <1>2, <1>3, <2>1, <2>2
<1> HIDE DEF m
<1>6. f.at \notin Sending /\ f.at \notin Closing /\ f.at \in Lately  BY DEF Sending, Closing, Lately
<1>7. Dated(m, f) /\ Sends(t, c, m, f)  BY <1>5, <1>6 DEF Dated, Sends
<1>8. Closes(t, f)  BY <1>6 DEF Pauses, Prepared, Closes
<1>9. ASSUME k = 0 PROVE NeverOneTooMany(c, m) /\ Heeds(t, c, m, f)
  <2>1. NeverOneTooMany(c, m)  BY <1>1, <1>2, <1>4, <1>9
  <2>2. Failing(c, m) => f.at = "pausing"  BY <1>1, <1>4, <1>9 DEF Failure
  <2> QED BY <1>6, <2>1, <2>2 DEF Heeds
<1> QED BY <1>4, <1>7, <1>8, <1>9 DEF Pauses, Prepared, m

\* The code looks at the rows that count.
LEMMA FailingIsSeen ==
  ASSUME NEW c, NEW l \in Seq(Runs), c.anchor \in Nat, Orderly(c, l), Failing(c, l)
  PROVE  ShouldAutoPause(l)
<1> DEFINE L == OnGridAt(c, l)
           C == Counted(l)
<1>1. Len(l) \in Nat /\ DOMAIN l = 1 .. Len(l) /\ AutoPauseWindow \in Nat  BY RecurrenceAssumption
<1>2. /\ \A i : i \in L <=> i \in DOMAIN l /\ l[i].due > c.anchor /\ l[i].status # "skipped"
      /\ \A i : i \in C <=> i \in DOMAIN l /\ i + AutoPauseWindow > Len(l) /\ l[i].status \notin {"running", "skipped"}
  BY DEF OnGridAt, Counted
<1> HIDE DEF L, C
<1>3. PICK k \in L : Len(l) < k + AutoPauseWindow /\ AllFailed(l, {j \in L : k <= j}, AutoPauseAfter)
  BY DEF Failing, L
<1>4. \A j \in L : k <= j => Failure(l[j])  BY <1>3 DEF AllFailed
<1>5. k \in Nat /\ k \in DOMAIN l /\ l[k].due > c.anchor  BY <1>1, <1>2
<1>6. \A j \in L : k <= j => j \in C
  <2> SUFFICES ASSUME NEW j \in L, k <= j PROVE j \in C  OBVIOUS
  <2>1. j \in DOMAIN l /\ j \in Nat  BY <1>1, <1>2
  <2>2. j + AutoPauseWindow > Len(l)  BY <1>1, <1>3, <1>5, <2>1
  <2>3. l[j].status \notin {"running", "skipped"}  BY <1>4 DEF Failure
  <2> QED BY <1>2, <2>1, <2>2, <2>3
<1>7. \A j \in C : k <= j => j \in L
  <2> SUFFICES ASSUME NEW j \in C, k <= j PROVE j \in L  OBVIOUS
  <2>1. j \in DOMAIN l /\ j \in Nat /\ l[j].status # "skipped"  BY <1>1, <1>2
  <2>2. l[j].due > c.anchor  BY <1>5, <2>1 DEF Orderly
  <2> QED BY <1>2, <2>1, <2>2
<1>8. {j \in L : k <= j} = {j \in C : j >= k}
  <2>1. \A j \in L : j \in Nat  BY <1>1, <1>2
  <2>2. \A j \in C : j \in Nat  BY <1>1, <1>2
  <2> QED BY <1>5, <1>6, <1>7, <2>1, <2>2
<1>9. k \in C  BY <1>5, <1>6
<1> QED BY <1>3, <1>8, <1>9 DEF ShouldAutoPause, C

\* The run in progress is closed.
LEMMA ClosedPauses ==
  ASSUME NEW t, NEW c, NEW l \in Seq(Runs), NEW k, NEW e, NEW f,
         Pauses(t, c, l, k, e), e.at = "closing", e.task = t, OnRecord(l, e.run), SameTimes(e.run, e.closed),
         c.anchor \in Nat, e.todo = {}, t \notin DOMAIN e.runs,
         f.now = e.now, f.runs = e.runs, f.todo = e.todo,
         IF e.closed.status = "failed" THEN f.at = "pausing" /\ f.task = t ELSE f.at = "advancing"
  PROVE  Pauses(t, c, Upsert(l, e.run, e.closed), k, f)
<1> DEFINE old == e.run
           new == e.closed
           n == Len(l)
           g == [i \in DOMAIN l |-> IF l[i] = old THEN new ELSE l[i]]
           L == OnGridAt(c, l)
           G == OnGridAt(c, g)
<1>1. Upsert(l, old, new) = g  BY DEF Upsert, OnRecord
<1>2. IsRunning(old) /\ new.status \in {"failed", "ended"}  BY DEF Pauses, Prepared, Closes, Closing
<1>3. old.due = new.due /\ old.manual = new.manual  BY DEF SameTimes
<1>4. n \in Nat /\ DOMAIN l = 1 .. n /\ DOMAIN g = 1 .. n  OBVIOUS
<1>5. \A i \in DOMAIN l : l[i] = old => i = n  BY <1>2 DEF Pauses, Orderly
<1>6. n \in DOMAIN l /\ l[n] = old  BY <1>5 DEF OnRecord
<1>7. g[n] = new /\ \A i \in DOMAIN l : i # n => g[i] = l[i]  BY <1>5, <1>6
<1>8. Len(g) = n
  <2>1. \A i \in 1 .. n : g[i] \in Runs \cup {new}  BY <1>4
  <2>2. g \in Seq(Runs \cup {new})  BY <1>4, <2>1, IsASeq
  <2> QED BY <1>4, <2>2
<1> HIDE DEF g, n
<1>9. \A i \in DOMAIN l : g[i].due = l[i].due /\ g[i].manual = l[i].manual
  BY <1>3, <1>6, <1>7
<1>10. /\ \A i : i \in L <=> i \in DOMAIN l /\ l[i].due > c.anchor /\ l[i].status # "skipped"
       /\ \A i : i \in G <=> i \in DOMAIN l /\ g[i].due > c.anchor /\ g[i].status # "skipped"
  BY <1>4 DEF OnGridAt
<1>11. \A i \in DOMAIN l : i \in G <=> i \in L
  <2>1. g[n].status # "skipped" /\ l[n].status # "skipped"  BY <1>2, <1>6, <1>7 DEF IsRunning
  <2> QED BY <1>7, <1>9, <1>10, <2>1
<1>12. G = L  BY <1>10, <1>11
<1>13. Orderly(c, g)
  <2>1. \A i \in DOMAIN g : IsRunning(g[i]) => i = Len(g)  BY <1>4, <1>7, <1>8 DEF Pauses, Orderly
  <2>2. \A i, j \in DOMAIN g : i < j /\ g[i].due > c.anchor => g[j].due > c.anchor  BY <1>4, <1>9 DEF Pauses, Orderly
  <2> QED BY <2>1, <2>2 DEF Orderly
<1>14. NeverOneTooMany(c, l) => NeverOneTooMany(c, g)
  <2> SUFFICES ASSUME NeverOneTooMany(c, l), NEW i \in G, NEW j \in G, ~g[i].manual, i <= j + AutoPauseWindow
               PROVE  ~FailedBefore(c, g, i, j)
    BY DEF NeverOneTooMany
  <2>1. i \in L /\ j \in L /\ ~l[i].manual  BY <1>9, <1>10, <1>12
  <2>2. ~FailedBefore(c, l, i, j)  BY <2>1 DEF NeverOneTooMany
  <2> DEFINE S == {x \in L : j <= x /\ x < i}
  <2>3. \A x \in S : g[x] = l[x]
    <3> SUFFICES ASSUME NEW x \in S PROVE g[x] = l[x]  OBVIOUS
    <3>1. x \in DOMAIN l /\ x \in Nat /\ i \in 1 .. n /\ x < i  BY <1>4, <1>10, <2>1
    <3> QED BY <1>4, <1>7, <3>1
  <2>4. AllFailed(g, S, AutoPauseAfter) <=> AllFailed(l, S, AutoPauseAfter)  BY <2>3, SameRow
  <2> QED BY <1>12, <2>2, <2>4 DEF FailedBefore
<1>15. Failing(c, g) => new.status = "failed"
  <2> SUFFICES ASSUME Failing(c, g) PROVE Failure(new)  BY <1>2 DEF Failure
  <2>1. PICK j \in G : AllFailed(g, {x \in G : j <= x}, AutoPauseAfter)  BY DEF Failing
  <2>2. j \in 1 .. n /\ l[j].due > c.anchor  BY <1>4, <1>10, <1>12
  <2>3. l[n].due > c.anchor
    <3>1. CASE j = n  BY <2>2, <3>1
    <3>2. CASE j # n
      <4>1. j < n /\ j \in DOMAIN l /\ n \in DOMAIN l  BY <1>4, <1>6, <2>2, <3>2
      <4> QED BY <2>2, <4>1 DEF Pauses, Orderly
    <3> QED BY <3>1, <3>2
  <2>4. n \in L  BY <1>2, <1>6, <1>10, <2>3 DEF IsRunning
  <2>5. Failure(g[n])  BY <1>4, <1>12, <2>1, <2>2, <2>4 DEF AllFailed
  <2> QED BY <1>7, <2>5
<1>16. f.at \notin Sending /\ f.at \notin Closing  BY DEF Sending, Closing
<1>17. Dated(g, f)  BY <1>4, <1>9 DEF Pauses, Prepared, Dated
<1>18. Sends(t, c, g, f) /\ Closes(t, f)  BY <1>16 DEF Sends, Closes
<1>19. Heeds(t, c, g, f)  BY <1>15, <1>16 DEF Heeds
<1>20. Pauses(t, c, g, k, f)  BY <1>13, <1>14, <1>17, <1>18, <1>19 DEF Pauses, Prepared
<1> QED BY <1>1, <1>20

\* A card that is not at hand, while the engine goes on with what it has listed.
LEMMA OthersTurn ==
  ASSUME NEW t, NEW e, NEW f, ~(e.at \in AtWork /\ e.task = t), ~(f.at \in Sending \cup Closing /\ f.task = t),
         f.at # "idle" => e.at # "idle" /\ f.now = e.now,
         t \in DOMAIN f.runs => t \in DOMAIN e.runs /\ f.runs[t] = e.runs[t],
         t \in f.todo => t \in e.todo /\ f.cards = e.cards
  PROVE  Turns(t, e, f)
<1>1. ~(e.at \in Lately /\ e.task = t)  BY DEF Lately, AtWork
<1> QED BY <1>1 DEF Turns, AtWork

LEMMA NothingTurns == \A t, e : Turns(t, e, e)
BY DEF Turns, SameTimes

\* The engine begins something, with no card at hand before.
LEMMA BegunPauses ==
  ASSUME NEW t, NEW c, NEW l, NEW k, NEW e, NEW f,
         Pauses(t, c, l, k, e), e.at \notin AtWork,
         Dated(l, f), Closes(t, f), Sends(t, c, l, f), f.at \in Sending /\ f.task = t => f.run.manual,
         t \in f.todo => f.cards[t] = c
  PROVE  Pauses(t, c, l, k, f)
<1>1. Heeds(t, c, l, e) => Heeds(t, c, l, f)
  <2>1. e.at # "pausing"  BY DEF AtWork
  <2> QED BY <2>1 DEF Heeds
<1> QED BY <1>1 DEF Pauses, Prepared

\* The card pauses itself if it is failing.
LEMMA PausedPauses ==
  ASSUME NEW t, NEW c \in Cards, NEW d, NEW l \in Seq(Runs), NEW k, NEW e, NEW f,
         Pauses(t, c, l, k, e), e.at = "pausing", e.task = t, c.is = "here",
         d = IF ShouldAutoPause(l) THEN Paused(c, "auto") ELSE c,
         f.now = e.now, f.runs = e.runs,
         (f.at = "marking" /\ f.task = t) \/ (f.at = "advancing" /\ f.todo = {})
  PROVE  Pauses(t, d, l, k, f)
<1> DEFINE p == Paused(c, "auto")
<1>1. p.anchor = c.anchor /\ p.enabled = FALSE /\ c.anchor \in Nat  BY DEF Paused, Cards
<1> HIDE DEF p
<1>2. d = IF ShouldAutoPause(l) THEN p ELSE c  BY DEF p
<1>3. d.anchor = c.anchor  BY <1>1, <1>2
<1>4. /\ Orderly(d, l) <=> Orderly(c, l)
      /\ NeverOneTooMany(d, l) <=> NeverOneTooMany(c, l)
      /\ Failing(d, l) <=> Failing(c, l)
  BY <1>3, SameStanding
<1>5. f.at \notin Sending /\ f.at \notin Closing  BY DEF Sending, Closing
<1>6. Dated(l, f) /\ Closes(t, f)  BY <1>5 DEF Pauses, Prepared, Dated, Closes
<1>7. Sends(t, d, l, f)  BY <1>5 DEF Sends
<1>8. Heeds(t, d, l, f)
  <2> SUFFICES ASSUME Failing(d, l)
               PROVE  /\ ~d.enabled
                      /\ t \in f.todo /\ f.cards[t].enabled => f.task = t /\ f.at \in Lately
    BY <1>5 DEF Heeds
  <2>1. ShouldAutoPause(l)  BY <1>1, <1>4, FailingIsSeen DEF Pauses
  <2>2. ~d.enabled  BY <1>1, <1>2, <2>1
  <2> QED BY <2>2 DEF Lately
<1> QED BY <1>4, <1>6, <1>7, <1>8 DEF Pauses, Prepared

-----------------------------------------------------------------------------
(* Steps of the engine.                                                    *)

\* What the engine has at hand is a card that was created.
Gathers(f) ==
  /\ \A u \in f.todo : u \in eng.todo \/ Here(u)
  /\ \A u \in DOMAIN f.runs : u \in DOMAIN eng.runs \/ Running(u)
  /\ f.at \in AtWork => \/ eng.at \in AtWork /\ f.task = eng.task
                        \/ f.task \in eng.todo \cup DOMAIN eng.runs \/ Here(f.task)

LEMMA GatheredApart ==
  ASSUME PInv, NEW f, Gathers(f), NEW t \in Tasks, card[t].is = "unborn"
  PROVE  log[t] = <<>> /\ Apart(t, eng) /\ Apart(t, f)
<1>1. log[t] = <<>> /\ Apart(t, eng)  BY DEF PInv
<1>2. ~Here(t) /\ ~Running(t)  BY <1>1 DEF Here, Running
<1> QED BY <1>1, <1>2 DEF Gathers, Apart

\* A step of the engine alone.
LEMMA StandsAlone ==
  ASSUME PInv, NEW f, eng' = f, UNCHANGED <<card, log>>, spent'.restarts = spent.restarts, Rests(f), Gathers(f),
         \A t \in Tasks : Here(t) => Pauses(t, card[t], log[t], spent.restarts, f)
  PROVE  PInv'
<1>1. Rests(eng)'  OBVIOUS
<1>2. ASSUME NEW t \in Tasks, card[t].is = "unborn" PROVE log[t] = <<>> /\ Apart(t, f)  BY <1>2, GatheredApart
<1>3. \A t \in Tasks : card'[t].is = "unborn" => log'[t] = <<>> /\ Apart(t, eng')  BY <1>2
<1>4. \A t \in Tasks : Here(t)' => Pauses(t, card'[t], log'[t], spent'.restarts, eng')  BY DEF Here
<1> QED BY <1>1, <1>3, <1>4 DEF PInv

LEMMA TurnsAlone ==
  ASSUME PInv, NEW f, eng' = f, UNCHANGED <<card, log>>, spent'.restarts = spent.restarts, Rests(f), Gathers(f),
         \A t \in Tasks : Turns(t, eng, f)
  PROVE  PInv'
<1>1. ASSUME NEW t \in Tasks, Here(t) PROVE Pauses(t, card[t], log[t], spent.restarts, f)
  <2>1. Pauses(t, card[t], log[t], spent.restarts, eng) /\ Turns(t, eng, f)  BY <1>1 DEF PInv
  <2> QED BY <2>1, StillPauses
<1> QED BY <1>1, StandsAlone

\* A step of the engine with the card and the log of the task at hand.
LEMMA StandsWithOne ==
  ASSUME AInv, PInv, NEW f, eng' = f, spent'.restarts = spent.restarts, Rests(f), Gathers(f),
         NEW t \in Tasks, (eng.at \in AtWork /\ eng.task = t) \/ t \in eng.todo,
         NEW c, c.is = card[t].is, card' = [card EXCEPT ![t] = c],
         NEW l, log' = [log EXCEPT ![t] = l] \/ (log' = log /\ l = log[t]),
         Here(t) => Pauses(t, c, l, spent.restarts, f),
         \A u \in Tasks : u # t => Turns(u, eng, f)
  PROVE  PInv'
<1>1. DOMAIN card = Tasks /\ DOMAIN log = Tasks  BY BooksSay DEF Filed
<1>2. /\ card'[t] = c /\ log'[t] = l
      /\ \A u \in Tasks : u # t => card'[u] = card[u] /\ log'[u] = log[u]
  BY <1>1
<1>3. card[t].is # "unborn"  BY DEF PInv, Apart
<1>4. Rests(eng)'  OBVIOUS
<1>5. ASSUME NEW u \in Tasks, card'[u].is = "unborn" PROVE log'[u] = <<>> /\ Apart(u, f)
  <2>1. u # t /\ card[u].is = "unborn"  BY <1>2, <1>3, <1>5
  <2> QED BY <1>2, <2>1, GatheredApart
<1>6. ASSUME NEW u \in Tasks, Here(u)' PROVE Pauses(u, card'[u], log'[u], spent.restarts, f)
  <2>1. CASE u = t  BY <1>2, <1>6, <2>1 DEF Here
  <2>2. CASE u # t
    <3>1. Here(u) /\ Turns(u, eng, f)  BY <1>2, <1>6, <2>2 DEF Here
    <3>2. Pauses(u, card[u], log[u], spent.restarts, eng)  BY <3>1 DEF PInv
    <3>3. Pauses(u, card[u], log[u], spent.restarts, f)  BY <3>1, <3>2, StillPauses
    <3> QED BY <1>2, <2>2, <3>3
  <2> QED BY <2>1, <2>2
<1> QED BY <1>4, <1>5, <1>6 DEF PInv

LEMMA TickBeginsPauses == ASSUME AInv, PInv, TickBegins PROVE PInv'
<1> DEFINE rs == [t \in {u \in Tasks : Running(u)} |-> RunningOf(t)]
           f == [Idle EXCEPT !.at = "advancing", !.now = now, !.runs = rs]
<1>1. eng.at = "idle" /\ eng' = f /\ UNCHANGED <<now, card, log, spent>>  BY DEF TickBegins
<1>2. /\ f.at = "advancing" /\ f.now = now /\ f.runs = rs /\ f.todo = {}  BY DEF Idle
<1>3. DOMAIN rs = {u \in Tasks : Running(u)} /\ \A t \in DOMAIN rs : IsRunning(rs[t])
  <2>1. ASSUME NEW t, Running(t) PROVE IsRunning(RunningOf(t))
    <3>1. PICK i \in DOMAIN log[t] : IsRunning(log[t][i])  BY <2>1 DEF Running
    <3> DEFINE j == CHOOSE n \in DOMAIN log[t] : IsRunning(log[t][n])
    <3>2. IsRunning(log[t][j])  BY <3>1
    <3> QED BY <3>2 DEF RunningOf
  <2> QED BY <2>1
<1> HIDE DEF f, rs
<1>4. \A t \in Tasks : LogBy(log[t], now)  BY BooksSay DEF Filed
<1>5. f.at \notin AtWork /\ f.at \notin Sending /\ f.at \notin Closing /\ eng.at \notin AtWork
  BY <1>1, <1>2 DEF AtWork, Sending, Closing
<1>6. Rests(f) /\ Gathers(f)  BY <1>2, <1>3, <1>5 DEF Rests, Gathers
<1>7. ASSUME NEW t \in Tasks, Here(t) PROVE Pauses(t, card[t], log[t], spent.restarts, f)
  <2>1. Pauses(t, card[t], log[t], spent.restarts, eng)  BY <1>7 DEF PInv
  <2>2. Dated(log[t], f)  BY <1>2, <1>4 DEF Dated, LogBy
  <2>3. Closes(t, f) /\ Sends(t, card[t], log[t], f)  BY <1>2, <1>3, <1>5 DEF Closes, Sends
  <2> QED BY <1>2, <1>5, <2>1, <2>2, <2>3, BegunPauses
<1> QED BY <1>1, <1>6, <1>7, StandsAlone

LEMMA ListCardsPauses == ASSUME AInv, PInv, ListCards PROVE PInv'
<1> DEFINE f == [eng EXCEPT !.at = "deciding", !.cards = card, !.todo = {t \in Tasks : Here(t)}]
<1>1. eng.at = "advancing" /\ eng' = f /\ DOMAIN eng.runs = {} /\ UNCHANGED <<now, card, log, spent>>  BY DEF ListCards
<1>2. DOMAIN eng = EngFields  BY BooksSay
<1>3. f.at = "deciding" /\ f.now = eng.now /\ f.runs = eng.runs /\ f.cards = card /\ f.todo = {t \in Tasks : Here(t)}
  BY <1>2 DEF EngFields
<1> HIDE DEF f
<1>4. f.at \notin AtWork /\ f.at \notin Sending /\ f.at \notin Closing /\ eng.at \notin AtWork
  BY <1>1, <1>3 DEF AtWork, Sending, Closing
<1>5. Rests(f) /\ Gathers(f)  BY <1>1, <1>3, <1>4 DEF Rests, Gathers, Closing
<1>6. ASSUME NEW t \in Tasks, Here(t) PROVE Pauses(t, card[t], log[t], spent.restarts, f)
  <2>1. Pauses(t, card[t], log[t], spent.restarts, eng)  BY <1>6 DEF PInv
  <2>2. Dated(log[t], f)  BY <1>1, <1>3, <2>1 DEF Pauses, Prepared, Dated
  <2>3. Closes(t, f) /\ Sends(t, card[t], log[t], f)  BY <1>1, <1>3, <1>4 DEF Closes, Sends
  <2> QED BY <1>3, <1>4, <2>1, <2>2, <2>3, BegunPauses
<1> QED BY <1>1, <1>5, <1>6, StandsAlone

LEMMA TickEndsPauses == ASSUME AInv, PInv, TickEnds PROVE PInv'
<1>1. eng.at = "deciding" /\ eng' = Idle /\ UNCHANGED <<now, card, log, spent>>  BY DEF TickEnds
<1>2. Idle.at = "idle" /\ Idle.todo = {} /\ DOMAIN Idle.runs = {}  BY NowIs, IdleIs
<1>3. \A t : Turns(t, eng, Idle)  BY <1>1, <1>2 DEF Turns, Sending, Closing
<1>4. Rests(Idle) /\ Gathers(Idle)  BY <1>2 DEF Rests, Gathers, AtWork
<1> QED BY <1>1, <1>3, <1>4, TurnsAlone

LEMMA RunNowPauses == ASSUME AInv, PInv, NEW t \in Tasks, RunNow(t) PROVE PInv'
<1> DEFINE r == ManualRun(card[t], now)
           f == [Idle EXCEPT !.at = "arming", !.now = now, !.manual = TRUE, !.task = t, !.run = r]
<1>1. eng.at = "idle" /\ eng' = f /\ Here(t) /\ ~Running(t) /\ UNCHANGED <<now, card, log>> /\ Act("run")  BY DEF RunNow
<1>2. Filed /\ now \in Nat  BY BooksSay
<1>3. r.due = now /\ r.manual /\ IsRunning(r)  BY DEF ManualRun, NewRun, IsRunning
<1> HIDE DEF r
<1>4. f.at = "arming" /\ f.now = now /\ DOMAIN f.runs = {} /\ f.todo = {} /\ f.task = t /\ f.run = r
  BY IdleShape DEF Idle, EngFields
<1> HIDE DEF f
<1>5. f.at \notin Closing /\ eng.at \notin AtWork  BY <1>1, <1>4 DEF AtWork, Closing
<1>6. Rests(f) /\ Gathers(f)  BY <1>1, <1>4, <1>5 DEF Rests, Gathers
<1>7. spent'.restarts = spent.restarts  BY <1>1 DEF Act, AInv, SurroundingsTyped
<1>8. ASSUME NEW u \in Tasks, Here(u) PROVE Pauses(u, card[u], log[u], spent.restarts, f)
  <2>1. Pauses(u, card[u], log[u], spent.restarts, eng)  BY <1>8 DEF PInv
  <2>2. LogBy(log[u], now) /\ card[u].anchor \in Nat  BY <1>2 DEF Filed, Cards
  <2>3. Dated(log[u], f)  BY <1>4, <2>2 DEF Dated, LogBy
  <2>4. Closes(u, f)  BY <1>4, <1>5 DEF Closes
  <2>5. Sends(u, card[u], log[u], f)  BY <1>1, <1>2, <1>3, <1>4, <2>2 DEF Sends, AtRest, Running
  <2> QED BY <1>3, <1>4, <1>5, <2>1, <2>3, <2>4, <2>5, BegunPauses
<1> QED BY <1>1, <1>6, <1>7, <1>8, StandsAlone

LEMMA AdvancePauses == ASSUME AInv, PInv, NEW t \in Tasks, Advance(t) PROVE PInv'
<1> DEFINE r    == eng.runs[t]
           rest == [u \in DOMAIN eng.runs \ {t} |-> eng.runs[u]]
<1>1. /\ eng.at = "advancing" /\ t \in DOMAIN eng.runs /\ UNCHANGED <<now, card, log, spent>>
      /\ \/ eng' = [eng EXCEPT !.runs = rest]
         \/ \E c \in Endings(t, r) :
              eng' = [eng EXCEPT !.runs = rest, !.task = t, !.run = r, !.closed = c,
                                 !.at = IF HandsBack(t, r) THEN "handing" ELSE "closing"]
  BY DEF Advance
<1>2. DOMAIN eng = EngFields  BY BooksSay
<1>3. DOMAIN rest = DOMAIN eng.runs \ {t} /\ \A u \in DOMAIN rest : rest[u] = eng.runs[u]  OBVIOUS
<1>4. eng.todo = {}  BY <1>1 DEF PInv, Rests
<1>5. eng.at \notin AtWork  BY <1>1 DEF AtWork
<1> HIDE DEF rest
<1>6. CASE eng' = [eng EXCEPT !.runs = rest]
  <2> DEFINE f == [eng EXCEPT !.runs = rest]
  <2>1. f.at = "advancing" /\ f.now = eng.now /\ f.runs = rest /\ f.todo = {}  BY <1>1, <1>2, <1>4 DEF EngFields
  <2>2. eng' = f  BY <1>6 DEF f
  <2> HIDE DEF f
  <2>3. f.at \notin AtWork /\ f.at \notin Sending \cup Closing  BY <2>1 DEF AtWork, Sending, Closing
  <2>4. \A u : Turns(u, eng, f)  BY <1>1, <1>3, <1>5, <2>1, <2>3, OthersTurn
  <2>5. Rests(f) /\ Gathers(f)  BY <1>3, <2>1, <2>3 DEF Rests, Gathers
  <2> QED BY <1>1, <2>2, <2>4, <2>5, TurnsAlone
<1>7. ASSUME NEW c \in Endings(t, r),
             eng' = [eng EXCEPT !.runs = rest, !.task = t, !.run = r, !.closed = c,
                                !.at = IF HandsBack(t, r) THEN "handing" ELSE "closing"]
      PROVE  PInv'
  <2> DEFINE at == IF HandsBack(t, r) THEN "handing" ELSE "closing"
             f == [eng EXCEPT !.runs = rest, !.task = t, !.run = r, !.closed = c, !.at = at]
  <2>1. at \in Closing  BY DEF Closing
  <2>2. RunBy(r, now)  BY <1>1, BooksSay DEF Works
  <2>3. c.status \in {"failed", "ended"}
    <3>1. r \in Runs  BY <2>2 DEF RunBy
    <3>2. c = Closed(r, "ended") \/ c = Closed(r, "failed")  BY <1>7 DEF Endings
    <3> QED BY <3>1, <3>2 DEF Closed, Runs
  <2> HIDE DEF at
  <2>4. /\ f.at = at /\ f.now = eng.now /\ f.runs = rest /\ f.todo = {}
        /\ f.task = t /\ f.run = r /\ f.closed = c
    BY <1>2, <1>4 DEF EngFields
  <2>5. eng' = f  BY <1>7 DEF at
  <2> HIDE DEF f
  <2>6. f.at \in AtWork /\ f.at \notin Sending /\ f.at # "idle"  BY <2>1, <2>4 DEF AtWork, Sending, Closing
  <2>7. Rests(f) /\ Gathers(f)  BY <1>1, <1>3, <2>4 DEF Rests, Gathers
  <2>8. ASSUME NEW u \in Tasks, Here(u) PROVE Pauses(u, card[u], log[u], spent.restarts, f)
    <3>1. Pauses(u, card[u], log[u], spent.restarts, eng)  BY <2>8 DEF PInv
    <3>2. Dated(log[u], f)  BY <1>1, <2>4, <3>1 DEF Pauses, Prepared, Dated
    <3>3. Closes(u, f)  BY <1>1, <1>3, <2>3, <2>4, <3>1 DEF Pauses, Prepared, Closes
    <3>4. Sends(u, card[u], log[u], f)  BY <2>6 DEF Sends
    <3> QED BY <1>5, <2>4, <2>6, <3>1, <3>2, <3>3, <3>4, BegunPauses
  <2> QED BY <1>1, <2>5, <2>7, <2>8, StandsAlone
<1> QED BY <1>1, <1>6, <1>7

LEMMA HandBackPauses == ASSUME AInv, PInv, HandBack PROVE PInv'
<1> DEFINE f == [eng EXCEPT !.at = "closing"]
<1>1. eng.at = "handing" /\ eng' = f /\ UNCHANGED <<now, card, log, spent>>  BY DEF HandBack
<1>2. DOMAIN eng = EngFields  BY BooksSay
<1>3. f.at = "closing" /\ f.now = eng.now /\ f.runs = eng.runs /\ f.todo = eng.todo
      /\ f.cards = eng.cards /\ f.task = eng.task /\ f.run = eng.run /\ f.closed = eng.closed
  BY <1>2 DEF EngFields
<1> HIDE DEF f
<1>4. \A u : Turns(u, eng, f)  BY <1>1, <1>3 DEF Turns, Sending, Closing, Lately
<1>5. Rests(f) /\ Gathers(f)  BY <1>1, <1>3 DEF PInv, Rests, Gathers, Closing, AtWork
<1> QED BY <1>1, <1>4, <1>5, TurnsAlone

-----------------------------------------------------------------------------

\* A run at hand changes in what is not its time.
LEMMA SendingPauses ==
  ASSUME AInv, PInv, eng.at \in Sending, NEW f, eng' = f,
         f.at \in Sending, f.task = eng.task, f.now = eng.now, f.runs = eng.runs, f.todo = eng.todo, f.cards = eng.cards,
         SameTimes(eng.run, f.run), f.run.status = eng.run.status,
         UNCHANGED <<card, log>>, spent'.restarts = spent.restarts
  PROVE  PInv'
<1>1. f.at \notin Closing /\ eng.at \in AtWork /\ f.at # "idle" /\ eng.at # "idle"  BY DEF Sending, Closing, AtWork
<1>2. eng.at \notin Lately /\ f.at \notin Lately  BY DEF Sending, Lately
<1>3. \A u : Turns(u, eng, f)  BY <1>1, <1>2 DEF Turns, Lately
<1>4. Rests(f)  BY <1>1 DEF Rests, Sending
<1>5. Gathers(f)  BY <1>1 DEF Gathers
<1> QED BY <1>3, <1>4, <1>5, TurnsAlone

\* The engine is done with the card at hand.
LEMMA NextTurns ==
  ASSUME AInv, eng.at \in AtWork, eng.at # "pausing"
  PROVE  \A u : Turns(u, eng, Next1)
<1> DEFINE f == Next1
<1>1. /\ f.at \in {"idle", "deciding"} /\ eng.task \notin f.todo
      /\ f.todo = {} \/ (f.todo \subseteq eng.todo /\ f.cards = eng.cards)
      /\ \A u \in DOMAIN f.runs : u \in DOMAIN eng.runs /\ f.runs[u] = eng.runs[u]
  BY Next1Is
<1>2. f.at # "idle" => f.now = eng.now
  <2>1. CASE eng.manual  BY <2>1 DEF Next1, Idle
  <2>2. CASE ~eng.manual
    <3>1. DOMAIN AtHand("deciding") = EngFields /\ AtHand("deciding").now = eng.now  BY AtHandIs
    <3>2. f = [AtHand("deciding") EXCEPT !.todo = @ \ {eng.task}]  BY <2>2 DEF Next1
    <3> QED BY <3>1, <3>2 DEF EngFields
  <2> QED BY <2>1, <2>2
<1> HIDE DEF f
<1>3. eng.at # "idle" /\ f.at \notin Sending /\ f.at \notin Closing  BY <1>1 DEF AtWork, Sending, Closing
<1>4. \A u : Turns(u, eng, f)  BY <1>1, <1>2, <1>3 DEF Turns
<1> QED BY <1>4 DEF f

LEMMA NextGathers ==
  ASSUME AInv, eng.at \in AtWork
  PROVE  Rests(Next1) /\ Gathers(Next1)
<1> DEFINE f == Next1
<1>1. /\ f.at \in {"idle", "deciding"}
      /\ f.todo = {} \/ f.todo \subseteq eng.todo
      /\ \A u \in DOMAIN f.runs : u \in DOMAIN eng.runs
  BY Next1Is
<1>2. f.at = "idle" => f.todo = {}
  <2>1. CASE eng.manual  BY <2>1 DEF Next1, Idle
  <2>2. CASE ~eng.manual
    <3>1. DOMAIN AtHand("deciding") = EngFields /\ AtHand("deciding").at = "deciding"  BY AtHandIs
    <3>2. f = [AtHand("deciding") EXCEPT !.todo = @ \ {eng.task}]  BY <2>2 DEF Next1
    <3>3. f.at = "deciding"  BY <3>1, <3>2 DEF EngFields
    <3> QED BY <3>3
  <2> QED BY <2>1, <2>2
<1> HIDE DEF f
<1>3. Rests(f) /\ Gathers(f)  BY <1>1, <1>2 DEF Rests, Gathers, AtWork, Closing
<1> QED BY <1>3 DEF f

\* Nothing came of the run at hand.
LEMMA PassedPauses ==
  ASSUME AInv, PInv, eng.at \in Sending, eng' = Next1, UNCHANGED <<card, log>>, spent'.restarts = spent.restarts
  PROVE  PInv'
<1>1. eng.at \in AtWork /\ eng.at # "pausing"  BY DEF Sending, AtWork
<1>2. \A u : Turns(u, eng, Next1)  BY <1>1, NextTurns
<1>3. Rests(Next1) /\ Gathers(Next1)  BY <1>1, NextGathers
<1> QED BY <1>2, <1>3, TurnsAlone

\* The run at hand is recorded, as it is or refused.
LEMMA RecordingPauses ==
  ASSUME AInv, PInv, eng.at \in Sending, NEW f, eng' = f, NEW r \in Runs, SameTimes(eng.run, r),
         \/ f.at = "pausing" /\ r.status = "refused"
         \/ f.at = "marking" /\ r.status = "running",
         f.task = eng.task, f.run = eng.run, f.now = eng.now, f.runs = eng.runs, f.todo = eng.todo, f.cards = eng.cards,
         log' = [log EXCEPT ![eng.task] = Append(@, r)], UNCHANGED <<now, card>>, spent'.restarts = spent.restarts
  PROVE  PInv'
<1> DEFINE t == eng.task
           l == Append(log[t], r)
<1>1. /\ Filed /\ Works(eng, now) /\ t \in Tasks /\ eng.run # NoRun /\ eng.at \in AtWork
  BY BooksSay DEF Sending, AtWork
<1>2. log[t] \in Seq(Runs) /\ card[t].anchor \in Nat /\ eng.now \in Nat  BY <1>1 DEF Filed, Works, LogBy, Cards
<1>3. f.at \in {"pausing", "marking"} /\ f.at \notin Sending \cup Closing /\ f.at # "idle" /\ eng.at # "idle"
  BY DEF Sending, Closing
<1>4. card' = [card EXCEPT ![t] = card[t]] /\ log' = [log EXCEPT ![t] = l]  BY <1>1 DEF Filed
<1>5. ASSUME Here(t) PROVE Pauses(t, card[t], l, spent.restarts, f)
  <2>1. Pauses(t, card[t], log[t], spent.restarts, eng)  BY <1>1, <1>5 DEF PInv
  <2>2. eng.task = t /\ f.task = t  OBVIOUS
  <2> HIDE DEF t
  <2>3. \/ f.at = "pausing" /\ r.status = "refused"
        \/ f.at = "marking" /\ r.status = "running"
        \/ f.at = "marking" /\ r.status = "skipped" /\ ~eng.run.manual
    OBVIOUS
  <2> QED BY <1>2, <2>1, <2>2, <2>3, RecordedPauses
<1> HIDE DEF t, l
<1>6. \A u \in Tasks : u # t => Turns(u, eng, f)
  <2> SUFFICES ASSUME NEW u \in Tasks, u # t PROVE Turns(u, eng, f)  OBVIOUS
  <2>1. ~(eng.at \in AtWork /\ eng.task = u)  BY DEF t
  <2> QED BY <1>3, <2>1, OthersTurn
<1>7. Rests(f)  BY <1>1, <1>3 DEF Rests, Closing
<1>8. Gathers(f)  BY <1>1 DEF Gathers, t
<1>9. eng.at \in AtWork /\ eng.task = t  BY <1>1 DEF t
<1>10. Here(t) => Pauses(t, card[t], l, spent.restarts, f)  BY <1>5
<1>11. /\ eng' = f /\ spent'.restarts = spent.restarts /\ t \in Tasks
       /\ (eng.at \in AtWork /\ eng.task = t) \/ t \in eng.todo
       /\ card[t].is = card[t].is
       /\ log' = [log EXCEPT ![t] = l] \/ (log' = log /\ l = log[t])
  BY <1>1, <1>4, <1>9
<1> QED BY ONLY AInv, PInv, <1>4, <1>6, <1>7, <1>8, <1>10, <1>11, StandsWithOne

LEMMA RefusePauses ==
  ASSUME AInv, PInv, eng.at \in Sending, Refuse, UNCHANGED <<now, card>>, spent'.restarts = spent.restarts
  PROVE  PInv'
<1> DEFINE f == [eng EXCEPT !.at = "pausing"]
           r == Closed(eng.run, "refused")
<1>1. eng' = f /\ log' = [log EXCEPT ![eng.task] = Append(@, r)]  BY DEF Refuse
<1>2. DOMAIN eng = EngFields /\ RunBy(eng.run, now)  BY BooksSay DEF Sending, AtWork
<1>3. RunBy(r, now) /\ SameTimes(eng.run, r)  BY <1>2, ClosedIs
<1>4. r.status = "refused" /\ r \in Runs  BY <1>2, <1>3 DEF Closed, RunBy, Runs
<1>5. /\ f.at = "pausing" /\ f.task = eng.task /\ f.run = eng.run /\ f.now = eng.now
      /\ f.runs = eng.runs /\ f.todo = eng.todo /\ f.cards = eng.cards
  BY <1>2 DEF EngFields
<1> HIDE DEF f, r
<1> QED BY <1>1, <1>3, <1>4, <1>5, RecordingPauses

LEMMA LogRunPauses == ASSUME AInv, PInv, LogRun PROVE PInv'
<1> DEFINE f == [eng EXCEPT !.at = "marking"]
           t == eng.task
<1>1. eng.at \in Sending /\ eng' = f /\ log' = [log EXCEPT ![t] = Append(@, eng.run)] /\ UNCHANGED <<now, card, spent>>
  BY DEF LogRun, Sending
<1>2. /\ DOMAIN eng = EngFields /\ RunBy(eng.run, now) /\ eng.run \in Runs /\ t \in Tasks /\ eng.at \in AtWork
  BY <1>1, BooksSay DEF Sending, AtWork, RunBy
<1>3. SameTimes(eng.run, eng.run)  BY DEF SameTimes
<1>4. /\ f.at = "marking" /\ f.task = t /\ f.run = eng.run /\ f.now = eng.now
      /\ f.runs = eng.runs /\ f.todo = eng.todo /\ f.cards = eng.cards
  BY <1>2 DEF EngFields
<1> HIDE DEF f
<1>5. CASE eng.run.status = "running"  BY <1>1, <1>2, <1>3, <1>4, <1>5, RecordingPauses
<1>6. CASE ~Here(t)
  <2> DEFINE l == Append(log[t], eng.run)
  <2>1. card' = [card EXCEPT ![t] = card[t]] /\ log' = [log EXCEPT ![t] = l]  BY <1>1, BooksSay DEF Filed
  <2> HIDE DEF t, l
  <2>2. f.at \notin Sending \cup Closing /\ f.at # "idle" /\ eng.at # "idle"  BY <1>1, <1>4 DEF Sending, Closing
  <2>3. \A u \in Tasks : u # t => Turns(u, eng, f)
    <3> SUFFICES ASSUME NEW u \in Tasks, u # t PROVE Turns(u, eng, f)  OBVIOUS
    <3>1. ~(eng.at \in AtWork /\ eng.task = u)  BY DEF t
    <3> QED BY <1>4, <2>2, <3>1, OthersTurn
  <2>4. Rests(f) /\ Gathers(f)  BY <1>2, <1>4, <2>2 DEF Rests, Gathers, t, Closing
  <2>5. eng.at \in AtWork /\ eng.task = t  BY <1>2 DEF t
  <2>6. Here(t) => Pauses(t, card[t], l, spent.restarts, f)  BY <1>6
  <2> QED BY <1>1, <1>2, <2>1, <2>3, <2>4, <2>5, <2>6, StandsWithOne
<1>7. Here(t) => eng.run.status = "running"
  BY <1>1, <1>2 DEF PInv, Pauses, Prepared, Sends, IsRunning
<1> QED BY <1>5, <1>6, <1>7

LEMMA BorrowSlotPauses == ASSUME AInv, PInv, BorrowSlot PROVE PInv'
<1> DEFINE a == Agent[eng.task]
<1>1. eng.at \in Sending /\ UNCHANGED <<now, card, spent>>  BY DEF BorrowSlot, Sending
<1>2. DOMAIN eng = EngFields /\ eng.run \in Runs /\ eng.task \in Tasks  BY <1>1, BooksSay DEF Sending, AtWork
<1>3. \/ Refuse
      \/ eng' = Next1 /\ UNCHANGED log
      \/ eng' = [eng EXCEPT !.at = "starting", !.run.snap = slot[a]] /\ UNCHANGED log
      \/ eng' = [eng EXCEPT !.at = "starting"] /\ UNCHANGED log
  BY DEF BorrowSlot
<1>4. CASE Refuse  BY <1>1, <1>4, RefusePauses
<1>5. CASE eng' = Next1 /\ UNCHANGED log  BY <1>1, <1>5, PassedPauses
<1>6. CASE eng' = [eng EXCEPT !.at = "starting", !.run.snap = slot[a]] /\ UNCHANGED log
  <2> DEFINE f == [eng EXCEPT !.at = "starting", !.run.snap = slot[a]]
             r == [eng.run EXCEPT !.snap = slot[a]]
  <2>1. SameTimes(eng.run, r) /\ r.status = eng.run.status  BY <1>2 DEF Runs, SameTimes
  <2>2. /\ f.at = "starting" /\ f.task = eng.task /\ f.run = r /\ f.now = eng.now
        /\ f.runs = eng.runs /\ f.todo = eng.todo /\ f.cards = eng.cards
    BY <1>2 DEF EngFields
  <2>3. f.at \in Sending  BY <2>2 DEF Sending
  <2>4. eng' = f  BY <1>6
  <2> HIDE DEF f, r
  <2> QED BY <1>1, <1>6, <2>1, <2>2, <2>3, <2>4, SendingPauses
<1>7. CASE eng' = [eng EXCEPT !.at = "starting"] /\ UNCHANGED log
  <2> DEFINE f == [eng EXCEPT !.at = "starting"]
  <2>1. SameTimes(eng.run, eng.run)  BY DEF SameTimes
  <2>2. /\ f.at = "starting" /\ f.task = eng.task /\ f.run = eng.run /\ f.now = eng.now
        /\ f.runs = eng.runs /\ f.todo = eng.todo /\ f.cards = eng.cards
    BY <1>2 DEF EngFields
  <2>3. f.at \in Sending  BY <2>2 DEF Sending
  <2>4. eng' = f  BY <1>7
  <2> HIDE DEF f
  <2> QED BY <1>1, <1>7, <2>1, <2>2, <2>3, <2>4, SendingPauses
<1> QED BY <1>3, <1>4, <1>5, <1>6, <1>7

LEMMA StartLoopPauses == ASSUME AInv, PInv, StartLoop PROVE PInv'
<1> DEFINE f == [eng EXCEPT !.at = "logging", !.run.loop = gen + 1]
           r == [eng.run EXCEPT !.loop = gen + 1]
<1>1. eng.at \in Sending /\ eng' = f /\ UNCHANGED <<now, card, log, spent>>  BY DEF StartLoop, Sending
<1>2. DOMAIN eng = EngFields /\ eng.run \in Runs  BY <1>1, BooksSay DEF Sending, AtWork
<1>3. SameTimes(eng.run, r) /\ r.status = eng.run.status  BY <1>2 DEF Runs, SameTimes
<1>4. /\ f.at = "logging" /\ f.task = eng.task /\ f.run = r /\ f.now = eng.now
      /\ f.runs = eng.runs /\ f.todo = eng.todo /\ f.cards = eng.cards
  BY <1>2 DEF EngFields
<1>5. f.at \in Sending  BY <1>4 DEF Sending
<1> HIDE DEF f, r
<1> QED BY <1>1, <1>3, <1>4, <1>5, SendingPauses

LEMMA PeerPauses == ASSUME AInv, PInv, PeerGone \/ AnswerLost PROVE PInv'
<1>1. eng.at \in Sending /\ Refuse /\ UNCHANGED <<now, card>>  BY DEF PeerGone, AnswerLost, Sending
<1>2. spent'.restarts = spent.restarts  BY DEF PeerGone, AnswerLost, AInv, SurroundingsTyped
<1> QED BY <1>1, <1>2, RefusePauses

LEMMA SendOncePauses == ASSUME AInv, PInv, SendOnce PROVE PInv'
<1>1. eng.at \in Sending /\ UNCHANGED <<now, card, spent>>  BY DEF SendOnce, Sending
<1>2. DOMAIN eng = EngFields  BY BooksSay
<1>3. \/ Refuse
      \/ eng' = Next1 /\ UNCHANGED log
      \/ eng' = [eng EXCEPT !.at = "logging"] /\ UNCHANGED log
  BY DEF SendOnce
<1>4. CASE Refuse  BY <1>1, <1>4, RefusePauses
<1>5. CASE eng' = Next1 /\ UNCHANGED log  BY <1>1, <1>5, PassedPauses
<1>6. CASE eng' = [eng EXCEPT !.at = "logging"] /\ UNCHANGED log
  <2> DEFINE f == [eng EXCEPT !.at = "logging"]
  <2>1. SameTimes(eng.run, eng.run)  BY DEF SameTimes
  <2>2. /\ f.at = "logging" /\ f.task = eng.task /\ f.run = eng.run /\ f.now = eng.now
        /\ f.runs = eng.runs /\ f.todo = eng.todo /\ f.cards = eng.cards
    BY <1>2 DEF EngFields
  <2>3. f.at \in Sending  BY <2>2 DEF Sending
  <2>4. eng' = f  BY <1>6
  <2> HIDE DEF f
  <2> QED BY <1>1, <1>6, <2>1, <2>2, <2>3, <2>4, SendingPauses
<1> QED BY <1>3, <1>4, <1>5, <1>6

LEMMA DecidePauses == ASSUME AInv, PInv, NEW t \in Tasks, DecideCard(t) PROVE PInv'
<1> DEFINE d == eng.cards[t]
           r == Occurrence(d, eng.now)
           e == [eng EXCEPT !.at = "arming", !.task = t, !.run = r]
           k == spent.restarts
<1>1. eng.at = "deciding" /\ t \in eng.todo /\ UNCHANGED <<now, card, spent>>  BY DEF DecideCard
<1>2. /\ Filed /\ Works(eng, now) /\ Balanced /\ DOMAIN eng = EngFields /\ now \in Nat  BY BooksSay
<1>3. eng.now \in Nat /\ eng.now <= now /\ Scheduled(d)  BY <1>1, <1>2 DEF Works
<1>4. eng.at \notin AtWork /\ eng.at # "idle"  BY <1>1 DEF AtWork
<1>5. /\ e.at = "arming" /\ e.task = t /\ e.run = r /\ e.now = eng.now
      /\ e.runs = eng.runs /\ e.todo = eng.todo /\ e.cards = eng.cards
  BY <1>2 DEF EngFields
<1>6. card' = [card EXCEPT ![t] = card[t]]  BY <1>1, <1>2 DEF Filed
<1> DEFINE Arms == IsDue(d, eng.now) /\ d.enabled /\ ~Running(t)
<1>7. \/ Arms /\ \E status \in {"skipped", "refused"} : RecordNotArmed(t, r, status)
      \/ Arms /\ eng' = e /\ UNCHANGED log
      \/ eng' = [eng EXCEPT !.todo = eng.todo \ {t}] /\ UNCHANGED log
  BY DEF DecideCard, Decide
<1> HIDE DEF d, r, e, k
<1>8. CASE eng' = [eng EXCEPT !.todo = eng.todo \ {t}] /\ UNCHANGED log
  <2> DEFINE f == [eng EXCEPT !.todo = eng.todo \ {t}]
  <2>1. /\ f.at = "deciding" /\ f.now = eng.now
        /\ f.runs = eng.runs /\ f.todo = eng.todo \ {t} /\ f.cards = eng.cards
    BY <1>1, <1>2 DEF EngFields
  <2>2. eng' = f  BY <1>8
  <2> HIDE DEF f
  <2>3. f.at \notin AtWork /\ f.at \notin Sending \cup Closing  BY <2>1 DEF AtWork, Sending, Closing
  <2>4. \A u : Turns(u, eng, f)  BY <1>4, <2>1, <2>3, OthersTurn
  <2>5. Rests(f) /\ Gathers(f)  BY <2>1, <2>3 DEF Rests, Gathers, Closing
  <2> QED BY <1>1, <1>8, <2>2, <2>4, <2>5, TurnsAlone
<1>9. ASSUME Arms, Here(t)
      PROVE  Pauses(t, card[t], log[t], k, e) /\ ~r.manual
  <2>1. Pauses(t, card[t], log[t], k, eng) /\ Accounts(t, card[t], log[t], k, eng) /\ Scheduled(card[t])
    BY <1>2, <1>9 DEF PInv, Balanced, Filed, k
  <2>2. AtRest(log[t])  BY <1>9 DEF AtRest, Running
  <2>3. IsDue(eng.cards[t], eng.now) /\ eng.cards[t].enabled /\ e.run = Occurrence(eng.cards[t], eng.now)
    BY <1>5, <1>9 DEF d, r
  <2>4. Pauses(t, card[t], log[t], k, e) /\ ~e.run.manual  BY <1>1, <1>2, <1>5, <2>1, <2>2, <2>3, DecidedPauses
  <2> QED BY <1>5, <2>4
<1>10. CASE Arms /\ eng' = e /\ UNCHANGED log
  <2>1. Here(t) => Pauses(t, card[t], log[t], spent.restarts, e)  BY <1>9, <1>10 DEF k
  <2>2. e.at # "idle"  BY <1>5
  <2>3. \A u \in Tasks : u # t => Turns(u, eng, e)  BY <1>4, <1>5, <2>2, OthersTurn
  <2>4. Rests(e) /\ Gathers(e)  BY <1>1, <1>5 DEF Rests, Gathers, Closing
  <2>5. log' = log /\ eng' = e /\ spent'.restarts = spent.restarts  BY <1>1, <1>10
  <2> QED BY <1>1, <1>6, <2>1, <2>3, <2>4, <2>5, StandsWithOne
<1>11. ASSUME Arms, NEW status \in {"skipped", "refused"}, RecordNotArmed(t, r, status) PROVE PInv'
  <2> DEFINE at == IF status = "refused" THEN "pausing" ELSE "marking"
             f == [eng EXCEPT !.at = at, !.task = t, !.run = r]
             s == Closed(r, status)
             l == Append(log[t], s)
  <2>1. /\ f.at = at /\ f.task = t /\ f.run = r /\ f.now = eng.now
        /\ f.runs = eng.runs /\ f.todo = eng.todo /\ f.cards = eng.cards
    BY <1>2 DEF EngFields
  <2>2. eng' = f /\ log' = [log EXCEPT ![t] = l]  BY <1>11 DEF RecordNotArmed
  <2>3. at \in {"pausing", "marking"} /\ ((status = "refused" /\ at = "pausing") \/ (status = "skipped" /\ at = "marking"))
    OBVIOUS
  <2>4. r \in Runs /\ r.due <= eng.now  BY <1>3, <1>11, OccurrenceIs DEF r
  <2>5. RunBy(r, eng.now) /\ r # NoRun  BY <2>4, NoRunAssumption DEF RunBy
  <2>6. s \in Runs /\ SameTimes(r, s) /\ s.status = status
    <3>1. RunBy(s, eng.now) /\ SameTimes(r, s)  BY <2>5, ClosedIs
    <3>2. s.status = status  BY <2>4 DEF Closed, Runs
    <3> QED BY <3>1, <3>2 DEF RunBy
  <2>7. log[t] \in Seq(Runs) /\ card[t].anchor \in Nat  BY <1>2 DEF Filed, LogBy, Cards
  <2> HIDE DEF f, at, s
  <2>8. ASSUME Here(t) PROVE Pauses(t, card[t], l, k, f)
    <3>1. Pauses(t, card[t], log[t], k, e) /\ ~r.manual  BY <1>9, <1>11, <2>8
    <3>2. e.at \in Sending  BY <1>5 DEF Sending
    <3>3. SameTimes(e.run, s) /\ ~e.run.manual /\ e.now \in Nat  BY <1>3, <1>5, <2>6, <3>1
    <3>4. /\ f.task = t /\ f.now = e.now /\ f.runs = e.runs /\ f.todo = e.todo /\ f.cards = e.cards /\ e.task = t
      BY <1>5, <2>1
    <3>5. \/ f.at = "pausing" /\ s.status = "refused"
          \/ f.at = "marking" /\ s.status = "skipped" /\ ~e.run.manual
      BY <2>1, <2>3, <2>6, <3>3
    <3> QED BY <2>6, <2>7, <3>1, <3>2, <3>3, <3>4, <3>5, RecordedPauses
  <2> HIDE DEF l
  <2>9. f.at \notin Sending \cup Closing /\ f.at # "idle"  BY <2>1, <2>3 DEF Sending, Closing
  <2>10. \A u \in Tasks : u # t => Turns(u, eng, f)  BY <1>4, <2>1, <2>9, OthersTurn
  <2>11. Rests(f) /\ Gathers(f)  BY <1>1, <2>1, <2>3, <2>5 DEF Rests, Gathers, Closing
  <2>12. Here(t) => Pauses(t, card[t], l, spent.restarts, f)  BY <2>8 DEF k
  <2> QED BY <1>1, <1>6, <2>2, <2>10, <2>11, <2>12, StandsWithOne
<1> QED BY <1>7, <1>8, <1>10, <1>11

-----------------------------------------------------------------------------

LEMMA CloseRunPauses == ASSUME AInv, PInv, CloseRun PROVE PInv'
<1> DEFINE t == eng.task
           l == Upsert(log[t], eng.run, eng.closed)
           h == AtHand("pausing")
           g == [h EXCEPT !.task = t]
           f == IF eng.closed.status = "failed" /\ Here(t) THEN g ELSE AtHand("advancing")
           k == spent.restarts
<1>1. /\ eng.at = "closing" /\ eng' = f /\ UNCHANGED <<now, card, spent>>
      /\ log' = [log EXCEPT ![t] = l]
  BY DEF CloseRun
<1>2. /\ Filed /\ Works(eng, now) /\ AdvancesWhatIsFiled /\ DOMAIN eng = EngFields  BY BooksSay
<1>3. /\ t \in Tasks /\ SameTimes(eng.run, eng.closed) /\ t \notin DOMAIN eng.runs
      /\ ~Deleted(t) => OnRecord(log[t], eng.run)
  BY <1>1, <1>2 DEF Works, Closing, AtWork, AdvancesWhatIsFiled
<1>4. log[t] \in Seq(Runs) /\ card[t].anchor \in Nat  BY <1>2, <1>3 DEF Filed, LogBy, Cards
<1>5. eng.todo = {} /\ eng.at \in AtWork /\ eng.at # "idle"  BY <1>1 DEF PInv, Rests, AtWork, Closing
<1>6. /\ DOMAIN h = EngFields /\ h.at = "pausing" /\ h.run = NoRun /\ h.now = eng.now
      /\ h.runs = eng.runs /\ h.todo = eng.todo
  BY AtHandIs
<1> HIDE DEF h
<1>7. /\ g.at = "pausing" /\ g.task = t /\ g.run = NoRun /\ g.now = eng.now
      /\ g.runs = eng.runs /\ g.todo = eng.todo
  BY <1>6 DEF EngFields
<1> HIDE DEF g
<1>8. /\ IF eng.closed.status = "failed" /\ Here(t) THEN f.at = "pausing" /\ f.task = t ELSE f.at = "advancing"
      /\ f.run = NoRun /\ f.now = eng.now /\ f.runs = eng.runs /\ f.todo = {}
  BY <1>5, <1>7, AtHandIs
<1> HIDE DEF f
<1>9. ASSUME Here(t) PROVE Pauses(t, card[t], l, k, f)
  <2>1. Pauses(t, card[t], log[t], k, eng)  BY <1>3, <1>9 DEF PInv
  <2>2. OnRecord(log[t], eng.run)  BY <1>3, <1>9 DEF Here, Deleted
  <2>3. IF eng.closed.status = "failed" THEN f.at = "pausing" /\ f.task = t ELSE f.at = "advancing"  BY <1>8, <1>9
  <2>4. eng.task = t  OBVIOUS
  <2> HIDE DEF t, k
  <2> QED BY <1>1, <1>3, <1>4, <1>5, <1>8, <2>1, <2>2, <2>3, <2>4, ClosedPauses
<1>10. card' = [card EXCEPT ![t] = card[t]]  BY <1>1, <1>2 DEF Filed
<1> HIDE DEF l
<1>11. f.at \notin Sending \cup Closing /\ f.at # "idle" /\ (f.at \in AtWork => f.task = t)
  BY <1>8 DEF Sending, Closing, AtWork
<1>12. Rests(f) /\ Gathers(f)  BY <1>5, <1>8, <1>11 DEF Rests, Gathers
<1> HIDE DEF t
<1>13. \A u \in Tasks : u # t => Turns(u, eng, f)
  <2> SUFFICES ASSUME NEW u \in Tasks, u # t PROVE Turns(u, eng, f)  OBVIOUS
  <2>1. ~(eng.at \in AtWork /\ eng.task = u)  BY DEF t
  <2> QED BY <1>5, <1>8, <1>11, <2>1, OthersTurn
<1>14. eng.at \in AtWork /\ eng.task = t  BY <1>5 DEF t
<1>15. Here(t) => Pauses(t, card[t], l, spent.restarts, f)  BY <1>9 DEF k
<1> QED BY <1>1, <1>3, <1>10, <1>12, <1>13, <1>14, <1>15, StandsWithOne

LEMMA PauseIfFailingPauses == ASSUME AInv, PInv, PauseIfFailing PROVE PInv'
<1> DEFINE t == eng.task
           c == IF ShouldAutoPause(log[t]) THEN Paused(card[t], "auto") ELSE card[t]
           g == [eng EXCEPT !.at = "marking"]
           f == IF eng.run # NoRun THEN g ELSE AtHand("advancing")
           k == spent.restarts
<1>1. eng.at = "pausing" /\ eng' = f /\ card' = [card EXCEPT ![t] = c] /\ UNCHANGED <<now, log, spent>>
  BY DEF PauseIfFailing
<1>2. Filed /\ DOMAIN eng = EngFields /\ t \in Tasks /\ eng.at \in AtWork  BY <1>1, BooksSay DEF AtWork
<1>3. card[t] \in Cards /\ log[t] \in Seq(Runs)  BY <1>2 DEF Filed, LogBy
<1>4. c.is = card[t].is
  <2>1. Paused(card[t], "auto").is = card[t].is  BY <1>3 DEF Paused, Cards
  <2> QED BY <2>1
<1>5. /\ g.at = "marking" /\ g.task = t /\ g.run = eng.run /\ g.now = eng.now
      /\ g.runs = eng.runs /\ g.todo = eng.todo /\ g.cards = eng.cards
  BY <1>2 DEF EngFields
<1>6. eng.run = NoRun => eng.todo = {}  BY <1>1 DEF PInv, Rests
<1> HIDE DEF g
<1>7. /\ f.now = eng.now /\ f.runs = eng.runs /\ f.todo = eng.todo /\ f.cards = eng.cards
      /\ (f.at = "marking" /\ f.task = t) \/ (f.at = "advancing" /\ f.todo = {})
  BY <1>5, <1>6, AtHandIs
<1> HIDE DEF f
<1>8. Here(t) => Pauses(t, c, log[t], k, f)
  <2> SUFFICES ASSUME Here(t) PROVE Pauses(t, c, log[t], k, f)  OBVIOUS
  <2>1. Pauses(t, card[t], log[t], k, eng)  BY <1>2 DEF PInv
  <2>2. eng.task = t /\ c = IF ShouldAutoPause(log[t]) THEN Paused(card[t], "auto") ELSE card[t]  OBVIOUS
  <2> HIDE DEF t, c, k
  <2> QED BY <1>1, <1>3, <1>7, <2>1, <2>2, PausedPauses DEF Here
<1> HIDE DEF c
<1>9. f.at \notin Sending \cup Closing /\ f.at # "idle" /\ eng.at # "idle" /\ (f.at \in AtWork => f.task = t)
  BY <1>1, <1>7 DEF Sending, Closing, AtWork
<1>10. Rests(f) /\ Gathers(f)  BY <1>2, <1>7, <1>9 DEF Rests, Gathers
<1> HIDE DEF t
<1>11. \A u \in Tasks : u # t => Turns(u, eng, f)
  <2> SUFFICES ASSUME NEW u \in Tasks, u # t PROVE Turns(u, eng, f)  OBVIOUS
  <2>1. ~(eng.at \in AtWork /\ eng.task = u)  BY DEF t
  <2> QED BY <1>7, <1>9, <2>1, OthersTurn
<1>12. eng.at \in AtWork /\ eng.task = t  BY <1>2 DEF t
<1>13. Here(t) => Pauses(t, c, log[t], spent.restarts, f)  BY <1>8 DEF k
<1>14. log' = log  BY <1>1
<1> QED BY <1>1, <1>2, <1>4, <1>10, <1>11, <1>12, <1>13, <1>14, StandsWithOne

LEMMA MarkHandledPauses == ASSUME AInv, PInv, MarkHandled PROVE PInv'
<1> DEFINE t == eng.task
           c == Handled(card[t], eng.run)
           k == spent.restarts
<1>1. eng.at = "marking" /\ eng' = Next1 /\ card' = [card EXCEPT ![t] = c] /\ UNCHANGED <<now, log, spent>>
  BY DEF MarkHandled
<1>2. Filed /\ t \in Tasks /\ eng.at \in AtWork /\ eng.at # "pausing"  BY <1>1, BooksSay DEF AtWork
<1>3. card[t] \in Cards  BY <1>2 DEF Filed
<1>4. c.is = card[t].is /\ c.anchor = card[t].anchor /\ c.enabled = card[t].enabled  BY <1>3 DEF Handled, Cards
<1>5. \A u : Turns(u, eng, Next1)  BY <1>2, NextTurns
<1>6. Rests(Next1) /\ Gathers(Next1)  BY <1>2, NextGathers
<1> DEFINE f == Next1
<1> HIDE DEF f, c
<1>7. Here(t) => Pauses(t, c, log[t], k, f)
  <2> SUFFICES ASSUME Here(t) PROVE Pauses(t, c, log[t], k, f)  OBVIOUS
  <2>1. Pauses(t, card[t], log[t], k, eng)  BY <1>2 DEF PInv
  <2>2. Turns(t, eng, f)  BY <1>5 DEF f
  <2> HIDE DEF t, k
  <2> QED BY <1>4, <2>1, <2>2, StillPauses
<1>8. eng.at \in AtWork /\ eng.task = t  BY <1>2
<1> HIDE DEF t
<1>9. /\ \A u \in Tasks : u # t => Turns(u, eng, f)
      /\ Rests(f) /\ Gathers(f) /\ eng' = f
  BY <1>1, <1>5, <1>6 DEF f
<1>10. Here(t) => Pauses(t, c, log[t], spent.restarts, f)  BY <1>7 DEF k
<1>11. log' = log  BY <1>1
<1> QED BY <1>1, <1>2, <1>4, <1>8, <1>9, <1>10, <1>11, StandsWithOne

LEMMA EnginePauses == ASSUME AInv, PInv, EngineStep \/ AnswerLost PROVE PInv'
BY TickBeginsPauses, ListCardsPauses, HandBackPauses, CloseRunPauses, PauseIfFailingPauses, BorrowSlotPauses,
   StartLoopPauses, PeerPauses, SendOncePauses, LogRunPauses, MarkHandledPauses, TickEndsPauses, AdvancePauses, DecidePauses
DEF EngineStep

-----------------------------------------------------------------------------
(* Users and surroundings.                                                 *)

LEMMA NothingPauses ==
  ASSUME PInv, UNCHANGED <<card, log, eng>>, spent'.restarts = spent.restarts
  PROVE  PInv'
BY DEF PInv, Here

LEMMA QuietPauses ==
  ASSUME AInv, PInv,
         \/ \E t \in Tasks : StopRun(t) \/ DeleteLooks(t)
         \/ \E a \in Agents : OperatorArms(a) \/ LoopResolves(a) \/ TurnStarts(a) \/ TurnEnds(a) \/ PeerLeaves(a) \/ PeerReturns(a)
         \/ GateFlips \/ ClockTicks \/ UNCHANGED vars
  PROVE  PInv'
<1>1. "restarts" \in DOMAIN spent  BY DEF AInv, SurroundingsTyped
<1>2. ASSUME NEW kind, Act(kind) PROVE spent'.restarts = spent.restarts  BY <1>1, <1>2 DEF Act
<1>3. UNCHANGED <<card, log, eng>>
  BY DEF StopRun, DeleteLooks, OperatorArms, LoopResolves, TurnStarts, TurnEnds, PeerLeaves, PeerReturns, GateFlips, ClockTicks, vars
<1>4. spent'.restarts = spent.restarts
  <2>1. CASE \/ \E t \in Tasks : StopRun(t) \/ DeleteLooks(t)
             \/ \E a \in Agents : OperatorArms(a)
    BY <1>2, <2>1 DEF StopRun, DeleteLooks, OperatorArms
  <2>2. CASE \/ \E a \in Agents : LoopResolves(a) \/ TurnStarts(a) \/ TurnEnds(a) \/ PeerLeaves(a) \/ PeerReturns(a)
             \/ GateFlips \/ ClockTicks \/ UNCHANGED vars
    BY <1>1, <2>2 DEF LoopResolves, TurnStarts, TurnEnds, PeerLeaves, PeerReturns, GateFlips, ClockTicks, vars
  <2> QED BY <2>1, <2>2
<1> QED BY <1>3, <1>4, NothingPauses

\* A change of one card that keeps its grid without switching it on, or begins a new one.
LEMMA OneCardPauses ==
  ASSUME AInv, PInv, NEW t \in Tasks, NEW c, NEW kind, Command(kind, t, c),
         card[t].is \in {"unborn", "here"}, c.is = "here",
         \/ Here(t) /\ c.anchor = card[t].anchor /\ (c.enabled => card[t].enabled)
         \/ c.anchor = now
  PROVE  PInv'
<1>1. card' = [card EXCEPT ![t] = c] /\ Act(kind) /\ UNCHANGED <<now, log, eng>>  BY DEF Command
<1>2. spent'.restarts = spent.restarts
  <2>1. "restarts" \in DOMAIN spent  BY DEF AInv, SurroundingsTyped
  <2> QED BY <1>1, <2>1 DEF Act
<1>3. Filed /\ Works(eng, now) /\ now \in Nat  BY BooksSay
<1>4. card'[t] = c /\ \A u \in Tasks : u # t => card'[u] = card[u]  BY <1>1, <1>3 DEF Filed
<1>5. Pauses(t, c, log[t], spent.restarts, eng)
  <2>1. CASE Here(t) /\ c.anchor = card[t].anchor /\ (c.enabled => card[t].enabled)
    <3>1. Pauses(t, card[t], log[t], spent.restarts, eng)  BY <2>1 DEF PInv
    <3>2. Turns(t, eng, eng)  BY NothingTurns
    <3> QED BY <2>1, <3>1, <3>2, StillPauses
  <2>2. CASE c.anchor = now
    <3>1. LogBy(log[t], now)  BY <1>3 DEF Filed
    <3>2. /\ \A i \in DOMAIN log[t] : IsRunning(log[t][i]) => i = Len(log[t])
          /\ Dated(log[t], eng) /\ Closes(t, eng)
          /\ eng.at \in Sending /\ eng.task = t => AtRest(log[t]) /\ IsRunning(eng.run) /\ eng.run.due <= eng.now
      <4>1. CASE Here(t)
        <5>1. Pauses(t, card[t], log[t], spent.restarts, eng)  BY <4>1 DEF PInv
        <5> QED BY <5>1 DEF Pauses, Prepared, Orderly, Sends
      <4>2. CASE ~Here(t)
        <5>1. log[t] = <<>> /\ Apart(t, eng)  BY <4>2 DEF PInv, Here
        <5>2. DOMAIN <<>> = {}  OBVIOUS
        <5>3. eng.at \in Sending \cup Closing => eng.task # t  BY <5>1 DEF Apart, Sending, Closing, AtWork
        <5> QED BY <5>1, <5>2, <5>3 DEF Apart, Dated, Closes
      <4> QED BY <4>1, <4>2
    <3> QED BY <1>3, <2>2, <3>1, <3>2, NewGridPauses
  <2> QED BY <2>1, <2>2
<1>6. \A u \in Tasks : card'[u].is = "unborn" => log'[u] = <<>> /\ Apart(u, eng')  BY <1>1, <1>4 DEF PInv
<1>7. ASSUME NEW u \in Tasks, Here(u)' PROVE Pauses(u, card'[u], log'[u], spent'.restarts, eng')
  <2>1. CASE u = t  BY <1>1, <1>2, <1>4, <1>5, <2>1
  <2>2. CASE u # t  BY <1>1, <1>2, <1>4, <1>7, <2>2 DEF PInv, Here
  <2> QED BY <2>1, <2>2
<1>8. Rests(eng)'  BY <1>1 DEF PInv
<1> QED BY <1>6, <1>7, <1>8 DEF PInv

LEMMA CommandsPauses ==
  ASSUME AInv, PInv, NEW t \in Tasks,
         \/ Pause(t) \/ Resume(t)
         \/ \E s \in Schedules, m \in Modes : Create(t, s, m) \/ \E on \in BOOLEAN : Edit(t, s, m, on)
  PROVE  PInv'
<1> DEFINE c == card[t]
<1>1. c \in Cards /\ now \in Nat  BY BooksSay DEF Filed
<1>2. CASE Pause(t)
  <2> DEFINE d == Paused(c, "operator")
  <2>1. c.is = "here" /\ Command("pause", t, d)  BY <1>2 DEF Pause, Here
  <2>2. d.is = "here" /\ d.anchor = c.anchor /\ ~d.enabled  BY <1>1, <2>1 DEF Paused, Cards
  <2> HIDE DEF d
  <2> QED BY <2>1, <2>2, OneCardPauses DEF Here
<1>3. CASE Resume(t)
  <2> DEFINE b == [c EXCEPT !.enabled = TRUE, !.why = "none"]
             d == Anchored(b, now)
  <2>1. c.is = "here" /\ Command("resume", t, d)  BY <1>3 DEF Resume, Here
  <2>2. b \in Cards /\ b.is = "here"  BY <1>1, <2>1 DEF Cards
  <2> HIDE DEF b
  <2>3. d.is = "here" /\ d.anchor = now  BY <1>1, <2>2, AnchoredIs
  <2> HIDE DEF d
  <2> QED BY <2>1, <2>3, OneCardPauses
<1>4. ASSUME NEW s \in Schedules, NEW m \in Modes, Create(t, s, m) PROVE PInv'
  <2> DEFINE b == [NoCard EXCEPT !.is = "here", !.enabled = TRUE, !.sched = s, !.mode = m]
             d == Anchored(b, now)
  <2>1. c.is = "unborn" /\ Command("create", t, d)  BY <1>4 DEF Create, NewCard
  <2>2. b \in Cards /\ b.is = "here"  BY DEF NoCard, Cards
  <2> HIDE DEF b
  <2>3. d.is = "here" /\ d.anchor = now  BY <1>1, <2>2, AnchoredIs
  <2> HIDE DEF d
  <2> QED BY <2>1, <2>3, OneCardPauses
<1>5. ASSUME NEW s \in Schedules, NEW m \in Modes, NEW on \in BOOLEAN, Edit(t, s, m, on) PROVE PInv'
  <2> DEFINE why == IF on = c.enabled THEN c.why ELSE IF on THEN "none" ELSE "operator"
             b == [c EXCEPT !.sched = s, !.mode = m, !.enabled = on, !.why = why]
             fresh == s # c.sched \/ (on /\ ~c.enabled)
             d == IF fresh THEN Anchored(b, now) ELSE b
  <2>1. c.is = "here" /\ Command("edit", t, d)  BY <1>5 DEF Edit, Here
  <2>2. why \in {"none", "operator", "auto"}  BY <1>1 DEF Cards
  <2> HIDE DEF why
  <2>3. b \in Cards /\ b.is = "here" /\ b.anchor = c.anchor /\ b.enabled = on  BY <1>1, <2>1, <2>2 DEF Cards
  <2> HIDE DEF b, fresh
  <2>4. CASE fresh
    <3>1. d = Anchored(b, now)  BY <2>4
    <3>2. d.is = "here" /\ d.anchor = now  BY <1>1, <2>3, <3>1, AnchoredIs
    <3> HIDE DEF d
    <3> QED BY <2>1, <3>2, OneCardPauses
  <2>5. CASE ~fresh
    <3>1. d = b /\ (on => c.enabled)  BY <2>5, Zenon DEF fresh
    <3> HIDE DEF d
    <3> QED BY <2>1, <2>3, <3>1, OneCardPauses DEF Here
  <2> QED BY <2>4, <2>5
<1> QED BY <1>2, <1>3, <1>4, <1>5

LEMMA DeletingPauses == ASSUME AInv, PInv, NEW t \in Tasks, DeleteRemoves(t) PROVE PInv'
<1>1. card' = [card EXCEPT ![t] = Gone] /\ log' = [log EXCEPT ![t] = <<>>] /\ UNCHANGED <<now, eng, spent>>
  BY DEF DeleteRemoves
<1>2. Filed  BY BooksSay
<1>3. card'[t].is = "deleted" /\ \A u \in Tasks : u # t => card'[u] = card[u] /\ log'[u] = log[u]
  BY <1>1, <1>2, GoneIs DEF Filed
<1>4. \A u \in Tasks : card'[u].is = "unborn" => log'[u] = <<>> /\ Apart(u, eng')  BY <1>1, <1>3 DEF PInv
<1>5. \A u \in Tasks : Here(u)' => Pauses(u, card'[u], log'[u], spent'.restarts, eng')  BY <1>1, <1>3 DEF PInv, Here
<1>6. Rests(eng)'  BY <1>1 DEF PInv
<1> QED BY <1>4, <1>5, <1>6 DEF PInv

LEMMA KillPauses == ASSUME AInv, PInv, Restart PROVE PInv'
<1>1. spent' = [spent EXCEPT !.restarts = @ + 1] /\ eng' = Idle /\ UNCHANGED <<now, card, log>>  BY DEF Restart
<1>2. spent'.restarts = spent.restarts + 1 /\ spent.restarts \in Nat  BY <1>1 DEF AInv, SurroundingsTyped
<1>3. Idle.at = "idle" /\ Idle.todo = {} /\ DOMAIN Idle.runs = {}  BY NowIs, IdleIs
<1>4. Rests(Idle) /\ \A t : Apart(t, Idle)  BY <1>3 DEF Rests, Apart, AtWork
<1>5. ASSUME NEW t \in Tasks, Here(t) PROVE Pauses(t, card[t], log[t], spent.restarts + 1, Idle)
  <2>1. Orderly(card[t], log[t])  BY <1>5 DEF PInv, Pauses
  <2>2. Prepared(t, card[t], log[t], Idle)  BY <1>3 DEF Prepared, Dated, Sends, Closes, Sending, Closing
  <2>3. spent.restarts + 1 # 0  BY <1>2
  <2> QED BY <2>1, <2>2, <2>3 DEF Pauses
<1> QED BY <1>1, <1>2, <1>4, <1>5 DEF PInv, Here

LEMMA InitPInv == Init => PInv
<1> SUFFICES ASSUME Init PROVE PInv  OBVIOUS
<1>1. AInv  BY InitAInv
<1>2. /\ now = 1 /\ eng = Idle /\ log = [t \in Tasks |-> <<>>]
      /\ card = [t \in Tasks |-> IF t \in Started THEN NewCard(FirstSchedule, "goal", 1) ELSE NoCard]
  BY DEF Init
<1>3. Idle.at = "idle" /\ Idle.todo = {} /\ DOMAIN Idle.runs = {}  BY <1>1, NowIs, IdleIs
<1>4. Rests(Idle) /\ \A t : Apart(t, Idle)  BY <1>3 DEF Rests, Apart, AtWork
<1>5. NewCard(FirstSchedule, "goal", 1).anchor = 1 /\ NoCard.is # "here"  BY DEF NewCard, Anchored, NoCard
<1>6. ASSUME NEW t \in Tasks, Here(t) PROVE Pauses(t, card[t], log[t], spent.restarts, eng)
  <2>1. log[t] = <<>> /\ card[t].anchor = 1  BY <1>2, <1>5, <1>6 DEF Here
  <2>2. LogBy(log[t], now) /\ Works(eng, now) /\ now \in Nat  BY <1>1, BooksSay DEF Filed
  <2>3. DOMAIN <<>> = {}  OBVIOUS
  <2>4. Dated(log[t], eng) /\ Closes(t, eng) /\ eng.at \notin Sending
    BY <1>2, <1>3 DEF Dated, Closes, Sending, Closing
  <2> QED BY <1>2, <2>1, <2>2, <2>3, <2>4, NewGridPauses
<1> QED BY <1>2, <1>4, <1>6 DEF PInv

LEMMA StepPInv == AInv /\ PInv /\ [Next]_vars => PInv'
<1> SUFFICES ASSUME AInv, PInv, [Next]_vars PROVE PInv'  OBVIOUS
<1>1. CASE EngineStep  BY <1>1, EnginePauses
<1>2. CASE Users  BY <1>2, RunNowPauses, QuietPauses, CommandsPauses DEF Users
<1>3. CASE Surroundings  BY <1>3, DeletingPauses, QuietPauses, KillPauses, EnginePauses DEF Surroundings
<1>4. CASE UNCHANGED vars  BY <1>4, QuietPauses
<1> QED BY <1>1, <1>2, <1>3, <1>4 DEF Next

\* Of a card that keeps failing the engine has nothing at hand but a run made by hand.
THEOREM PausingInvariance == Spec => []PInv
<1>1. Init => PInv  BY InitPInv
<1>2. AInv /\ PInv /\ [Next]_vars => PInv'  BY StepPInv
<1> QED BY <1>1, <1>2, AccountsInvariance, PTL DEF Spec

\* A card whose last runs on its grid all failed, among the newest that are looked at, arms
\* nothing more by itself (AutoPauseIfFailing).
THEOREM FailuresAlwaysPause == Spec => []FailuresPause
<1>1. PInv => FailuresPause  BY DEF PInv, Pauses, NeverOneTooMany, FailuresPause
<1> QED BY <1>1, PausingInvariance, PTL
=============================================================================
