----------------------------- MODULE Recurrence -----------------------------
(***************************************************************************)
(* The rules of recurring tasks (Recurrence.cs): the fixed grid of         *)
(* occurrences, the ladder that decides what a card does in one tick, and  *)
(* the rule by which a card that keeps failing pauses itself.              *)
(*                                                                         *)
(* Times are natural numbers and 0 means none.  A day has DayLength of     *)
(* them, the same every day: changes of the clock are not modelled.        *)
(***************************************************************************)
EXTENDS Naturals, SequencesExt

CONSTANTS
  DayLength, Week,  \* the length of a day, and the days of a week
  OnTimeTolerance,  \* an occurrence sent later than this is a catch-up
  AutoPauseAfter,   \* failures in a row after which a card pauses itself
  AutoPauseWindow,  \* how many of the newest runs are looked at for them
  NoSchedule        \* the schedule of no card

ASSUME RecurrenceAssumption ==
  /\ {DayLength, Week, AutoPauseAfter} \subseteq Nat \ {0}
  /\ OnTimeTolerance \in Nat /\ AutoPauseWindow \in Nat

Interval(every) == [kind |-> "interval", every |-> every]
Daily(at, days) == [kind |-> "daily", at |-> at, days |-> days]

DayAllowed(s, day) == s.days = {} \/ day % Week \in s.days
LocalAt(s, day)    == day * DayLength + s.at

\* The first occurrence strictly after a time; creating a card does not fire it.
\* A day looked at further ahead than two weeks is never needed.
NextAfter(s, anchor, time) ==
  LET from == Max({time, anchor}) IN
  IF s.kind = "interval" THEN anchor + s.every * ((from - anchor) \div s.every + 1)
  ELSE LET today == from \div DayLength
           days  == {d \in today .. today + 2 * Week : DayAllowed(s, d) /\ LocalAt(s, d) > from}
       IN  LocalAt(s, Min(days))

\* The newest occurrence that is not later than now.
LatestAtOrBefore(s, anchor, now) ==
  IF now < anchor THEN 0
  ELSE IF s.kind = "interval"
    THEN LET k == (now - anchor) \div s.every IN IF k < 1 THEN 0 ELSE anchor + s.every * k
    ELSE LET today == now \div DayLength
             back  == IF today > 2 * Week THEN today - 2 * Week ELSE 0
             days  == {d \in back .. today : DayAllowed(s, d) /\ LocalAt(s, d) <= now}
             last  == IF days = {} THEN 0 ELSE LocalAt(s, Max(days))
         IN  IF last > anchor THEN last ELSE 0

\* How many occurrences are in (from, to].
CountBetween(s, anchor, from, to) ==
  LET count[at \in from .. to] ==
        LET next == NextAfter(s, anchor, at) IN IF next > to THEN 0 ELSE 1 + count[next]
  IN  IF from > to THEN 0 ELSE count[from]

\* What is already settled: the newest occurrence handled, or the anchor.
SettledUntil(c) == IF c.handled > c.anchor THEN c.handled ELSE c.anchor

IsDue(c, now) == NextAfter(c.sched, c.anchor, SettledUntil(c)) <= now

Due(c, now) ==
  LET latest == LatestAtOrBefore(c.sched, c.anchor, now)
  IN  IF latest > 0 THEN latest ELSE NextAfter(c.sched, c.anchor, SettledUntil(c))

\* Variant: the occurrences covered are counted from the anchor.
Missed_FromAnchor(c, now) == CountBetween(c.sched, c.anchor, c.anchor, Due(c, now)) - 1

\* One occurrence is pending at most, the newest; the others are counted.
Missed(c, now) == CountBetween(c.sched, c.anchor, SettledUntil(c), Due(c, now)) - 1

Late(c, now) == now - Due(c, now) > OnTimeTolerance

\* Variant: an occurrence that is late waits when catching up is off.
Decide_LateWaits(c, policy, now, gate, held, busy) ==
  IF ~c.enabled \/ ~IsDue(c, now) THEN "idle"
  ELSE IF ~gate \/ held \/ (~policy.catchUp /\ Late(c, now)) THEN "hold"
  ELSE IF busy THEN IF policy.skipWhenBusy THEN "skip" ELSE "hold"
  ELSE "fire"

\* The ladder: what a card does, given whether the gate is open, whether something else
\* holds it back, and whether the agent is busy.
Decide(c, policy, now, gate, held, busy) ==
  IF ~c.enabled \/ ~IsDue(c, now) THEN "idle"
  ELSE IF ~gate THEN "hold"
  ELSE IF ~policy.catchUp /\ Late(c, now) THEN "skip"
  ELSE IF held THEN "hold"
  ELSE IF busy THEN IF policy.skipWhenBusy THEN "skip" ELSE "hold"
  ELSE "fire"

\* The newest runs of a log, those that count: closed and not skipped.
Counted(log) ==
  {i \in DOMAIN log : i + AutoPauseWindow > Len(log) /\ log[i].status \notin {"running", "skipped"}}

Failure(run) == run.status \in {"refused", "failed"}

\* There are n of them and all failed.
AllFailed(log, places, n) == Cardinality(places) = n /\ \A i \in places : Failure(log[i])

\* Variant: one failure more.
ShouldAutoPause_OneMore(log) ==
  \E k \in Counted(log) : AllFailed(log, {i \in Counted(log) : i >= k}, AutoPauseAfter + 1)

ShouldAutoPause(log) == \E k \in Counted(log) : AllFailed(log, {i \in Counted(log) : i >= k}, AutoPauseAfter)
=============================================================================
