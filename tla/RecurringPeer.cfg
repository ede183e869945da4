\* A card of a peer: turns, the gate, lost contact and lost answers.
CONSTANTS
  t1 = t1
  t2 = t2
  a1 = a1
  a2 = a2
  NoRun = NoRun
  NoSchedule = NoSchedule
  DayLength = 2
  Week = 2
  OnTimeTolerance = 0
  AutoPauseAfter = 1
  AutoPauseWindow = 7
  Agents = {a2}
  Remote = {a2}
  Tasks = {t2}
  Agent <- Only2
  Policy <- Strict
  Metered = {t2}
  Schedules <- Every2
  Modes = {"goal", "single"}
  Started = {}
  FirstSchedule <- EveryTwo
  SingleGrace = 0
  LostAfter = 1
  Acts = {"create", "edit", "stop", "arm"}
  MaxTime = 4
  MaxActs = 2
  MaxGates = 1
  MaxTurns = 1
  MaxOutages = 1
  MaxRestarts = 1
SPECIFICATION LiveSpec
PROPERTY OccurrencesAreHandled
