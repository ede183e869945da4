\* Two goal cards on one local agent, both due in one tick.
CONSTANTS
  t1 = t1
  t2 = t2
  a1 = a1
  a2 = a2
  NoRun = NoRun
  NoSchedule = NoSchedule
  DayLength = 2
  Week = 2
  OnTimeTolerance = 0
  AutoPauseAfter = 3
  AutoPauseWindow = 8
  Agents = {a1}
  Remote = {}
  Tasks = {t1, t2}
  Agent <- SameAgent
  Policy <- Patient
  Metered = {}
  Schedules <- Every1
  Modes = {"goal"}
  Started = {t1, t2}
  FirstSchedule <- EveryOne
  SingleGrace = 1
  LostAfter = 3
  Acts = {}
  MaxTime = 3
  MaxActs = 0
  MaxGates = 0
  MaxTurns = 0
  MaxOutages = 0
  MaxRestarts = 0
SPECIFICATION Spec
INVARIANT SlotIsHandedBack
