\* One card whose account is now and then over its plan-usage limit; the count is 2 and the window 4 (3 and 8 in the code).
CONSTANTS
  t1 = t1
  t2 = t2
  a1 = a1
  a2 = a2
  NoRun = NoRun
  NoSchedule = NoSchedule
  DayLength = 2
  Week = 2
  OnTimeTolerance = 0
  AutoPauseAfter = 2
  AutoPauseWindow = 4
  Agents = {a1}
  Remote = {}
  Tasks = {t1}
  Agent <- Only1
  Policy <- Patient
  Metered = {t1}
  Schedules <- Every1
  Modes = {"goal"}
  Started = {t1}
  FirstSchedule <- EveryOne
  SingleGrace = 1
  LostAfter = 3
  Acts = {}
  MaxTime = 7
  MaxActs = 0
  MaxGates = 0
  MaxTurns = 0
  MaxOutages = 0
  MaxRestarts = 0
SPECIFICATION Spec
INVARIANT FailuresPauseAlways
