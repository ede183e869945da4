\* A local card: the engine, users, the loop engine, the gate and a restart.
CONSTANTS
  t1 = t1
  t2 = t2
  a1 = a1
  a2 = a2
  NoRun = NoRun
  NoSchedule = NoSchedule
  DayLength = 2
  Week = 2
  OnTimeTolerance = 0
  AutoPauseAfter = 1
  AutoPauseWindow = 7
  Agents = {a1}
  Remote = {}
  Tasks = {t1}
  Agent <- Only1
  Policy <- Patient
  Metered = {}
  Schedules <- Grids
  Modes = {"goal", "single"}
  Started = {t1}
  FirstSchedule <- EveryOne
  SingleGrace = 1
  LostAfter = 1
  Acts = {"run", "stop", "create", "pause", "resume", "edit", "delete", "arm"}
  MaxTime = 3
  MaxActs = 2
  MaxGates = 1
  MaxTurns = 0
  MaxOutages = 0
  MaxRestarts = 1
SPECIFICATION Spec
INVARIANTS OccurrencesAreAccounted FailuresPause SlotIsHandedBack
PROPERTY OnlyOwnLoopsAreReplaced
CHECK_DEADLOCK FALSE
