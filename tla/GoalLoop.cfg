CONSTANTS
  g1 = g1
  g2 = g2
  Nobody = Nobody
  Convs <- TwoConvs
  Writers <- TwoConvs
  Callers = {op}
  Messages = {m1, m2, m3}
  MaxQueue = 1
  Cap = 1
  MaxRunning = 2
  MaxNoReplyRetries = 0
  MaxCalls = 2
  MaxOwnSends = 0
  MaxRestarts = 1
  FollowUps = TRUE
SPECIFICATION Spec
INVARIANTS CapBoundsSends CarriedOnce ReportedOnce EngineKeepsOneWriter
SYMMETRY Alike
