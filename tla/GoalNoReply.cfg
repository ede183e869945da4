CONSTANTS
  g1 = g1
  g2 = g2
  Nobody = Nobody
  Convs <- OneConv
  Writers <- OneConv
  Callers = {op}
  Messages = {m1, m2}
  MaxQueue = 1
  Cap = 2
  MaxRunning = 1
  MaxNoReplyRetries = 1
  MaxCalls = 2
  MaxOwnSends = 2
  MaxRestarts = 0
  FollowUps = FALSE
SPECIFICATION Spec
INVARIANT NoReplyMeansRuns
