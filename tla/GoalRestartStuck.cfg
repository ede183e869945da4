CONSTANTS
  g1 = g1
  g2 = g2
  Nobody = Nobody
  Convs <- OneConv
  Writers <- OneConv
  Callers = {op}
  Messages = {m1, m2}
  MaxQueue = 1
  Cap = 2
  MaxRunning = 1
  MaxNoReplyRetries = 0
  MaxCalls = 1
  MaxOwnSends = 0
  MaxRestarts = 1
  FollowUps = FALSE
SPECIFICATION LiveSpec
PROPERTY LoopsGoOn
