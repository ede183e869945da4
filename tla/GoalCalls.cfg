CONSTANTS
  g1 = g1
  g2 = g2
  Nobody = Nobody
  Convs <- OneConv
  Writers <- OneConv
  Callers = {op}
  Messages = {m1, m2, m3}
  MaxQueue = 1
  Cap = 1
  MaxRunning = 1
  MaxNoReplyRetries = 0
  MaxCalls = 3
  MaxOwnSends = 0
  MaxRestarts = 1
  FollowUps = FALSE
SPECIFICATION Spec
INVARIANTS TypeOK CapBoundsSends CarriedOnce ReportedOnce
