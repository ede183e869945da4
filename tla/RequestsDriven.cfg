\* A goal is started before the request is decided, and both operators decide: -continue shows all three
SPECIFICATION Spec
CONSTANTS
  hub = hub
  peer = peer
  r1 = r1
  r2 = r2
  a1 = a1
  c1 = c1
  c2 = c2
  c3 = c3
  NoRequest = NoRequest
  Harnesses <- TwoHarnesses
  Pulls <- HubPulls
  Requests = {r1}
  Home <- AtPeer
  Agent <- OneAgent
  Text <- OwnTexts
  Calls = {c1, c3}
  At <- CallsAt
  Does <- Anything
  Chatting = {hub}
  Faults <- SomeFaults
  MaxPendingPerAgent = 2
  MaxDecidedKept = 2
  LongTurns = TRUE
  MaxDecisions = 2
  MaxFaults = 0
  MaxOptIns = 1
INVARIANTS DismissedIsNotDriven PostedOrDriven OneDecision
