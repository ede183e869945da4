\* A decision refused is settled, and the peer takes decisions from then on
SPECIFICATION LiveSpec
CONSTANTS
  hub = hub
  peer = peer
  r1 = r1
  r2 = r2
  a1 = a1
  c1 = c1
  c2 = c2
  c3 = c3
  NoRequest = NoRequest
  Harnesses <- TwoHarnesses
  Pulls <- HubPulls
  Requests = {r1}
  Home <- AtPeer
  Agent <- OneAgent
  Text <- OwnTexts
  Calls = {c1, c3}
  At <- CallsAt
  Does <- PeerDismisses
  Chatting = {}
  Faults <- SomeFaults
  MaxPendingPerAgent = 2
  MaxDecidedKept = 2
  LongTurns = TRUE
  MaxDecisions = 1
  MaxFaults = 1
  MaxOptIns = 1
PROPERTIES DecisionsReachThePeer
