CONSTANTS
  i1 = i1
  t1 = t1
  t2 = t2
  i2 = i2
  m1 = m1
  e1 = e1
  e2 = e2
  p1 = p1
  p2 = p2
  None = None
  Ideas = {i1}
  Tasks = {t1}
  Machines = {}
  EdgeOrder <- NoEdges
  Ends <- NoEnds
  Origin <- Promoted1
  Hub = hub
  Peers = {p1}
  Members = {p1}
  StartBoard <- FullBoard
  MaxCasRetries = 3
  Edits = {"updateIdea", "deleteTask"}
  Editors = {hub, p1}
  SlowRequests = FALSE
  MaxEdits = 3
  MaxLosses = 0
  MaxRestarts = 0
SPECIFICATION Spec
INVARIANT NoIdeaIsLost
CHECK_DEADLOCK FALSE
