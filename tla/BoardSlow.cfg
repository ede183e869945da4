CONSTANTS
  i1 = i1
  t1 = t1
  t2 = t2
  i2 = i2
  m1 = m1
  e1 = e1
  e2 = e2
  p1 = p1
  p2 = p2
  None = None
  Ideas = {i1, i2}
  Tasks = {t1}
  Machines = {m1}
  EdgeOrder <- NoEdges
  Ends <- NoEnds
  Origin <- Promoted1
  Hub = hub
  Peers = {p1}
  Members = {}
  StartBoard <- OnlyIdea
  MaxCasRetries = 2
  Edits = {"updateIdea", "addTask"}
  Editors = {hub, p1}
  SlowRequests = TRUE
  MaxEdits = 4
  MaxLosses = 1
  MaxRestarts = 1
SPECIFICATION Spec

PROPERTY NothingComesBack
CHECK_DEADLOCK FALSE
