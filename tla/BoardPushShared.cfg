CONSTANTS
  i1 = i1
  t1 = t1
  t2 = t2
  i2 = i2
  m1 = m1
  e1 = e1
  e2 = e2
  p1 = p1
  p2 = p2
  None = None
  Ideas <- NoIds
  Tasks = {t1}
  Machines = {m1}
  EdgeOrder <- NoEdges
  Ends <- NoEnds
  Origin <- NotPromoted
  Hub = hub
  Peers <- Peers2
  Members <- Peers2
  StartBoard <- FullBoard
  MaxCasRetries = 3
  Edits = {"updateTask", "updateBox", "deleteBox"}
  Editors = {p1, p2}
  SlowRequests = FALSE
  MaxEdits = 4
  MaxLosses = 0
  MaxRestarts = 0
SPECIFICATION Spec
PROPERTY PushIsShared
SYMMETRY Alike
CHECK_DEADLOCK FALSE
