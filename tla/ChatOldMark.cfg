\* The Harness is replaced under an open page
SPECIFICATION PageSpec
CONSTANTS
  Attachments = {c1, c2}
  Nobody = nobody
  MaxBufferedEvents = 3
  TrimChunk = 1
  MaxRuns = 2
  MaxEmits = 2
  MaxRestarts = 1
  Attempts = 2
  MaxSends = 1
  MaxUploads = 0
  MaxDrops = 1
  MaxLoads = 1
  MaxStops = 0
  MaxResets = 0
  PostsGetLost = FALSE
  HubMayFail = FALSE
SYMMETRY Connections
INVARIANT OnlyRepeatsAreSkipped
CHECK_DEADLOCK FALSE
