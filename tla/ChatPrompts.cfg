\* A prompt lost on its way to the Harness, and one sent right after a Stop
SPECIFICATION PageSpec
CONSTANTS
  Attachments = {c1, c2}
  Nobody = nobody
  MaxBufferedEvents = 3
  TrimChunk = 1
  MaxRuns = 2
  MaxEmits = 2
  MaxRestarts = 0
  Attempts = 2
  MaxSends = 2
  MaxUploads = 0
  MaxDrops = 1
  MaxLoads = 1
  MaxStops = 1
  MaxResets = 0
  PostsGetLost = TRUE
  HubMayFail = FALSE
SYMMETRY Connections
INVARIANTS ReattachFindsOwnRun AppliedOnce
CHECK_DEADLOCK FALSE
