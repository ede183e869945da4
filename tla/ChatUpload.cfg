\* A prompt with an attachment while the poll finds a run
SPECIFICATION PageSpec
CONSTANTS
  Attachments = {c1, c2}
  Nobody = nobody
  MaxBufferedEvents = 3
  TrimChunk = 1
  MaxRuns = 2
  MaxEmits = 2
  MaxRestarts = 0
  Attempts = 2
  MaxSends = 1
  MaxUploads = 1
  MaxDrops = 1
  MaxLoads = 1
  MaxStops = 0
  MaxResets = 0
  PostsGetLost = FALSE
  HubMayFail = FALSE
SYMMETRY Connections
INVARIANT EveryReaderIsCancellable
CHECK_DEADLOCK FALSE
