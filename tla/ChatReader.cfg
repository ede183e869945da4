\* Prompts with and without an attachment, a Stop, lost connections, the legacy loop, transcript loads
SPECIFICATION PageSpec
CONSTANTS
  Attachments = {c1, c2}
  Nobody = nobody
  MaxBufferedEvents = 2
  TrimChunk = 1
  MaxRuns = 2
  MaxEmits = 2
  MaxRestarts = 0
  Attempts = 2
  MaxSends = 1
  MaxUploads = 1
  MaxDrops = 1
  MaxLoads = 1
  MaxStops = 1
  MaxResets = 0
  PostsGetLost = FALSE
  HubMayFail = TRUE
SYMMETRY Connections
INVARIANTS SingleFlight SeqNeverReused OneReader OnlyRepeatsAreSkipped OwnRunShownOnce
PROPERTY WholeRunShown
CHECK_DEADLOCK FALSE
