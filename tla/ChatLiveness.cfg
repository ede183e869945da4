\* A page and the runs of its slot, under the fairness of page and Harness
SPECIFICATION FairPageSpec
CONSTANTS
  Attachments = {c1, c2}
  Nobody = nobody
  MaxBufferedEvents = 3
  TrimChunk = 1
  MaxRuns = 1
  MaxEmits = 1
  MaxRestarts = 1
  Attempts = 2
  MaxSends = 1
  MaxUploads = 1
  MaxDrops = 1
  MaxLoads = 1
  MaxStops = 0
  MaxResets = 1
  PostsGetLost = TRUE
  HubMayFail = TRUE
PROPERTIES StreamingEnds RunShowsUp
CHECK_DEADLOCK FALSE
