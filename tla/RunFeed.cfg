\* One run that outgrows its buffer: what readers are given, what the slot owes its runs
\* and readers under the fairness of the code, and the feed it implements
SPECIFICATION FairSpec
CONSTANTS
  Attachments = {a1}
  MaxBufferedEvents = 3
  TrimChunk = 2
  MaxRuns = 1
  MaxEmits = 4
  MaxRestarts = 1
INVARIANTS TypeOK StopIsNotAFailure BufferIsTail DeliveryIsExact ReplayMatchesWatermark
PROPERTIES NothingAfterTheEnd StopEndsTheTurn CompletionIsAnnounced ReaderIsReleased ServesTheFeed
CHECK_DEADLOCK FALSE
