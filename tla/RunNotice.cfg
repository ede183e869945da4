\* A browser turn whose readiness check found something to report
SPECIFICATION Spec
CONSTANTS
  Attachments = {a1}
  MaxBufferedEvents = 2
  TrimChunk = 1
  MaxRuns = 1
  MaxEmits = 2
  MaxRestarts = 0
INVARIANT ErrorNeedsAFault
CHECK_DEADLOCK FALSE
