\* One worker whose session ends before its process.
CONSTANTS
  w1 = w1
  NoWorker = NoWorker
  Gone = Gone
  Workers = {w1}
  MaxAttempts = 2
  MaxRequests = 1
  MaxWeeks = 1
  MaxFaults = 1
SPECIFICATION Spec
CHECK_DEADLOCK FALSE
PROPERTIES
  QueuedSyncsRun
