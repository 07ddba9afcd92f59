\* Two workers, two attempts, two requests, two weeks, and a worker that dies or a
\* session that ends early.
CONSTANTS
  w1 = w1
  w2 = w2
  NoWorker = NoWorker
  Gone = Gone
  Workers = {w1, w2}
  MaxAttempts = 2
  MaxRequests = 2
  MaxWeeks = 2
  MaxFaults = 1
SPECIFICATION Spec
INVARIANTS
  RunsOnce
PROPERTIES
  RunsAreOneByOne
  QueuedSyncsRun
  WeekIsAttempted
