CONSTANTS
  Requests = {r1, r2, r3}
  MaxConcurrent = 1
  Threads = 2
  MaxPrompts = 1
SPECIFICATION MCSpec
INVARIANTS
  TypeOK
  QueuedJobsAreAwaited
  EndingsToldApart
PROPERTIES
  OneJobPerRequest
  AnsweredDespiteHungThreads
