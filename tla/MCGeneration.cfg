CONSTANTS
  MaxPrompts = 3
  MaxRetries = 2
  Timeout = 3
SPECIFICATION MCSpec
INVARIANTS
  TypeOK
  OneOpenRequest
  AttemptsTruthful
PROPERTIES
  ThreadReleased
  CoroutineStops
