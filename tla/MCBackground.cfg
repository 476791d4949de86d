\* The claim of service.py about background work, on the smallest instance.
CONSTANTS
  Requests = {r1, r2}
  MaxConcurrent = 1
  Threads = 2
  MaxPrompts = 1
SPECIFICATION MCSpec
INVARIANT OllamaWithinCap
