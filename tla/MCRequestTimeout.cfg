\* The claim of service.py about IntelligenceTimeoutError.
CONSTANTS
  MaxPrompts = 1
  MaxRetries = 1
  Timeout = 2
SPECIFICATION MCSpec
PROPERTY TimeoutMeansSlowRequest
