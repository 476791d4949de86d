CONSTANTS
  Directories <- MCDirectories
  Arrivals <- MCArrivals
  Limit = 4
  Allowance = 2
  ChunkSize = 3
  MaxRequests = 2
SPECIFICATION Spec
INVARIANTS
  OneUploadLimit
  CorrelatedOnce
  DirectoryServedWhole
CHECK_DEADLOCK FALSE
