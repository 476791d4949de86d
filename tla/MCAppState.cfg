CONSTANTS
  Workers = {w1, w2}
  Loop = loop
  MaxStarts = 2
  MaxRequests = 3
SPECIFICATION MCSpec
INVARIANTS
  OneInstance
  NoDrift
  ClientsMatchState
PROPERTIES
  CreationEnds
