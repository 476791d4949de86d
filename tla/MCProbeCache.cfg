CONSTANTS
  Callers = {c1, c2, c3}
  TTL = 2
  MaxProbe = 1
SPECIFICATION Spec
INVARIANTS
  TypeOK
  OneRefresh
  EventsMatchCache
  ReadyIsRecent
PROPERTIES
  RefreshOnlyWhenExpired
  EveryCallEnds
