CONSTANTS
  Loops = {l1, l2, l3}
  Calls <- MCCalls
  None = None
SPECIFICATION MCSpec
INVARIANTS
  ReusableAcrossRuns
  CurrentStaysOpen
  NoClientLeaks
PROPERTIES
  OneClientPerSwitch
  RebuildEnds
