CONSTANTS
  Helpers = {h1, h2}
  MaxSignals = 2
SPECIFICATION MCSpec
INVARIANTS
  RootGone
  HandledSignalDecides
PROPERTIES
  WrapperEnds
