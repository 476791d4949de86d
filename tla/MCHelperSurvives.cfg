CONSTANTS
  Helpers = {h1}
  MaxSignals = 1
SPECIFICATION MCSpec
INVARIANT TreeReaped
