SPECIFICATION FairSpec
CONSTANTS
  MaxEdits = 3
  MaxWork = 2
  Hangs = FALSE
INVARIANTS
  NothingForgotten
PROPERTIES
  AckIsTrue Converges
