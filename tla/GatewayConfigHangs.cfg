SPECIFICATION FairSpec
CONSTANTS
  MaxEdits = 2
  MaxWork = 1
  Hangs = TRUE
PROPERTIES
  RestartHappens
