SPECIFICATION FairSpec
CONSTANTS
  Step = 2
  MaxBatch = 25
  Budget = 4
  Guided = TRUE
  Peaks = {1, 3, 4, 5}
INVARIANTS
  ResultEarned
PROPERTIES
  Terminates
CHECK_DEADLOCK FALSE
