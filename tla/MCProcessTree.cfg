SPECIFICATION Spec
CONSTANTS
  Pids = {p1, p2, p3}
  Root = root
  Orphanage = init
  Helpers = {}
  Traces = {"silent"}
  MaxBirths = 5
  ReuseWithinScan = TRUE
SYMMETRY Symmetry
INVARIANTS
  NothingOutlives
  OnlyWorkSignalled
CHECK_DEADLOCK FALSE
