SPECIFICATION Spec
CONSTANTS
  Pids = {h, p1, p2}
  Root = root
  Orphanage = init
  Helpers = {h}
  Traces = {"marked", "pending", "silent"}
  MaxBirths = 3
  ReuseWithinScan = FALSE
SYMMETRY Symmetry
INVARIANTS
  Contained
PROPERTIES
  OnlyWorkReaped
CHECK_DEADLOCK FALSE
