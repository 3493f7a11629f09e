SPECIFICATION Spec
CONSTANTS
  Pids = {p1, p2}
  Root = root
  Orphanage = init
  Helpers = {}
  Traces = {"silent"}
  MaxBirths = 5
  ReuseWithinScan = FALSE
  MaxBytes = 3
  MaxRows = 0
  Batch = 2
  MaxToken = 1
  MaxPublishers = 1
  MaxBarriers = 2
  OtherWriters = TRUE
  Commands = {c1}
  Keys = {"k1", "k2"}
  Gpus = {"g1", "g2"}
  Jobs = 2
  Refreshing = {}
  MaxSaves = 1
  CaseOwner = CaseOwner
  NoKey = NoKey
  NoGpu = NoGpu
  NoDraft = NoDraft
PROPERTIES
  Converges
  EveryRequestAnswered
  Ends
CHECK_DEADLOCK FALSE
