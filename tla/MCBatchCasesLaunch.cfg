SPECIFICATION Spec
CONSTANTS
  c1 = c1
  c2 = c2
  k1 = k1
  k2 = k2
  g1 = g1
  g2 = g2
  Commands = {c1}
  Keys = {k1, k2}
  Gpus = {g1, g2}
  Requests <- MCAlone
  Fits <- MCFits
  Jobs = 2
  Refreshing = {c1}
  MaxSaves = 1
  Owner = Owner
  NoKey = NoKey
  NoGpu = NoGpu
  NoDraft = NoDraft
INVARIANT LaunchQuarantined
CHECK_DEADLOCK FALSE
