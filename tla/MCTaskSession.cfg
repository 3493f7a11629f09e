SPECIFICATION Spec
CONSTANTS
  Artifacts = {a1, a2}
  MaxFaults = 3
  MaxInvocations = 2
INVARIANTS
  HonestReturn
  OwnersApart
  InputsRetained
  SingleFaultReported
PROPERTIES
  CheckpointBeforeClose
  VerdictOnlyWorsens
CHECK_DEADLOCK FALSE
