SPECIFICATION Spec
CONSTANTS
  Artifacts = {}
  MaxFaults = 3
  MaxInvocations = 1
PROPERTIES
  NoStatusUnderMonitor
CHECK_DEADLOCK FALSE
