SPECIFICATION Healthy
CONSTANTS
  MaxBytes = 2
  MaxRows = 0
  Batch = 2
  MaxToken = 1
  MaxPublishers = 1
  MaxBarriers = 0
  OtherWriters = TRUE
PROPERTIES
  FinalAcknowledged
CHECK_DEADLOCK FALSE
