SPECIFICATION Spec
CONSTANTS
  MaxBytes = 3
  MaxRows = 1
  Batch = 3
  MaxToken = 1
  MaxPublishers = 2
  MaxBarriers = 1
  OtherWriters = TRUE
INVARIANTS
  DeliveredOnce
PROPERTIES
  AnswerMeansDelivered
CHECK_DEADLOCK FALSE
