\* More notices than the channel holds, output that may fail, a dropped handle.
SPECIFICATION FairSpec
CONSTANTS
  Capacity = 1
  Queries = 1
  SinkFails = TRUE
  MaxNotices = 2
  MaxRows = 1
  MaxRequests = 5
CHECK_DEADLOCK FALSE
INVARIANTS
  TypeOK
PROPERTIES
  SuccessIsComplete
  OutcomeIsTrue
  StatementEnds
  LossIsNoticed
