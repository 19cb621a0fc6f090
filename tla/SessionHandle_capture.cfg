\* More notices than the channel holds arrive while the settings are captured.
SPECIFICATION FairSpec
CONSTANTS
  Capacity = 1
  Queries = 1
  SinkFails = FALSE
  MaxNotices = 2
  MaxRows = 0
  MaxRequests = 4
CHECK_DEADLOCK FALSE
PROPERTIES
  CaptureEnds
