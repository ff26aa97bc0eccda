SPECIFICATION FairSpec
CONSTANTS
  Capacity = 3
  MaxBytes = 2
PROPERTIES
  EveryQueuedByteIsRead
CHECK_DEADLOCK FALSE
