SPECIFICATION FairSpec
CONSTANTS
  Capacity = 3
  MaxBytes = 7
INVARIANTS
  TypeOK
  EveryByteOnceInOrder
  SleepsOnlyIfEmptyOrStalled
PROPERTIES
  StallIsPermanent
  StallNeedsOverlap
  DrainsOrStalls
CHECK_DEADLOCK FALSE
