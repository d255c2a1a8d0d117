SPECIFICATION FairSpec
CONSTANTS
  MaxCalls = 2
  MaxEvents = 3
  num_retries = 2
INVARIANTS
  TypeOK
  LossIsNoticed
  NetifBalanced
PROPERTIES
  FlagEndsWait
CHECK_DEADLOCK FALSE
