SPECIFICATION Spec
CONSTANTS
  MaxCalls = 1
  MaxEvents = 1
  num_retries = 1
INVARIANTS
  ListenersRemoved
CHECK_DEADLOCK FALSE
