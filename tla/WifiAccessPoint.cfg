SPECIFICATION Spec
CONSTANTS
  MaxCalls = 3
  MaxEvents = 2
INVARIANTS
  TypeOK
  OnlyRefusedHandlersStay
  NetifBalanced
CHECK_DEADLOCK FALSE
