CONSTANTS
  Event = {e1}
  Node = {n1}
  Limit = 1
  MaxAttempts = 2
  MaxCrashes = 1
SPECIFICATION Spec
INVARIANT OneCopyProcessed
CHECK_DEADLOCK FALSE
