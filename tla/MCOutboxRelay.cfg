CONSTANTS
  Event = {e1, e2}
  Node = {n1, n2}
  Limit = 1
  MaxAttempts = 2
  MaxCrashes = 1
SPECIFICATION FairSpec
INVARIANTS NothingLost
PROPERTIES EveryEventPublished DeliverySpec
CHECK_DEADLOCK FALSE
