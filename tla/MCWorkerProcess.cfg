CONSTANTS
  Node = {n1, n2}
  Busy = {n1}
  Ttl = 3
  RenewEvery = 1
  Faults = {"dbError", "slowDb"}
  NoOwner = NoOwner
  RpcTimeout = 1
  RpcRetries = 1
  RetryDelay = 1
  MaxErrors = 1
SPECIFICATION FairWorkerSpec
INVARIANTS GrantIsBacked ExclusiveWhileGranted HealthyCycleKeepsLease ShutdownInTime
PROPERTIES ShutdownCompletes LeaseIsFreed
CHECK_DEADLOCK FALSE
